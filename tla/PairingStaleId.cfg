SPECIFICATION Spec
CONSTANTS
  r1 = r1
  r2 = r2
  a = a
  b = b
  Request = {r1, r2}
  Node = {a, b}
  Asker <- AskerOf
  WantsRoots = {}
  Operator = {"cli"}
  Page = {}
  DecisionTimeout = 1
  RequestTimeout = 3
  MaxDelay = 1
  LastAsk = 1
  MaxRestarts = 1
  RootsFiles <- Empty
INVARIANT GrantedWasApproved
CHECK_DEADLOCK FALSE
