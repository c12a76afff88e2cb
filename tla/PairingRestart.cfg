SPECIFICATION Spec
CONSTANTS
  r1 = r1
  r2 = r2
  a = a
  b = b
  Request = {r1, r2}
  Node = {a, b}
  Asker <- AskerOf
  WantsRoots = {r1, r2}
  Operator = {"cli"}
  Page = {}
  DecisionTimeout = 1
  RequestTimeout = 2
  MaxDelay = 0
  LastAsk = 1
  MaxRestarts = 1
  RootsFiles <- Ended
INVARIANTS TypeOK RootedUnlessTorn
PROPERTY PromptsEnd
CHECK_DEADLOCK FALSE
