SPECIFICATION Spec
CONSTANTS
  r1 = r1
  r2 = r2
  a = a
  b = b
  Request = {r1, r2}
  Node = {a, b}
  Asker <- AskerOf
  WantsRoots = {}
  Operator = {"page", "cli"}
  Page = {"page"}
  DecisionTimeout = 1
  RequestTimeout = 4
  MaxDelay = 1
  LastAsk = 1
  MaxRestarts = 0
  RootsFiles <- Empty
INVARIANTS GrantedWasApproved DenyIsFinal CleanAnswer
PROPERTY KeepsConsent
CHECK_DEADLOCK FALSE
