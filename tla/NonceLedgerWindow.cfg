SPECIFICATION Spec
CONSTANTS
  TimeMax = 5
  Request = {r1, r2, r3}
  Nonce = {n1, n2}
  RetainSecs = 3
  WindowStart = 1
  BootstrapTtl = 2
  ClockFloor = 1
  ClockMayStepBack = TRUE
INVARIANTS OneTime UsedWasAccepted
PROPERTIES KeepsPromise
CHECK_DEADLOCK FALSE
