SPECIFICATION Spec
CONSTANTS
  TimeMax = 6
  Request = {r1, r2, r3}
  Nonce = {n1, n2}
  RetainSecs = 2
  WindowStart = 0
  BootstrapTtl = 0
  ClockFloor = 0
  ClockMayStepBack = FALSE
SYMMETRY Symmetry
INVARIANTS TypeOK RememberedForRetention
PROPERTIES ReuseOnlyAfterRetention
CHECK_DEADLOCK FALSE
