SPECIFICATION Spec
CONSTANTS
  TimeMax = 5
  root = root
  region = region
  delegate = delegate
  na = na
  nb = nb
  rad = rad
  card = card
  infer = infer
  status = status
  admin = admin
  m1 = m1
  m2 = m2
  Garbled = Garbled
  Unbound = Unbound
  Principal <- Principals
  Ability = {infer, status, admin}
  Tag = {rad, card}
  TagsOf <- Tags
  EnrollReq = {e1}
  TokenReq = {t1}
  Nonce = {m1, m2}
  RetainSecs = 3
  WindowStart = 1
  BootstrapTtl = 3
  ClockFloor = 1
  ClockMayStepBack = FALSE
  Delegate = delegate
  DelegateChain <- TaggedChain
  Policies <- NoOrOtherTag
  FirstByte <- WideBytes
  EnrollBody <- EnrollBodies
  TokenBody <- TokenBodies
  MayRevoke = {e1, t1}
  MaxRestarts = 1
INVARIANTS TypeOK IssuedCapsWork CapsWeaken TagHonoured
CHECK_DEADLOCK FALSE
