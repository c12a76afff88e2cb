SPECIFICATION Spec
CONSTANTS
  TimeMax = 5
  root = root
  region = region
  delegate = delegate
  na = na
  nb = nb
  rad = rad
  card = card
  infer = infer
  status = status
  admin = admin
  m1 = m1
  m2 = m2
  Garbled = Garbled
  Unbound = Unbound
  Principal <- Principals
  Ability = {infer, status, admin}
  Tag = {rad, card}
  TagsOf <- Tags
  EnrollReq = {e1, e2}
  TokenReq = {t1}
  Nonce = {m1, m2}
  RetainSecs = 2
  WindowStart = 0
  BootstrapTtl = 0
  ClockFloor = 1
  ClockMayStepBack = TRUE
  Delegate = delegate
  DelegateChain <- BroadChain
  Policies <- SiteTag
  FirstByte <- FirstBytes
  EnrollBody <- EnrollBodies
  TokenBody <- EpochToken
  MayRevoke = {}
  MaxRestarts = 1
INVARIANTS OneCapPerRetention BurnedByAuthenticated
PROPERTIES UsesLedger
CHECK_DEADLOCK FALSE
