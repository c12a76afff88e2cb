SPECIFICATION Spec
CONSTANTS
  TimeMax = 5
  root = root
  region = region
  delegate = delegate
  na = na
  nb = nb
  rad = rad
  card = card
  infer = infer
  status = status
  admin = admin
  m1 = m1
  m2 = m2
  Garbled = Garbled
  Unbound = Unbound
  Principal <- Principals
  Ability = {infer, status, admin}
  Tag = {rad, card}
  TagsOf <- Tags
  EnrollReq = {e1, e2}
  TokenReq = {}
  Nonce = {m1, m2}
  RetainSecs = 3
  WindowStart = 0
  BootstrapTtl = 0
  ClockFloor = 1
  ClockMayStepBack = FALSE
  Delegate = delegate
  DelegateChain <- BroadChain
  Policies <- SiteTag
  FirstByte <- FirstBytes
  EnrollBody <- TwoNodes
  TokenBody <- NoBodies
  MayRevoke = {e1, e2}
  MaxRestarts = 0
INVARIANTS RevocationSparesOthers
CHECK_DEADLOCK FALSE
