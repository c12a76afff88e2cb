SPECIFICATION PairSpec
CONSTANTS
  w1 = w1
  w2 = w2
  w3 = w3
  NoSlug = NoSlug
  TimeMax = 7
  Adder = {w1, w2, w3}
  Alias = {1, 2, 3}
  Slug <- Slugs
  ShortId <- ShortIds
  FromPage = {w3}
  Typed <- Lifetimes
  IssuedAt <- Clocks
INVARIANTS PairTypeOK StoredStays LastWriteCounts ReadableUnlessDisturbed
  AnswerIsTrue WalletHoldsGrants NeverOutlivesApproval
PROPERTY CommandEnds
CHECK_DEADLOCK FALSE
