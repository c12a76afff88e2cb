SPECIFICATION Spec
CONSTANTS
  north = north
  south = south
  na = na
  nb = nb
  r1 = r1
  Node = {na, nb}
  FreshWindow = 2
  Delegates <- TwoDelegates
  Atlases <- ThreeAtlases
  InitialAtlas <- ServingAndStale
  Flaky <- SomeHistory
  Revocation = {r1}
  Slot = {1, 2}
  MaxChanges = 1
INVARIANTS TypeOK ShownIsWhatDelegatesSaw MissingIsReported
PROPERTIES Converges KeptUnlessOvertaken
