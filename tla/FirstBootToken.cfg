SPECIFICATION Spec
CONSTANTS
  Node = {a}
  Platforms = {"linux"}
  Configs <- TokenOnly
  MaxPosts = 2
  MaxReboots = 0
  MaxFaults = 0
INVARIANTS TokenAccepted
CHECK_DEADLOCK FALSE
