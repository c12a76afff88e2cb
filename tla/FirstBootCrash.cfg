SPECIFICATION Spec
CONSTANTS
  Node = {a}
  Platforms = {"linux", "windows"}
  Configs <- OfEachKind
  MaxPosts = 5
  MaxReboots = 2
  MaxFaults = 2
INVARIANTS TypeOK MarkerMeansCap NoTaskMeansEnrolled WorkerOnlyEnrolled
PROPERTIES EnrolledNeverAsksAgain GoodMachinesEnroll WorkerAfterBoot
CHECK_DEADLOCK FALSE
