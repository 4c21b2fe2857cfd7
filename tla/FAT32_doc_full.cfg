SPECIFICATION Spec
CONSTANTS
  ClusterMapSize = 6
  ClusterSize = 2
  DirSlots = 3
  Names = {"a", "b"}
  Exts = {"blank"}
  Payloads = {"p"}
  RootName = "root"
  Sizes = {0, 2, 3}
  SelfRequests = FALSE
  MaxPowerLosses = 0
INVARIANTS
  WrittenIsListed
