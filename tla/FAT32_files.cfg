SPECIFICATION Spec
CONSTANTS
  ClusterMapSize = 6
  ClusterSize = 2
  DirSlots = 4
  Names = {"a"}
  Exts = {"blank", "x"}
  Payloads = {"p", "q"}
  RootName = "root"
  Sizes = {1, 4}
  SelfRequests = FALSE
  MaxPowerLosses = 2
INVARIANTS
  ChainsWhole
  WholeOrErased
