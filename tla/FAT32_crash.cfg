SPECIFICATION Spec
CONSTANTS
  ClusterMapSize = 6
  ClusterSize = 2
  DirSlots = 4
  Names = {"a", "b"}
  Exts = {"blank"}
  Payloads = {"p"}
  RootName = "root"
  Sizes = {0, 2, 3}
  SelfRequests = FALSE
  MaxPowerLosses = 1
INVARIANTS
  ChainsAscend
  MemoryAgrees
  LossConfined
\* A chain broken by a power loss makes delete() run away: that step is the last.
CHECK_DEADLOCK FALSE
