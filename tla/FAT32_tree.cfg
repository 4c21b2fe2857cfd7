SPECIFICATION Spec
CONSTANTS
  ClusterMapSize = 6
  ClusterSize = 2
  DirSlots = 4
  Names = {a, b, c, "..", "root"}
  Exts = {"blank"}
  Payloads = {"p"}
  RootName = "root"
  Sizes = {0, 2, 3}
  SelfRequests = FALSE
  MaxPowerLosses = 0
SYMMETRY NameSymmetry
INVARIANTS
  TypeOK
  NothingShared
  TreeWhole
  NoRunaway
PROPERTIES
  WritesConfined
  ImplementsStore
