SPECIFICATION Spec
CONSTANTS
  ClusterMapSize = 6
  ClusterSize = 2
  DirSlots = 4
  Names = {"a", "b"}
  Exts = {"blank"}
  Payloads = {"text"}
  RootName = "root"
  Sizes = {0, 1}
  SelfRequests = FALSE
  TextPayloads = {"text"}
  Components = {"a", "b", ".", "long", "blank"}
  MaxComponents = 2
  StackSize = 3
  PathLevels = 2
  CatClusters = 1
  CopyClusters = 1
INVARIANTS
  TypeOK
  StackIsPath
  PromptTruthful
  FindComplete
PROPERTIES
  CommandsEnd
