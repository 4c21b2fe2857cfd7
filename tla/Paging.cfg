SPECIFICATION Spec
CONSTANTS
  FrameCount = 4
  DirectoryCount = 2
  UserPages = {0, 1}
  StackGarbage <- Anything
INVARIANTS
  TypeOK
  FramesCounted
  FramesExclusive
  TlbFresh
