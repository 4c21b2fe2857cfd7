SPECIFICATION Spec
CONSTANTS
  FrameCount = 9
  DirectoryCount = 6
  StackGarbage <- Zeros
  EntryPages = {0, 768}
  PageFrameSize = 2
  SizeLimit = 64
  Sizes = {1, 3, 5}
  MaxFrames = 3
  SlotCount = 3
  Regs = {1, 2, 3}
  EntryRegs = 1
  MaxCreates = 7
  MaxDestroys = 2
INVARIANTS
  TypeOK
  SpacesOwned
  RunsInMappedSpace
  RunsInOwnSpace
PROPERTIES
  TimerInvisible
  EveryProcessRuns
