SPECIFICATION Spec
CONSTANTS
  Seconds = 2
  Minutes = 3
  Days = 2
  Modes <- AllModes
  MaxTicks = 4
INVARIANTS
  TypeOK
  TimeWasReal
PROPERTIES
  ReadingEnds
