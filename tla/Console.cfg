SPECIFICATION Spec
CONSTANTS
  Width = 2
  Height = 2
  Letters = {"a", "b"}
  ColRange = 2
  MaxLength = 4
  PsColumn = 1
  MaxPresses = 6
INVARIANTS
  TypeOK
  Terminated
  LineIsEdited
  ScreenShowsLine
  NoGhostKeys
PROPERTIES
  KeysAreRead
