SPECIFICATION Spec
CONSTANTS
  Width = 3
  Height = 3
  Glyphs = {"a", "b"}
INVARIANTS
  TypeOK
  ScanStaysOnScreen
  TextUpToCursor
PROPERTIES
  ImplementsTerminal
