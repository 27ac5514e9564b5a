CONSTANTS
  Width = 3
  Height = 7
  CellW = 1
  CellH = 2
  IconW = 1
  IconH = 5
  Chars = {"A", "_"}
  Blank = "_"
  Glyph <- Glyphs
SPECIFICATION Spec
INVARIANTS BackgroundStays NothingAhead
PROPERTY TerminalSpec
CHECK_DEADLOCK FALSE
