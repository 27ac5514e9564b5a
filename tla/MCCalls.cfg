CONSTANTS
  PageSize = 4
  EntrySize = 1
  MaxRegions = 4
  FirstBases = {0, 4}
  StMaps <- AllMaps
  Bits = 8
  Digits = 3
  BufSize = 5
  Widths = {1, 2, 4}
  Size = 5
  Bytes = {0, 1, 200}
  Nums = {0, 1, 2, 3}
SPECIFICATION CallsSpec
INVARIANTS FreeIsAlone UsableKept TableInside RoomToSplit PagesInOrder
           StringsRight NumbersRight MessageRight
CHECK_DEADLOCK FALSE
