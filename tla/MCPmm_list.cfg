SPECIFICATION Spec
CONSTANTS
  NULL = NULL
  NumPages = 11
  EntriesPerBlock = 2
  MaxCapacity = 8
  MaxResv = 0
  TableArea = {6}
  Sizes = {1, 2}
  PageSize = 4
  EntrySize = 2
  Tables <- LowTables
INVARIANTS AllListed
CHECK_DEADLOCK FALSE
