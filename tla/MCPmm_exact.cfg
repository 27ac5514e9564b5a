SPECIFICATION Spec
CONSTANTS
  NULL = NULL
  NumPages = 11
  EntriesPerBlock = 2
  MaxCapacity = 6
  MaxResv = 2
  TableArea = {1, 4, 5, 6, 7, 8, 10}
  Sizes = {2}
  PageSize = 5
  EntrySize = 2
  Tables <- PlainTables
INVARIANTS ExactlyLen
CHECK_DEADLOCK FALSE
