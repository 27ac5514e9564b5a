SPECIFICATION Spec
CONSTANTS
  NULL = NULL
  NumPages = 9
  EntriesPerBlock = 8
  MaxCapacity = 8
  MaxResv = 0
  TableArea = {1, 2}
  Sizes = {1, 2, 3}
  PageSize = 8
  EntrySize = 1
  Tables <- CoreTables
INVARIANTS TypeOK EntriesDisjoint ListSound AllListed GrantsIntact FreeMerged SlotsCounted SlotLeftToExtend LoopsFind
PROPERTIES PagesConserved CallsReturn AllocatorSpec
CHECK_DEADLOCK FALSE
