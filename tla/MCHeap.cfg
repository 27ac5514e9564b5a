CONSTANTS
  NumPages = 6
  PageSize = 7
  DescSize = 1
  MinSect = 2
  Loads <- AllLoads
SPECIFICATION Spec
INVARIANTS BlocksTile GrantsApart OnlyLiveFreeable
PROPERTIES NoScribble AllocatorSpec CallsReturn
CHECK_DEADLOCK FALSE
