CONSTANTS
  NumPages = 6
  PageSize = 7
  DescSize = 1
  MinSect = 2
  Loads <- LoadTogether
SPECIFICATION Spec
INVARIANT FreshGrants
CHECK_DEADLOCK FALSE
