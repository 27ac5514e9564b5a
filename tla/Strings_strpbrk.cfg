CONSTANTS
  Size = 4
  Bytes = {0, 1, 2}
  Nums = {0, 1}
SPECIFICATION StringsSpec
INVARIANTS PbrkFirst
CHECK_DEADLOCK FALSE
