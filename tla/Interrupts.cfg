CONSTANTS
  Vectors = {0, 1, 2, 3, 4, 5, 6, 7, 8, 9, 10, 11, 12, 13, 14, 15, 16, 17, 18, 19, 20}
  ErrorCodes = {0, 4}
  Piece = 16
  MaxInterrupts = 2
SPECIFICATION Spec
INVARIANTS HandlersSafe
PROPERTIES ReturnsUnchanged ScreenRight HandlersReturn
CHECK_DEADLOCK FALSE
