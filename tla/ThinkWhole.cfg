SPECIFICATION Spec
CONSTANTS
  Pieces <- MCPieces
  MaxText = 7
  HoldLimit = 5
CHECK_DEADLOCK FALSE
INVARIANT StreamsVisibleText
