SPECIFICATION Spec
CONSTANTS
  Pieces <- MCPieces
  MaxText = 7
  HoldLimit = 5
CHECK_DEADLOCK FALSE
INVARIANT TypeOK
INVARIANT AnswerIntact
INVARIANT Incremental
INVARIANT TagRemoved
