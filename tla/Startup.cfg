SPECIFICATION StartSpec
CONSTANTS
  MaxPositions = 26
  MaxConcurrent = 4
  BudgetRows = 32
  Word = 1024
  None = None
  MaxRequested = 36
  q = q
  fc = fc
  norm = norm
  Disks <- MCDisks
  FileOrder <- MCFileOrder
  NameOrder <- MCNameOrder
  Wanted <- MCWanted
  Group = 2
  NoIndex = NoIndex
CHECK_DEADLOCK FALSE
INVARIANT TypeOK
INVARIANT FitsBudget
INVARIANT OwnPayload
INVARIANT OperandsCover
INVARIANT StartsWhole
