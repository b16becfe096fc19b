SPECIFICATION Spec
CONSTANTS
  a = a
  b = b
  NSeq = 2
  Ctx = 4
  LayerKind <- MCLayers
  ConvHist = 1
  ScratchRows = 3
  VerifyMax = 2
  MaxThreads = 5
  MaxGridRows = 4
  Shape <- MCShape
  GemvMax = 1
  SmallN = 2
  SmallNCut = 3
  Environments <- MCEnvironments
  Token <- MCToken
  Greedy <- MCGreedy
  Junk = Junk
  Chunks <- MCChunks
  Batches <- MCBatches
  MaxPasses = 3
  MaxFaults = 1
INVARIANT TypeOK
INVARIANT NoWildAccess
INVARIANT CleanRefusal
INVARIANT RowsExact
PROPERTY StateRefines
CHECK_DEADLOCK FALSE
