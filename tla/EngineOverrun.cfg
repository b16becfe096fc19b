SPECIFICATION Spec
CONSTANTS
  a = a
  b = b
  eos = eos
  NSeq = 2
  Ctx = 5
  Token <- MCToken
  EosTokens <- MCEosTokens
  Greedy <- MCGreedy
  Junk = Junk
  None = None
  Requests <- WindowRequests
  PrefillChunk = 2
  NoPrefixCache = FALSE
  MaxFaults = 0
  FaultSites = {}
PROPERTY OwnRowsOnly
