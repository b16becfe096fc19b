SPECIFICATION Spec
CONSTANTS
  a = a
  b = b
  eos = eos
  NSeq = 2
  Ctx = 5
  Token <- MCToken
  EosTokens <- MCEosTokens
  Greedy <- MCGreedy
  Junk = Junk
  None = None
  Requests <- FittingRequests
  PrefillChunk = 2
  NoPrefixCache = FALSE
  MaxFaults = 1
  FaultSites = {"prefill_reset"}
INVARIANT AnswersExact
