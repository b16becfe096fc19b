SPECIFICATION FairSpec
CONSTANTS
  a = a
  b = b
  eos = eos
  NSeq = 2
  Ctx = 5
  Token <- MCToken
  EosTokens <- MCEosTokens
  Greedy <- MCGreedy
  Junk = Junk
  None = None
  Requests <- FittingRequests
  PrefillChunk = 2
  NoPrefixCache = FALSE
  MaxFaults = 2
  FaultSites = {"render", "restore", "prefill_resumed", "detokenize", "step"}
INVARIANT TypeOK
INVARIANT LiveSlotsFit
INVARIANT CacheSound
INVARIANT AnswersExact
PROPERTY ServesGreedily
PROPERTY OwnRowsOnly
PROPERTY GroupEnds
