SPECIFICATION Spec
CONSTANTS
  a = a
  b = b
  eos = eos
  NSeq = 2
  Ctx = 3
  Token <- MCToken
  EosTokens <- MCEosTokens
  Greedy <- MCGreedy
  Junk = Junk
  None = None
  Requests <- TornRequests
  PrefillChunk = 2
  NoPrefixCache = FALSE
  MaxFaults = 2
  FaultSites = {"render", "restore", "reset", "prefill_resumed", "prefill_reset", "snapshot", "detokenize", "step"}
INVARIANT ResetHeals
