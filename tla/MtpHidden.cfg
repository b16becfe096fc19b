SPECIFICATION Spec
CONSTANTS
  a = a
  b = b
  eos = eos
  NSeq = 1
  Ctx = 10
  Token <- MCToken
  EosTokens <- MCEosTokens
  Greedy <- MCGreedy
  Junk = Junk
  Prompts <- MCPrompts
  NNew = 7
  K = 3
CHECK_DEADLOCK FALSE
INVARIANT DraftsFromLastHidden
