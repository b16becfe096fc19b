SPECIFICATION Spec
CONSTANTS
  c1 = c1
  c2 = c2
  a = a
  lt = lt
  gt = gt
  eos = eos
  Client = {c1, c2}
  Attentive = {c1}
  Asks <- MCAsks
  Text <- MCText
  NSeq = 2
  Ctx = 4
  Requests <- MCRequests
  EosTokens = {eos}
  Greedy <- MCGreedy
  MayDrop = TRUE
  HoldLimit = 6
CHECK_DEADLOCK FALSE
INVARIANT TypeOK
INVARIANT OwnAnswer
PROPERTY TextInPlace
PROPERTY Answered
