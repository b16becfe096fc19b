--------------------------- MODULE Engine_proofs ---------------------------
(***************************************************************************)
(* Theorems about Engine, for every number of slots, window, vocabulary,   *)
(* set of requests, chunk size and continuation.                           *)
(***************************************************************************)
EXTENDS Engine, ModelState_proofs

\* What TypeOK needs to be inductive: which slots are live in which phase, and
\* that the locals of a live slot are those of a request that fits.
Struct ==
    /\ pc = "idle" => Live = {}
    /\ \A s \in Live : /\ s \in Members
                       /\ ~TooLong(group[s])
                       /\ limit[s] = Min2(group[s].max, Ctx - Len(Prompt(s)))
    /\ pc = "tokenize" => cur \in Members /\ \A s \in Slot : s >= cur => done[s]
    /\ pc \in {"idle", "resume", "prefill"} => cur = 0
    /\ pc = "prefill" => \A s \in Live : fed[s] <= Len(Prompt(s))
    /\ pc # "decode" => \A s \in Slot : ids[s] = << >> \/ pc = "idle"
    /\ pc = "decode" => \A s \in Members : next[s] \in Token
    /\ pc \in {"idle", "tokenize", "resume"} => fresh = [s \in Slot |-> None] /\ ~hit
    /\ \A s \in Slot : \/ prefixIds[s] = << >>
                       \/ \E q \in Requests : ~TooLong(q) /\ prefixIds[s] = q.prompt

TypeInv == TypeOK /\ Struct

LEMMA GroupFacts ==
    ASSUME TypeOK
    PROVE  /\ Members \subseteq Slot
           /\ \A s \in Members : group[s] \in Requests
<1>1. CASE group = << >>
  BY <1>1 DEF Members
<1>2. CASE group # << >>
  <2>1. PICK k \in 1 .. NSeq : group \in [0 .. k - 1 -> Requests]
    BY <1>2 DEF TypeOK
  <2> QED BY <2>1, SizeAssumption DEF Members, Slot
<1> QED BY <1>1, <1>2

LEMMA RequestFacts ==
    ASSUME NEW r \in Requests
    PROVE  /\ r.prompt \in Seq(Token) /\ Len(r.prompt) \in Nat /\ r.max \in Nat
           /\ ~TooLong(r) => /\ r.prompt \in Context
                             /\ Len(r.prompt) \in 1 .. Ctx - 1
                             /\ Min2(r.max, Ctx - Len(r.prompt)) \in 0 .. Ctx
<1>1. PICK n \in 0 .. Ctx + 1 : r.prompt \in [1 .. n -> Token]
  BY RequestAssumption
<1>2. r.prompt \in Seq(Token) /\ Len(r.prompt) = n /\ n \in Nat /\ Ctx \in Nat
  BY <1>1, SizeAssumption
<1>3. r.max \in Nat
  BY RequestAssumption
<1>4. ASSUME ~TooLong(r)
      PROVE  /\ r.prompt \in Context
             /\ Len(r.prompt) \in 1 .. Ctx - 1
             /\ Min2(r.max, Ctx - Len(r.prompt)) \in 0 .. Ctx
  <2>1. r.prompt # << >> /\ Len(r.prompt) + 1 <= Ctx
    BY <1>2, <1>4 DEF TooLong
  <2>2. Len(r.prompt) >= 1
    BY <1>2, <2>1
  <2>3. r.prompt \in Context
    BY <1>2, <2>1, ContextIsSeq
  <2>4. Len(r.prompt) \in 1 .. Ctx - 1
    BY <1>2, <2>1, <2>2
  <2>5. Min2(r.max, Ctx - Len(r.prompt)) \in 0 .. Ctx
    BY <1>2, <1>3, <2>4 DEF Min2
  <2> QED BY <2>3, <2>4, <2>5
<1> QED BY <1>2, <1>3, <1>4

LEMMA LiveFacts ==
    ASSUME TypeInv, NEW s \in Live
    PROVE  /\ s \in Slot /\ s \in Members /\ group[s] \in Requests
           /\ ~TooLong(group[s])
           /\ Prompt(s) \in Context /\ Prompt(s) \in Seq(Token)
           /\ Len(Prompt(s)) \in 1 .. Ctx - 1
           /\ limit[s] \in 0 .. Ctx - Len(Prompt(s))
           /\ limit[s] <= group[s].max
<1>1. s \in Slot /\ s \in Members /\ group[s] \in Requests /\ ~TooLong(group[s])
  BY GroupFacts DEF TypeInv, Struct, Live
<1>2. /\ Prompt(s) \in Context /\ Prompt(s) \in Seq(Token)
      /\ Len(Prompt(s)) \in 1 .. Ctx - 1 /\ group[s].max \in Nat
  BY <1>1, RequestFacts DEF Prompt
<1>3. limit[s] = Min2(group[s].max, Ctx - Len(Prompt(s)))
  BY DEF TypeInv, Struct
<1>4. limit[s] \in 0 .. Ctx - Len(Prompt(s)) /\ limit[s] <= group[s].max
  BY <1>2, <1>3, SizeAssumption DEF Min2
<1> QED BY <1>1, <1>2, <1>4

LEMMA ChunkFacts ==
    ASSUME TypeInv, NEW s \in Live, fed[s] < Len(Prompt(s))
    PROVE  /\ ChunkEnd(s) \in fed[s] + 1 .. Len(Prompt(s))
           /\ ChunkEnd(s) \in 0 .. Ctx
           /\ Chunk(s) \in Seq(Token)
           /\ Len(Chunk(s)) = ChunkEnd(s) - fed[s]
           /\ Prefix(Prompt(s), fed[s]) \o Chunk(s) = Prefix(Prompt(s), ChunkEnd(s))
<1>1. /\ Prompt(s) \in Seq(Token) /\ Len(Prompt(s)) \in 1 .. Ctx - 1
      /\ fed[s] \in Nat /\ Ctx \in Nat
  BY LiveFacts, SizeAssumption DEF TypeInv, TypeOK, Live
<1>2. ChunkEnd(s) \in fed[s] + 1 .. Len(Prompt(s))
  BY <1>1, EngineAssumption DEF ChunkEnd, Min2
<1>3. ChunkEnd(s) \in Nat /\ fed[s] <= ChunkEnd(s) /\ ChunkEnd(s) <= Len(Prompt(s))
  BY <1>1, <1>2
<1>4. PICK p \in Seq(Token), m \in Nat, n \in Nat :
        p = Prompt(s) /\ m = fed[s] /\ n = ChunkEnd(s)
  BY <1>1, <1>3
<1>5. m <= n /\ n <= Len(p)
  BY <1>3, <1>4
<1>6. /\ Prefix(p, m) \o SubSeq(p, m + 1, n) = Prefix(p, n)
      /\ SubSeq(p, m + 1, n) \in Seq(Token)
      /\ Len(SubSeq(p, m + 1, n)) = n - m
  BY <1>5, PrefixGrows
<1>7. Chunk(s) = SubSeq(p, m + 1, n)
  BY <1>4 DEF Chunk
<1>8. ChunkEnd(s) \in 0 .. Ctx
  BY <1>1, <1>2
<1> QED BY <1>2, <1>4, <1>6, <1>7, <1>8

(* The type invariant *)

LEMMA TypeInit == Init => TypeInv
<1> SUFFICES ASSUME Init PROVE TypeInv
  OBVIOUS
<1>1. StateTypeOK
  BY EmptyContext DEF Init, StateInit, StateTypeOK
<1>2. << >> \in Seq(Token) /\ 0 \in 0 .. NSeq /\ 0 \in 0 .. Ctx /\ 0 \in 0 .. MaxFaults
  BY SizeAssumption, FaultAssumption
<1>3. /\ DOMAIN ids = Slot /\ \A s \in Slot : ids[s] \in Seq(Token)
      /\ prefixIds \in [Slot -> Context]
  BY <1>2, EmptyContext DEF Init
<1>4. /\ group = << >> /\ pc \in Phases /\ pc = "idle" /\ refused \subseteq Slot
      /\ done \in [Slot -> BOOLEAN] /\ finish \in [Slot -> {"length", "stop"}]
      /\ hit \in BOOLEAN /\ outcome \in {"open", "delivered", "dropped"}
  BY DEF Init, Phases
<1>5. /\ limit \in [Slot -> 0 .. Ctx] /\ fed \in [Slot -> 0 .. Ctx]
      /\ cur \in 0 .. NSeq /\ faults \in 0 .. MaxFaults
  BY <1>2 DEF Init
<1>6. /\ prefixNext \in [Slot -> Token \union {None}]
      /\ fresh \in [Slot -> Token \union {None}]
      /\ next \in [Slot -> Token \union {None}]
  BY DEF Init
<1>7. TypeOK
  BY <1>1, <1>3, <1>4, <1>5, <1>6 DEF TypeOK
<1>8. Struct
  BY DEF Init, Struct, Live
<1> QED BY <1>7, <1>8 DEF TypeInv

\* Every action ends with the group, or keeps it.
LEMMA EndGroupType ==
    ASSUME TypeInv, StateTypeOK', NEW how \in {"delivered", "dropped"}, EndGroup(how),
           faults' \in 0 .. MaxFaults
    PROVE  TypeInv'
<1>1. 0 \in 0 .. NSeq /\ 0 \in 0 .. Ctx
  BY SizeAssumption
<1>2. /\ limit' \in [Slot -> 0 .. Ctx] /\ fed' \in [Slot -> 0 .. Ctx]
      /\ cur' \in 0 .. NSeq /\ done' \in [Slot -> BOOLEAN]
  BY <1>1 DEF EndGroup
<1>3. /\ fresh' \in [Slot -> Token \union {None}]
      /\ next' \in [Slot -> Token \union {None}]
      /\ finish' \in [Slot -> {"length", "stop"}] /\ hit' \in BOOLEAN
      /\ pc' = "idle" /\ pc' \in Phases
  BY DEF EndGroup, Phases
<1>4. outcome' \in {"open", "delivered", "dropped"}
  BY DEF EndGroup
<1>5. UNCHANGED <<prefixIds, prefixNext, group, refused, ids>>
  BY DEF EndGroup
<1>6. TypeOK'
  BY <1>2, <1>3, <1>4, <1>5 DEF TypeInv, TypeOK
<1>7. Struct'
  BY DEF TypeInv, TypeOK, Struct, EndGroup, Live
<1> QED BY <1>6, <1>7 DEF TypeInv

LEMMA StartGroupType ==
    ASSUME TypeInv, StartGroup
    PROVE  TypeInv'
<1>1. PICK k \in 1 .. NSeq : group' \in [0 .. k - 1 -> Requests]
  BY DEF StartGroup
<1>2. 0 \in Members' /\ group' # << >>
  BY <1>1, SizeAssumption DEF Members
<1>3. StateTypeOK'
  BY DEF TypeInv, TypeOK, StateTypeOK, StartGroup, stateVars
<1>4. \A s \in Slot : << >> \in Seq(Token)
  OBVIOUS
<1>5. TypeOK'
  BY <1>1, <1>2, <1>3, <1>4 DEF TypeInv, TypeOK, StartGroup, Phases
<1>6. Struct'
  BY <1>2 DEF TypeInv, TypeOK, Struct, StartGroup, Live, Members, Prompt
<1> QED BY <1>5, <1>6 DEF TypeInv

LEMMA TokenizeType ==
    ASSUME TypeInv, NEW s \in Members, Tokenize(s)
    PROVE  TypeInv'
<1>1. s \in Slot /\ group[s] \in Requests /\ Members \subseteq Slot /\ s = cur
  BY GroupFacts DEF TypeInv, Tokenize
<1>2. StateTypeOK'
  BY DEF TypeInv, TypeOK, StateTypeOK, Tokenize, stateVars
<1>3. s \in Int /\ s + 1 # s /\ 0 \in 0 .. NSeq /\ \A u \in Slot : u \in 0 .. NSeq
  BY <1>1, SizeAssumption DEF Slot
<1>4. ~TooLong(group[s]) => Min2(group[s].max, Ctx - Len(Prompt(s))) \in 0 .. Ctx
  BY <1>1, RequestFacts DEF Prompt
<1>5. TypeOK'
  BY <1>1, <1>2, <1>3, <1>4 DEF TypeInv, TypeOK, Tokenize, Phases
<1>6. Struct'
  <2>1. Live' \subseteq Live \union {s} /\ (s \in Live' => ~TooLong(group[s]))
    <3>1. done \in [Slot -> BOOLEAN] /\ done[s]
      BY <1>1 DEF TypeInv, TypeOK, Struct, Tokenize, Slot
    <3>2. CASE TooLong(group[s])
      <4>1. done' = done
        BY <3>2 DEF Tokenize
      <4> QED BY <3>1, <4>1 DEF Live
    <3>3. CASE ~TooLong(group[s])
      <4>1. done' = [done EXCEPT ![s] = FALSE]
        BY <3>3 DEF Tokenize
      <4> QED BY <3>1, <3>3, <4>1 DEF Live
    <3> QED BY <3>2, <3>3
  <2>2. \A u \in Live' :
          /\ u \in Members /\ ~TooLong(group[u])
          /\ limit'[u] = Min2(group[u].max, Ctx - Len(Prompt(u)))
    BY <1>1, <2>1 DEF TypeInv, TypeOK, Struct, Tokenize, Live
  <2>3. ASSUME pc' = "tokenize"
        PROVE  cur' \in Members /\ \A u \in Slot : u >= cur' => done'[u]
    <3>1. cur' = s + 1 /\ s + 1 \in Members
      BY <2>3 DEF Tokenize
    <3>2. \A u \in Slot : u >= s + 1 => u >= s /\ u # s
      BY <1>1 DEF Slot
    <3>3. \A u \in Slot : u # s => done'[u] = done[u]
      BY <1>1 DEF TypeInv, TypeOK, Tokenize
    <3>4. \A u \in Slot : u >= s => done[u]
      BY <1>1 DEF TypeInv, Struct, Tokenize
    <3> QED BY <3>1, <3>2, <3>3, <3>4
  <2>4. pc' \in {"tokenize", "resume"} /\ (pc' = "resume" => cur' = 0)
    BY DEF Tokenize
  <2> QED BY <2>2, <2>3, <2>4 DEF TypeInv, Struct, Tokenize, Members, Prompt
<1> QED BY <1>5, <1>6 DEF TypeInv

LEMMA ResumeType ==
    ASSUME TypeInv, Resume
    PROVE  TypeInv'
<1>1. StateTypeOK'
  BY WholeStateType DEF TypeInv, TypeOK, Resume
<1>2. \A s \in Slot : prefixIds[s] \in Context /\ Len(prefixIds[s]) \in 0 .. Ctx
  BY ContextIsSeq, SizeAssumption DEF TypeInv, TypeOK
<1>3. fed' \in [Slot -> 0 .. Ctx]
  BY <1>2, SizeAssumption DEF Resume
<1>4. TypeOK'
  BY <1>1, <1>3 DEF TypeInv, TypeOK, Resume, Phases
<1>5. \A s \in Live : fed'[s] <= Len(Prompt(s))
  BY DEF Resume, AllHit, Resumable, StartsWith, Live
<1>6. Live' = Live
  BY DEF Resume, Live
<1>7. Struct'
  BY <1>5, <1>6 DEF TypeInv, Struct, Resume, Members, Prompt
<1> QED BY <1>4, <1>7 DEF TypeInv

LEMMA StartOverType ==
    ASSUME TypeInv, StartOver
    PROVE  TypeInv'
<1>1. StateTypeOK'
  BY WholeStateType DEF TypeInv, TypeOK, StartOver
<1>2. TypeOK'
  BY <1>1, EmptyContext, SizeAssumption DEF TypeInv, TypeOK, StartOver, Phases
<1>3. \A s \in Live : fed'[s] <= Len(Prompt(s))
  BY LiveFacts DEF StartOver
<1>4. Live' = Live
  BY DEF StartOver, Live
<1>5. Struct'
  BY <1>3, <1>4 DEF TypeInv, Struct, StartOver, Members, Prompt
<1> QED BY <1>2, <1>5 DEF TypeInv

LEMMA PrefillRepeatType ==
    ASSUME TypeInv, NEW s \in Members, PrefillRepeat(s)
    PROVE  TypeInv'
<1>1. s \in Slot
  BY GroupFacts DEF TypeInv
<1>2. StateTypeOK'
  BY DEF TypeInv, TypeOK, StateTypeOK, PrefillRepeat, stateVars
<1>3. TypeOK'
  BY <1>1, <1>2 DEF TypeInv, TypeOK, PrefillRepeat
<1>4. Struct'
  BY DEF TypeInv, Struct, PrefillRepeat, Live, Members, Prompt
<1> QED BY <1>3, <1>4 DEF TypeInv

LEMMA PrefillStepType ==
    ASSUME TypeInv, NEW s \in Members, PrefillStep(s)
    PROVE  TypeInv'
<1>1. s \in Live /\ s \in Slot /\ fed[s] < Len(Prompt(s))
  BY GroupFacts DEF TypeInv, PrefillStep, PrefillTurn, Pending
<1>2. Chunk(s) \in Seq(Token) /\ ChunkEnd(s) \in 0 .. Ctx /\ ChunkEnd(s) <= Len(Prompt(s))
  BY <1>1, ChunkFacts
<1>3. PICK nx \in Token :
        /\ PrefillSeq(s, Chunk(s), nx)
        /\ fresh' = IF ChunkEnd(s) = Len(Prompt(s)) THEN [fresh EXCEPT ![s] = nx]
                                                    ELSE fresh
  BY DEF PrefillStep
<1>4. StateTypeOK'
  BY <1>1, <1>2, <1>3, PrefillSeqType DEF TypeInv, TypeOK
<1>5. TypeOK'
  BY <1>1, <1>2, <1>3, <1>4 DEF TypeInv, TypeOK, PrefillStep
<1>6. Live' = Live /\ \A u \in Live : fed'[u] <= Len(Prompt(u))
  BY <1>1, <1>2 DEF TypeInv, TypeOK, Struct, PrefillStep, Live
<1>7. Struct'
  BY <1>6 DEF TypeInv, Struct, PrefillStep, Members, Prompt
<1> QED BY <1>5, <1>7 DEF TypeInv

LEMMA CachePromptsType ==
    ASSUME TypeInv, CachePrompts
    PROVE  TypeInv'
<1>1. StateTypeOK'
  BY WholeStateType DEF TypeInv, TypeOK, CachePrompts
<1>2. \A s \in Live : /\ s \in Slot /\ s \in Members /\ group[s] \in Requests
                      /\ ~TooLong(group[s]) /\ Prompt(s) = group[s].prompt
                      /\ Prompt(s) \in Context /\ fresh[s] \in Token
  BY LiveFacts DEF CachePrompts, Pending, TypeInv, TypeOK, Prompt
<1>3. (CHOOSE t \in Token : TRUE) \in Token
  BY EmptyContext
<1>4. TypeOK'
  BY <1>1, <1>2, <1>3 DEF TypeInv, TypeOK, CachePrompts, Phases
<1>5. Live' = Live
  BY DEF CachePrompts, Live
<1>6. \A s \in Members : next'[s] \in Token
  BY <1>2, <1>3, GroupFacts DEF CachePrompts, TypeInv
<1>7. \A s \in Slot : \/ prefixIds'[s] = << >>
                      \/ \E q \in Requests : ~TooLong(q) /\ prefixIds'[s] = q.prompt
  BY <1>2 DEF CachePrompts, TypeInv, Struct
<1>8. Struct'
  BY <1>5, <1>6, <1>7 DEF TypeInv, Struct, CachePrompts, Members, Prompt
<1> QED BY <1>4, <1>8 DEF TypeInv

LEMMA EmitType ==
    ASSUME TypeInv, NEW s \in Members, EmitStop(s) \/ EmitToken(s)
    PROVE  TypeInv'
<1>1. s \in Slot /\ s \in Live /\ pc = "decode" /\ next[s] \in Token
  BY GroupFacts DEF TypeInv, Struct, EmitStop, EmitToken, EmitTurn
<1>2. s + 1 \in 0 .. NSeq
  BY <1>1, SizeAssumption DEF Slot
<1>3. StateTypeOK'
  BY DEF TypeInv, TypeOK, StateTypeOK, EmitStop, EmitToken, stateVars
<1>4. ids[s] \in Seq(Token)
  BY <1>1 DEF TypeInv, TypeOK
<1>5. Append(ids[s], next[s]) \in Seq(Token)
  BY <1>1, <1>4
<1>6. DOMAIN ids' = Slot /\ \A u \in Slot : ids'[u] \in Seq(Token)
  BY <1>1, <1>5 DEF TypeInv, TypeOK, EmitStop, EmitToken
<1>7. done' \in [Slot -> BOOLEAN] /\ Live' \subseteq Live
  <2>1. CASE EmitStop(s)
    BY <1>1, <2>1 DEF TypeInv, TypeOK, EmitStop, Live
  <2>2. CASE EmitToken(s)
    <3>1. (Len(ids[s]) + 1 >= limit[s]) \in BOOLEAN
      OBVIOUS
    <3> QED BY <1>1, <2>2, <3>1 DEF TypeInv, TypeOK, EmitToken, Live
  <2> QED BY <2>1, <2>2
<1>8. /\ cur' \in 0 .. NSeq /\ finish' \in [Slot -> {"length", "stop"}]
      /\ UNCHANGED <<prefixIds, prefixNext, pc, group, refused, limit, fed, fresh, next,
                     hit, outcome, faults>>
  BY <1>2 DEF TypeInv, TypeOK, EmitStop, EmitToken
<1>9. TypeOK'
  BY <1>3, <1>6, <1>7, <1>8 DEF TypeInv, TypeOK
<1>10. Struct'
  BY <1>1, <1>7 DEF TypeInv, Struct, EmitStop, EmitToken, Members, Prompt
<1> QED BY <1>9, <1>10 DEF TypeInv

LEMMA DecodeStepType ==
    ASSUME TypeInv, DecodeStep
    PROVE  TypeInv'
<1>1. PICK out \in [Members -> Token] :
        /\ StepBatch(Members, next, out)
        /\ next' = [s \in Slot |-> IF s \in Members THEN out[s] ELSE None]
  BY DEF DecodeStep
<1>2. Members \subseteq Slot /\ \A s \in Members : next[s] \in Token
  BY GroupFacts DEF TypeInv, Struct, DecodeStep
<1>3. StateTypeOK'
  BY <1>1, <1>2, StepBatchType DEF TypeInv, TypeOK
<1>4. next' \in [Slot -> Token \union {None}] /\ \A s \in Members : next'[s] \in Token
  BY <1>1, <1>2
<1>5. TypeOK'
  BY <1>3, <1>4, SizeAssumption DEF TypeInv, TypeOK, DecodeStep
<1>6. Live' = Live
  BY DEF DecodeStep, Live
<1>7. Struct'
  BY <1>4, <1>6 DEF TypeInv, Struct, DecodeStep, Members, Prompt
<1> QED BY <1>5, <1>7 DEF TypeInv

LEMMA FaultType ==
    ASSUME TypeInv, Fault
    PROVE  StateTypeOK'
<1>1. CASE UNCHANGED stateVars
  BY <1>1 DEF TypeInv, TypeOK, StateTypeOK, stateVars
<1>2. CASE TornRestore \/ TornReset \/ TornSnapshot
  BY <1>2, WholeStateType DEF TypeInv, TypeOK
<1>3. ASSUME NEW s \in Slot, PrefillTurn(s), fed[s] < Len(Prompt(s)), TornPrefill(s, Chunk(s))
      PROVE  StateTypeOK'
  <2>1. s \in Live
    BY <1>3 DEF PrefillTurn, Pending
  <2>2. Chunk(s) \in Seq(Token)
    BY <1>3, <2>1, ChunkFacts
  <2> QED BY <1>3, <2>2, TornPrefillType DEF TypeInv, TypeOK
<1>4. CASE TornStepBatch(Members, next)
  BY <1>4, TornStepBatchType DEF TypeInv, TypeOK
<1> QED BY <1>1, <1>2, <1>3, <1>4 DEF Fault

LEMMA TypeStep == TypeInv /\ [Next]_vars => TypeInv'
<1> SUFFICES ASSUME TypeInv, [Next]_vars PROVE TypeInv'
  OBVIOUS
<1>1. CASE StartGroup
  BY <1>1, StartGroupType
<1>2. ASSUME NEW s \in Members, Tokenize(s) PROVE TypeInv'
  BY <1>2, TokenizeType
<1>3. CASE Resume
  BY <1>3, ResumeType
<1>4. CASE StartOver
  BY <1>4, StartOverType
<1>5. ASSUME NEW s \in Members, PrefillRepeat(s) \/ PrefillStep(s) PROVE TypeInv'
  BY <1>5, PrefillRepeatType, PrefillStepType
<1>6. CASE CachePrompts
  BY <1>6, CachePromptsType
<1>7. ASSUME NEW s \in Members, EmitStop(s) \/ EmitToken(s) PROVE TypeInv'
  BY <1>7, EmitType
<1>8. CASE DecodeStep
  BY <1>8, DecodeStepType
<1>9. CASE Deliver
  <2>1. StateTypeOK' /\ faults' \in 0 .. MaxFaults /\ EndGroup("delivered")
    BY <1>9 DEF Deliver, TypeInv, TypeOK, StateTypeOK, stateVars
  <2> QED BY <2>1, EndGroupType
<1>10. CASE Drop
  <2>1. StateTypeOK' /\ EndGroup("dropped")
    BY <1>10, FaultType DEF Drop
  <2>2. faults' \in 0 .. MaxFaults
    BY <1>10, FaultAssumption DEF Drop, TypeInv, TypeOK
  <2> QED BY <2>1, <2>2, EndGroupType
<1>11. CASE UNCHANGED vars
  BY <1>11 DEF vars, locals, stateVars, TypeInv, TypeOK, StateTypeOK, Struct, Live,
               Members, Prompt
<1> QED BY <1>1, <1>2, <1>3, <1>4, <1>5, <1>6, <1>7, <1>8, <1>9, <1>10, <1>11 DEF Next

\* The engine's variables keep their types in every behaviour, with any error at
\* any call: the type of a live slot's locals rests on which prompts are admitted.
THEOREM TypeCorrect == Spec => []TypeOK
<1>1. TypeInv => TypeOK
  BY DEF TypeInv
<1> QED BY <1>1, TypeInit, TypeStep, PTL DEF Spec
(* A live slot stays inside its window *)

\* Where each slot's length stands, phase by phase.  The snapshot's lengths are
\* those of the recorded prefixes, except while a reset engine prefills.
SnapLens == (pc # "prefill" \/ hit) => \A s \in Slot : snapKeys[s] = Len(prefixIds[s])

PrefillLens ==
    pc = "prefill" =>
        /\ ~hit => \A s \in Slot : prefixIds[s] = << >>
        /\ \A s \in Slot : s \notin Live => nKeys[s] = Len(prefixIds[s])
        /\ \A s \in Live : /\ nKeys[s] = fed[s]
                           /\ fresh[s] # None => fed[s] = Len(Prompt(s))

\* In the decode loop a live slot has consumed its prompt and its answer, the
\* last token of which is still to be consumed once it was sent this round.
DecodeLens ==
    pc = "decode" => \A s \in Live :
        nKeys[s] = Len(Prompt(s)) + Len(ids[s]) - (IF s < cur THEN 1 ELSE 0)

LensInv == SnapLens /\ PrefillLens /\ DecodeLens

\* The three numbers a live slot's place is computed from.
LEMMA LiveLens ==
    ASSUME TypeInv, NEW s \in Live
    PROVE  /\ Len(Prompt(s)) \in Int /\ Len(ids[s]) \in Int /\ nKeys[s] \in Int
           /\ s \in Int /\ s >= 0 /\ cur \in Int
<1>1. s \in Slot /\ Len(Prompt(s)) \in 1 .. Ctx - 1
  BY LiveFacts
<1>2. ids[s] \in Seq(Token) /\ nKeys[s] \in Nat /\ cur \in 0 .. NSeq
  BY <1>1 DEF TypeInv, TypeOK, StateTypeOK
<1>3. s \in Int /\ s >= 0
  BY <1>1 DEF Slot
<1> QED BY <1>1, <1>2, <1>3, SizeAssumption

LEMMA LensInit == Init => LensInv
BY DEF Init, StateInit, LensInv, SnapLens, PrefillLens, DecodeLens

LEMMA LensResume ==
    ASSUME TypeInv, LensInv, Resume
    PROVE  LensInv'
<1>1. \A s \in Slot : nKeys'[s] = Len(prefixIds[s]) /\ snapKeys'[s] = Len(prefixIds[s])
  BY DEF LensInv, SnapLens, Resume, RestoreRecurrent
<1>2. \A s \in Live : fed'[s] = Len(prefixIds[s]) /\ s \in Slot
  BY DEF Resume, Live
<1>3. Live' = Live /\ prefixIds' = prefixIds /\ pc' = "prefill" /\ hit' = TRUE /\ pc = "resume"
  BY DEF Resume, Live
<1>4. \A s \in Slot : fresh'[s] = None
  BY DEF TypeInv, Struct, Resume
<1>5. PrefillLens'
  BY <1>1, <1>2, <1>3, <1>4 DEF PrefillLens
<1>6. SnapLens'
  BY <1>1, <1>3 DEF SnapLens
<1> QED BY <1>3, <1>5, <1>6 DEF LensInv, DecodeLens

LEMMA LensStartOver ==
    ASSUME TypeInv, LensInv, StartOver
    PROVE  LensInv'
<1>1. \A s \in Slot : nKeys'[s] = 0 /\ prefixIds'[s] = << >> /\ fed'[s] = 0
  BY DEF StartOver, Reset
<1>2. \A s \in Slot : fresh'[s] = None
  BY DEF TypeInv, Struct, StartOver
<1>3. pc' = "prefill" /\ hit' = FALSE /\ Live' \subseteq Slot
  BY DEF TypeInv, Struct, StartOver, Live
<1> QED BY <1>1, <1>2, <1>3 DEF LensInv, SnapLens, PrefillLens, DecodeLens

LEMMA LensPrefillRepeat ==
    ASSUME TypeInv, LensInv, NEW s \in Members, PrefillRepeat(s)
    PROVE  LensInv'
<1>1. Live' = Live /\ s \in Slot /\ s \in Live
  BY GroupFacts DEF TypeInv, PrefillRepeat, PrefillTurn, Pending, Live
<1>2. /\ UNCHANGED <<stateVars, prefixIds, pc, group, fed, hit>>
      /\ pc = "prefill" /\ fed[s] = Len(Prompt(s))
  BY DEF PrefillRepeat
<1>3. \A u \in Live : u # s => fresh'[u] = fresh[u]
  BY DEF TypeInv, TypeOK, PrefillRepeat, Live
<1> QED BY <1>1, <1>2, <1>3 DEF LensInv, SnapLens, PrefillLens, DecodeLens, Members, Prompt, stateVars

LEMMA LensPrefillStep ==
    ASSUME TypeInv, LensInv, NEW s \in Members, PrefillStep(s)
    PROVE  LensInv'
<1>1. /\ s \in Live /\ s \in Slot /\ fed[s] < Len(Prompt(s)) /\ pc = "prefill"
      /\ fresh[s] = None
      /\ UNCHANGED <<prefixIds, pc, group, done, hit, snapKeys>>
  BY GroupFacts DEF TypeInv, PrefillStep, PrefillTurn, Pending, PrefillSeq
<1>2. PICK nx \in Token :
        /\ PrefillSeq(s, Chunk(s), nx)
        /\ fresh' = IF ChunkEnd(s) = Len(Prompt(s)) THEN [fresh EXCEPT ![s] = nx]
                                                    ELSE fresh
  BY DEF PrefillStep
<1>3. Len(Chunk(s)) = ChunkEnd(s) - fed[s] /\ ChunkEnd(s) \in Int /\ fed[s] \in Int
  BY <1>1, ChunkFacts DEF TypeInv, TypeOK
<1>4. nKeys[s] = fed[s]
  BY <1>1 DEF LensInv, PrefillLens
<1>5. nKeys'[s] = nKeys[s] + Len(Chunk(s)) /\ \A u \in Slot : u # s => nKeys'[u] = nKeys[u]
  BY <1>1, <1>2 DEF TypeInv, TypeOK, StateTypeOK, PrefillSeq
<1>6. nKeys'[s] = ChunkEnd(s)
  BY <1>3, <1>4, <1>5
<1>7. fed'[s] = ChunkEnd(s) /\ \A u \in Slot : u # s => fed'[u] = fed[u]
  BY <1>1 DEF TypeInv, TypeOK, PrefillStep
<1>8. /\ \A u \in Slot : u # s => fresh'[u] = fresh[u]
      /\ fresh'[s] # None => ChunkEnd(s) = Len(Prompt(s))
  BY <1>1, <1>2 DEF TypeInv, TypeOK
<1>9. Live' = Live /\ Live \subseteq Slot /\ \A u \in Slot : Prompt(u)' = Prompt(u)
  BY <1>1 DEF Live, Prompt
<1>10. PrefillLens'
  BY <1>1, <1>5, <1>6, <1>7, <1>8, <1>9 DEF LensInv, PrefillLens
<1> QED BY <1>1, <1>10 DEF LensInv, SnapLens, DecodeLens

LEMMA LensCachePrompts ==
    ASSUME TypeInv, LensInv, CachePrompts
    PROVE  LensInv'
<1>1. /\ pc = "prefill" /\ pc' = "decode" /\ Live' = Live /\ cur = 0 /\ cur' = 0
      /\ \A s \in Live : s \in Slot /\ fresh[s] # None
  BY DEF TypeInv, Struct, CachePrompts, Pending, Live
<1>2. \A s \in Live : nKeys[s] = Len(Prompt(s))
  BY <1>1 DEF LensInv, PrefillLens
<1>3. nKeys' = nKeys /\ snapKeys' = nKeys
  BY DEF CachePrompts, SnapshotRecurrent
<1>4. \A s \in Slot : snapKeys'[s] = Len(prefixIds'[s])
  BY <1>1, <1>2, <1>3 DEF LensInv, PrefillLens, CachePrompts
<1>5. \A s \in Live : ids'[s] = << >> /\ Prompt(s)' = Prompt(s)
  BY <1>1 DEF TypeInv, Struct, CachePrompts, Prompt
<1>6. ASSUME NEW s \in Live
      PROVE  nKeys'[s] = Len(Prompt(s)') + Len(ids'[s]) - (IF s < cur' THEN 1 ELSE 0)
  <2>1. ~(s < cur') /\ Len(Prompt(s)) \in Int
    BY <1>1, LiveLens
  <2>2. Len(ids'[s]) = 0 /\ nKeys'[s] = Len(Prompt(s)) /\ Prompt(s)' = Prompt(s)
    BY <1>2, <1>3, <1>5
  <2> QED BY <2>1, <2>2
<1>7. DecodeLens'
  BY <1>1, <1>6 DEF DecodeLens
<1> QED BY <1>1, <1>4, <1>7 DEF LensInv, SnapLens, PrefillLens

LEMMA LensEmit ==
    ASSUME TypeInv, LensInv, NEW s \in Members, EmitStop(s) \/ EmitToken(s)
    PROVE  LensInv'
<1>1. /\ s \in Slot /\ s \in Live /\ pc = "decode" /\ s >= cur /\ cur' = s + 1
      /\ \A u \in Live : u >= cur => s <= u
      /\ UNCHANGED <<stateVars, prefixIds, pc, group, hit>>
  BY GroupFacts DEF TypeInv, EmitStop, EmitToken, EmitTurn
<1>2. \A u \in Slot : u # s => ids'[u] = ids[u]
  BY <1>1 DEF TypeInv, TypeOK, EmitStop, EmitToken
<1>3. Live' \subseteq Live /\ (EmitStop(s) => s \notin Live')
  BY <1>1 DEF TypeInv, TypeOK, Live, EmitStop, EmitToken
<1>4. ids[s] \in Seq(Token) /\ next[s] \in Token
  BY <1>1 DEF TypeInv, TypeOK, Struct
<1>5. EmitToken(s) => Len(ids'[s]) = Len(ids[s]) + 1
  <2>1. Len(Append(ids[s], next[s])) = Len(ids[s]) + 1
    BY <1>4
  <2> QED BY <1>1, <2>1 DEF TypeInv, TypeOK, EmitToken
<1>6. ASSUME NEW u \in Live'
      PROVE  nKeys'[u] = Len(Prompt(u)') + Len(ids'[u]) - (IF u < cur' THEN 1 ELSE 0)
  <2>1. /\ u \in Live /\ u \in Slot /\ u \in Int /\ s \in Int /\ cur \in Int
        /\ Prompt(u)' = Prompt(u) /\ nKeys'[u] = nKeys[u]
    BY <1>1, <1>3 DEF TypeInv, TypeOK, Live, Slot, Prompt, stateVars
  <2>2. nKeys[u] = Len(Prompt(u)) + Len(ids[u]) - (IF u < cur THEN 1 ELSE 0)
    BY <1>1, <2>1 DEF LensInv, DecodeLens
  <2>3. Len(Prompt(u)) \in Int /\ Len(ids[u]) \in Int
    BY <2>1, LiveLens
  <2>4. CASE u = s
    <3>1. Len(ids'[u]) = Len(ids[u]) + 1
      BY <1>1, <1>3, <1>5, <2>4
    <3>2. ~(u < cur) /\ u < cur'
      BY <1>1, <2>1, <2>4
    <3>3. nKeys[u] = Len(Prompt(u)) + Len(ids[u])
      BY <2>2, <2>3, <3>2
    <3> QED BY <2>1, <2>3, <3>1, <3>2, <3>3
  <2>5. CASE u # s
    <3>1. (u < cur) <=> (u < cur')
      BY <1>1, <2>1, <2>5
    <3> QED BY <1>2, <2>1, <2>2, <2>5, <3>1
  <2> QED BY <2>4, <2>5
<1>7. DecodeLens'
  BY <1>6 DEF DecodeLens
<1> QED BY <1>1, <1>7 DEF LensInv, SnapLens, PrefillLens, stateVars

LEMMA LensDecodeStep ==
    ASSUME TypeInv, LensInv, DecodeStep
    PROVE  LensInv'
<1>1. /\ pc = "decode" /\ cur' = 0 /\ Live' = Live
      /\ \A s \in Live : s < cur /\ s \in Slot
      /\ UNCHANGED <<prefixIds, pc, group, hit, ids, snapKeys>>
      /\ \A s \in Slot : nKeys'[s] = nKeys[s] + 1
  BY DEF DecodeStep, RoundOver, Live, StepBatch
<1>2. ASSUME NEW s \in Live
      PROVE  nKeys'[s] = Len(Prompt(s)) + Len(ids[s]) /\ ~(s < 0)
  <2>1. nKeys[s] = Len(Prompt(s)) + Len(ids[s]) - 1
    BY <1>1 DEF LensInv, DecodeLens
  <2>2. Len(Prompt(s)) \in Int /\ Len(ids[s]) \in Int /\ nKeys'[s] = nKeys[s] + 1
    BY <1>1, LiveLens
  <2>3. nKeys[s] = Len(Prompt(s)) + Len(ids[s]) - 1 /\ ~(s < 0)
    BY <1>1, <2>1, LiveLens
  <2> QED BY <2>2, <2>3
<1>3. ASSUME NEW s \in Live
      PROVE  nKeys'[s] = Len(Prompt(s)') + Len(ids'[s]) - (IF s < cur' THEN 1 ELSE 0)
  <2>1. Len(Prompt(s)) \in Int /\ Len(ids[s]) \in Int
    BY LiveLens
  <2>2. Prompt(s)' = Prompt(s) /\ ids'[s] = ids[s]
    BY <1>1 DEF Prompt
  <2>3. nKeys'[s] = Len(Prompt(s)) + Len(ids[s]) - 0 /\ ~(s < cur')
    BY <1>1, <1>2, <2>1
  <2> QED BY <2>2, <2>3
<1>4. DecodeLens'
  BY <1>1, <1>3 DEF DecodeLens
<1> QED BY <1>1, <1>4 DEF LensInv, SnapLens, PrefillLens

\* The errors that can leave the snapshot's lengths and the recorded prefixes apart.
UnsafeSites == {"prefill_reset", "snapshot"}

LEMMA LensDrop ==
    ASSUME FaultSites \intersect UnsafeSites = {}, TypeInv, LensInv, Drop
    PROVE  LensInv'
<1>1. pc # "prefill" \/ hit
  <2>1. ASSUME pc = "prefill", ~hit
        PROVE  FALSE
    BY <2>1 DEF Drop, Fault, UnsafeSites
  <2> QED BY <2>1
<1>2. snapKeys' = snapKeys
  BY DEF Drop, Fault, UnsafeSites, stateVars, TornRestore, TornReset, TornPrefill, TornStepBatch
<1>3. prefixIds' = prefixIds /\ pc' = "idle"
  BY DEF Drop, EndGroup
<1> QED BY <1>1, <1>2, <1>3 DEF LensInv, SnapLens, PrefillLens, DecodeLens

LEMMA LensStep ==
    ASSUME FaultSites \intersect UnsafeSites = {}, TypeInv, LensInv, [Next]_vars
    PROVE  LensInv'
<1>1. CASE StartGroup
  BY <1>1 DEF StartGroup, stateVars, LensInv, SnapLens, PrefillLens, DecodeLens
<1>2. ASSUME NEW s \in Members, Tokenize(s) PROVE LensInv'
  BY <1>2 DEF Tokenize, stateVars, LensInv, SnapLens, PrefillLens, DecodeLens
<1>3. CASE Resume
  BY <1>3, LensResume
<1>4. CASE StartOver
  BY <1>4, LensStartOver
<1>5. ASSUME NEW s \in Members, PrefillRepeat(s) \/ PrefillStep(s) PROVE LensInv'
  BY <1>5, LensPrefillRepeat, LensPrefillStep
<1>6. CASE CachePrompts
  BY <1>6, LensCachePrompts
<1>7. ASSUME NEW s \in Members, EmitStop(s) \/ EmitToken(s) PROVE LensInv'
  BY <1>7, LensEmit
<1>8. CASE DecodeStep
  BY <1>8, LensDecodeStep
<1>9. CASE Deliver
  BY <1>9 DEF Deliver, EndGroup, stateVars, LensInv, SnapLens, PrefillLens, DecodeLens
<1>10. CASE Drop
  BY <1>10, LensDrop
<1>11. CASE UNCHANGED vars
  BY <1>11 DEF vars, locals, stateVars, LensInv, SnapLens, PrefillLens, DecodeLens, Live,
               Prompt
<1> QED BY <1>1, <1>2, <1>3, <1>4, <1>5, <1>6, <1>7, <1>8, <1>9, <1>10, <1>11 DEF Next

LEMMA LensFits == TypeInv /\ LensInv => LiveSlotsFit
<1> SUFFICES ASSUME TypeInv, LensInv, pc = "decode", NEW s \in Live
             PROVE  nKeys[s] + limit[s] - Len(ids[s]) <= Ctx
  BY DEF LiveSlotsFit
<1>1. nKeys[s] = Len(Prompt(s)) + Len(ids[s]) - (IF s < cur THEN 1 ELSE 0)
  BY DEF LensInv, DecodeLens
<1>2. Len(Prompt(s)) \in Int /\ Len(ids[s]) \in Int /\ Ctx \in Int
  BY LiveLens, SizeAssumption
<1>3. limit[s] \in Int /\ limit[s] <= Ctx - Len(Prompt(s))
  BY <1>2, LiveFacts
<1>4. nKeys[s] \in Int /\ nKeys[s] <= Len(Prompt(s)) + Len(ids[s])
  <2>1. CASE s < cur
    BY <1>1, <1>2, <2>1
  <2>2. CASE ~(s < cur)
    BY <1>1, <1>2, <2>2
  <2> QED BY <2>1, <2>2
<1> QED BY <1>2, <1>3, <1>4

\* The cap on an answer keeps a live slot inside its window in every behaviour
\* whose errors are not those of a reset engine's prefill or of the snapshot: a
\* resumed slot starts exactly where its recorded prefix ends.
THEOREM LiveSlotsStayInside ==
    ASSUME FaultSites \intersect UnsafeSites = {}
    PROVE  Spec => []LiveSlotsFit
<1>1. Init => TypeInv /\ LensInv
  BY TypeInit, LensInit
<1>2. TypeInv /\ LensInv /\ [Next]_vars => TypeInv' /\ LensInv'
  BY TypeStep, LensStep
<1> QED BY <1>1, <1>2, LensFits, PTL DEF Spec

-----------------------------------------------------------------------------
(* The prefix cache is sound and every token sent continues its own prompt,  *)
(* for every number of slots, window, vocabulary, chunk size and             *)
(* continuation, as long as the requests fit the window together (Fits) and  *)
(* errors strike only where they leave the snapshot alone (HarmlessSites).   *)
(* Without either the run engine_overrun or engine_stale is a                *)
(* counterexample.  From the same invariant the engine implements            *)
(* GreedyServe.                                                              *)

\* Outside a prefill that follows a reset the snapshot stands for prefixIds.
Backed == pc # "prefill" \/ hit => \A s \in Slot : StandsFor(s)

\* During the prefills each slot stands for what it has been fed.
PrefillExactly ==
    pc = "prefill" =>
        /\ ~hit => \A s \in Slot : prefixIds[s] = << >>
        /\ \A s \in Slot \ Live : Holds(s, prefixIds[s])
        /\ \A s \in Live :
              /\ Holds(s, Prefix(Prompt(s), fed[s]))
              /\ Len(prefixIds[s]) <= fed[s]
              /\ fresh[s] = None /\ fed[s] = Len(Prompt(s)) => prefixIds[s] = Prompt(s)
              /\ fresh[s] # None => /\ fed[s] = Len(Prompt(s))
                                    /\ fresh[s] = Greedy[Prompt(s)]

\* What slot s has consumed once all it has sent is in its state.
Said(s) == Prompt(s) \o ids[s]

\* Before its turn in a round a live slot has consumed all it sent, after it
\* the last token is still to be consumed.
DecodeExactly ==
    pc = "decode" =>
        \A s \in Live :
            IF s < cur
            THEN \E c \in Context : Holds(s, c) /\ Append(c, next[s]) = Said(s)
            ELSE Said(s) \in Context /\ Holds(s, Said(s)) /\ next[s] = Greedy[Said(s)]

\* The steps since the snapshot, which every slot has made.
Stepped == nKeys[0] - snapKeys[0]

StepsCounted ==
    pc = "decode" =>
        /\ Stepped \in Nat
        /\ \A s \in Slot : nKeys[s] = snapKeys[s] + Stepped
        /\ \A s \in Live : /\ Len(ids[s]) = Stepped + (IF s < cur THEN 1 ELSE 0)
                           /\ s < cur => Len(ids[s]) < limit[s]

ExactInv == Backed /\ PrefillExactly /\ DecodeExactly /\ StepsCounted

-----------------------------------------------------------------------------
(* Facts *)

LEMMA PrefixIdsFacts ==
    ASSUME TypeInv, NEW s \in Slot
    PROVE  /\ prefixIds[s] \in Context /\ prefixIds[s] \in Seq(Token)
           /\ Len(prefixIds[s]) \in 0 .. Ctx
           /\ prefixIds[s] # << >> =>
                \E q \in Requests : ~TooLong(q) /\ prefixIds[s] = q.prompt
<1>1. prefixIds[s] \in Context
  BY DEF TypeInv, TypeOK
<1>2. prefixIds[s] \in Seq(Token) /\ Len(prefixIds[s]) \in 0 .. Ctx
  BY <1>1, ContextIsSeq, SizeAssumption
<1> QED BY <1>1, <1>2 DEF TypeInv, Struct

\* A slot's snapshot keeps its meaning while the rows below it stay.
LEMMA StandsKept ==
    ASSUME NEW s \in Slot, StandsFor(s),
           snapRec'[s] = snapRec[s], snapKeys'[s] = snapKeys[s],
           prefixIds'[s] = prefixIds[s], prefixNext'[s] = prefixNext[s],
           \A i \in 0 .. Len(prefixIds[s]) - 1 : kv'[<<s, i>>] = kv[<<s, i>>]
    PROVE  StandsFor(s)'
<1>1. RowsHold(kv', s, prefixIds[s])
  BY DEF StandsFor, RowsHold
<1> QED BY <1>1 DEF StandsFor, RowsHold

\* A slot keeps its context while nothing of it is stored to.
LEMMA HoldsKept ==
    ASSUME NEW s \in Slot, NEW h \in Context, Holds(s, h),
           rec'[s] = rec[s], nKeys'[s] = nKeys[s],
           \A i \in Row : kv'[<<s, i>>] = kv[<<s, i>>]
    PROVE  Holds(s, h)'
<1>1. Len(h) \in 0 .. Ctx /\ Len(h) \in Nat
  BY ContextIsSeq, SizeAssumption
<1>2. \A i \in 0 .. Len(h) - 1 : i \in Row
  BY <1>1, SizeAssumption DEF Row
<1> QED BY <1>2 DEF Holds, RowsHold

\* A prefill on an exact slot stores neither to another slot nor below the
\* slot's length.
LEMMA PrefillKeeps ==
    ASSUME NEW s \in Slot, NEW h \in Context, Holds(s, h), NEW n \in Nat,
           Len(h) + n <= Ctx, NEW g \in Context \union {Junk},
           kv' = WithRows(s, nKeys[s], n, g), NEW u \in Slot, NEW i \in Row,
           u # s \/ i < Len(h)
    PROVE  kv'[<<u, i>>] = kv[<<u, i>>]
<1>1. nKeys[s] = Len(h) /\ Len(h) \in Nat
  BY ContextIsSeq DEF Holds
<1>2. kv'[<<u, i>>] = IF u = s /\ i \in nKeys[s] .. nKeys[s] + n - 1
                      THEN RowAt(g, i) ELSE kv[<<u, i>>]
  BY <1>1, WithRowsAt
<1>3. i \in Nat
  BY SizeAssumption DEF Row
<1> QED BY <1>1, <1>2, <1>3

\* Everything a slot's prefix covers is in the window.
LEMMA PrefixRows ==
    ASSUME TypeInv, NEW s \in Slot, NEW i \in 0 .. Len(prefixIds[s]) - 1
    PROVE  i \in Row
  BY PrefixIdsFacts, SizeAssumption DEF Row

-----------------------------------------------------------------------------
(* The actions *)

LEMMA ExactInit == Init => ExactInv
<1> SUFFICES ASSUME Init PROVE ExactInv
  OBVIOUS
<1>1. \A s \in Slot : RowsHold(kv, s, << >>)
  BY DEF RowsHold
<1>2. \A s \in Slot : StandsFor(s)
  BY <1>1 DEF Init, StateInit, StandsFor
<1> QED BY <1>2 DEF Init, ExactInv, Backed, PrefillExactly, DecodeExactly, StepsCounted

\* A step that leaves the snapshot, the rows and the prefixes as they are and
\* ends in a phase without claims of its own.
LEMMA BackedKept ==
    ASSUME \A s \in Slot : StandsFor(s),
           UNCHANGED <<kv, snapKeys, snapRec, prefixIds, prefixNext>>
    PROVE  \A s \in Slot : StandsFor(s)'
  BY StandsKept

LEMMA ExactStartGroup ==
    ASSUME ExactInv, StartGroup
    PROVE  ExactInv'
<1>1. \A s \in Slot : StandsFor(s)
  BY DEF ExactInv, Backed, StartGroup
<1>2. \A s \in Slot : StandsFor(s)'
  BY <1>1, BackedKept DEF StartGroup, stateVars
<1>3. pc' = "tokenize"
  BY DEF StartGroup
<1> QED BY <1>2, <1>3 DEF ExactInv, Backed, PrefillExactly, DecodeExactly, StepsCounted

LEMMA ExactTokenize ==
    ASSUME ExactInv, NEW s \in Members, Tokenize(s)
    PROVE  ExactInv'
<1>1. \A u \in Slot : StandsFor(u)
  BY DEF ExactInv, Backed, Tokenize
<1>2. \A u \in Slot : StandsFor(u)'
  BY <1>1, BackedKept DEF Tokenize, stateVars
<1>3. pc' \in {"tokenize", "resume"}
  BY DEF Tokenize
<1> QED BY <1>2, <1>3 DEF ExactInv, Backed, PrefillExactly, DecodeExactly, StepsCounted

\* A prompt that starts with the slot's prefix, cut to the prefix.
LEMMA ResumesPrefix ==
    ASSUME TypeInv, NEW s \in Live, Resumable(s)
    PROVE  /\ Len(prefixIds[s]) <= Len(Prompt(s))
           /\ Prefix(Prompt(s), Len(prefixIds[s])) = prefixIds[s]
           /\ Len(prefixIds[s]) = Len(Prompt(s)) => prefixIds[s] = Prompt(s)
<1>1. StartsWith(Prompt(s), prefixIds[s])
  BY DEF Resumable
<1>2. Prompt(s) \in Seq(Token)
  BY LiveFacts
<1> QED BY <1>1, <1>2, PrefixWhole DEF StartsWith

LEMMA ExactResume ==
    ASSUME TypeInv, ExactInv, Resume
    PROVE  ExactInv'
<1>1. /\ pc = "resume" /\ AllHit /\ pc' = "prefill" /\ hit' = TRUE
      /\ Live' = Live /\ group' = group /\ prefixIds' = prefixIds
      /\ fresh' = [s \in Slot |-> None] /\ Live \subseteq Slot
  BY DEF Resume, Live, TypeInv, Struct
<1>2. \A s \in Slot : StandsFor(s)
  BY <1>1 DEF ExactInv, Backed
<1>3. \A s \in Slot : StandsFor(s)'
  BY <1>2, BackedKept DEF Resume, RestoreRecurrent
<1>4. \A s \in Slot : Holds(s, prefixIds[s])'
  BY <1>1, <1>2 DEF StandsFor, Resume, RestoreRecurrent, Holds, RowsHold
<1>5. ASSUME NEW s \in Live
      PROVE  /\ Holds(s, Prefix(Prompt(s), fed[s]))'
             /\ fed'[s] = Len(prefixIds[s])
             /\ fed'[s] = Len(Prompt(s)) => prefixIds[s] = Prompt(s)
  <2>1. Resumable(s)
    BY <1>1 DEF AllHit
  <2>2. fed'[s] = Len(prefixIds[s])
    BY <1>1 DEF Resume
  <2>3. Prefix(Prompt(s), fed[s])' = prefixIds'[s]
    BY <1>1, <2>1, <2>2, ResumesPrefix DEF Prompt, Prefix
  <2>4. Holds(s, prefixIds[s])'
    BY <1>1, <1>4
  <2> QED BY <2>1, <2>2, <2>3, <2>4, ResumesPrefix DEF Holds, RowsHold
<1>6. ASSUME NEW s \in Live
      PROVE  Len(prefixIds[s])' <= fed'[s] /\ fresh'[s] = None
  <2>1. s \in Slot /\ Len(prefixIds[s]) \in Nat
    BY <1>1, PrefixIdsFacts
  <2> QED BY <1>1, <1>5, <2>1
<1>7. PrefillExactly'
  BY <1>1, <1>4, <1>5, <1>6 DEF PrefillExactly, Prompt
<1> QED BY <1>1, <1>3, <1>7 DEF ExactInv, Backed, DecodeExactly, StepsCounted

\* Nothing of the state before it is needed for what a reset establishes.
LEMMA ExactStartOver ==
    ASSUME TypeInv, StartOver
    PROVE  ExactInv'
<1>1. /\ pc = "resume" /\ pc' = "prefill" /\ hit' = FALSE /\ Live' = Live
      /\ fresh' = [s \in Slot |-> None] /\ group' = group /\ Live \subseteq Slot
      /\ \A s \in Slot : prefixIds'[s] = << >> /\ fed'[s] = 0
  BY DEF StartOver, Live, TypeInv, Struct
<1>2. \A s \in Slot : Holds(s, << >>)'
  BY DEF StartOver, Reset, Holds, RowsHold
<1>3. ASSUME NEW s \in Live
      PROVE  /\ Holds(s, Prefix(Prompt(s), fed[s]))'
             /\ Len(prefixIds[s])' <= fed'[s]
             /\ fed'[s] # Len(Prompt(s))'
  <2>1. Prompt(s) \in Seq(Token) /\ Len(Prompt(s)) \in 1 .. Ctx - 1
    BY LiveFacts
  <2>2. Prompt(s)' = Prompt(s)
    BY <1>1 DEF Prompt
  <2>3. Prefix(Prompt(s), fed[s])' = << >>
    BY <1>1, <2>1, <2>2 DEF Prefix
  <2>4. Len(Prompt(s))' # 0
    BY <2>1, <2>2, SizeAssumption
  <2> QED BY <1>1, <1>2, <2>3, <2>4 DEF Holds, RowsHold
<1>4. \A s \in Slot : Holds(s, prefixIds[s])'
  BY <1>1, <1>2 DEF Holds, RowsHold
<1>5. PrefillExactly'
  BY <1>1, <1>3, <1>4 DEF PrefillExactly
<1> QED BY <1>1, <1>5 DEF ExactInv, Backed, DecodeExactly, StepsCounted

\* Of a prefill: the slot of the turn, and what the invariant says of it.
LEMMA TurnFacts ==
    ASSUME TypeInv, ExactInv, NEW s \in Slot, pc = "prefill", PrefillTurn(s)
    PROVE  /\ s \in Live /\ fresh[s] = None
           /\ Holds(s, Prefix(Prompt(s), fed[s]))
           /\ Len(prefixIds[s]) <= fed[s]
           /\ fed[s] = Len(Prompt(s)) => prefixIds[s] = Prompt(s)
BY DEF ExactInv, PrefillExactly, PrefillTurn, Pending

LEMMA ExactPrefillRepeat ==
    ASSUME TypeInv, ExactInv, NEW s \in Members, PrefillRepeat(s)
    PROVE  ExactInv'
<1>1. s \in Slot /\ pc = "prefill" /\ PrefillTurn(s) /\ fed[s] = Len(Prompt(s))
  BY GroupFacts DEF TypeInv, PrefillRepeat
<1>2. s \in Live /\ prefixIds[s] = Prompt(s)
  BY <1>1, TurnFacts
<1>3. prefixNext[s] = Greedy[Prompt(s)]
  <2>1. prefixIds[s] # << >>
    BY <1>2, LiveFacts
  <2>2. hit
    BY <1>1, <2>1 DEF ExactInv, PrefillExactly
  <2> QED BY <1>1, <1>2, <2>1, <2>2 DEF ExactInv, Backed, StandsFor
<1>4. /\ UNCHANGED <<nKeys, rec, kv, snapKeys, snapRec, prefixIds, prefixNext, pc, group,
                     done, fed, hit>>
      /\ Live' = Live
      /\ fresh' = [fresh EXCEPT ![s] = prefixNext[s]]
  BY DEF PrefillRepeat, stateVars, Live
<1>5. fresh \in [Slot -> Token \union {None}]
  BY DEF TypeInv, TypeOK
<1>6. fresh'[s] = Greedy[Prompt(s)] /\ \A u \in Slot : u # s => fresh'[u] = fresh[u]
  BY <1>1, <1>3, <1>4, <1>5
<1>7. Backed'
  BY <1>4 DEF ExactInv, Backed, StandsFor, RowsHold
<1>8. ASSUME NEW u \in Live
      PROVE  /\ Holds(u, Prefix(Prompt(u), fed[u]))'
             /\ Len(prefixIds[u])' <= fed'[u]
             /\ fresh'[u] = None /\ fed'[u] = Len(Prompt(u))' => prefixIds'[u] = Prompt(u)'
             /\ fresh'[u] # None => /\ fed'[u] = Len(Prompt(u))'
                                    /\ fresh'[u] = Greedy[Prompt(u)]'
  <2>1. Holds(u, Prefix(Prompt(u), fed[u])) /\ Len(prefixIds[u]) <= fed[u]
    BY <1>1 DEF ExactInv, PrefillExactly
  <2>2. Holds(u, Prefix(Prompt(u), fed[u]))' /\ Len(prefixIds[u])' <= fed'[u]
    BY <1>4, <2>1 DEF Holds, RowsHold, Prompt
  <2>3. CASE u = s
    BY <1>1, <1>2, <1>4, <1>6, <2>2, <2>3 DEF Prompt
  <2>4. CASE u # s
    <3>1. fresh'[u] = fresh[u]
      BY <1>6, <2>4 DEF Live
    <3> QED BY <1>1, <1>4, <2>2, <3>1 DEF ExactInv, PrefillExactly, Prompt
  <2> QED BY <2>3, <2>4
<1>9. PrefillExactly'
  <2>1. \A u \in Slot \ Live : Holds(u, prefixIds[u])'
    BY <1>1, <1>4 DEF ExactInv, PrefillExactly, Holds, RowsHold
  <2>2. ~hit' => \A u \in Slot : prefixIds'[u] = << >>
    BY <1>1, <1>4 DEF ExactInv, PrefillExactly
  <2> QED BY <1>4, <1>8, <2>1, <2>2 DEF PrefillExactly
<1> QED BY <1>1, <1>4, <1>7, <1>9 DEF ExactInv, DecodeExactly, StepsCounted

LEMMA ExactPrefillStep ==
    ASSUME TypeInv, ExactInv, NEW s \in Members, PrefillStep(s)
    PROVE  ExactInv'
<1>1. s \in Slot /\ pc = "prefill" /\ PrefillTurn(s) /\ fed[s] < Len(Prompt(s))
  BY GroupFacts DEF TypeInv, PrefillStep
<1>2. /\ s \in Live /\ fresh[s] = None /\ Holds(s, Prefix(Prompt(s), fed[s]))
      /\ Len(prefixIds[s]) <= fed[s]
  BY <1>1, TurnFacts
<1>3. PICK nx \in Token :
        /\ PrefillSeq(s, Chunk(s), nx)
        /\ fresh' = IF ChunkEnd(s) = Len(Prompt(s)) THEN [fresh EXCEPT ![s] = nx]
                                                    ELSE fresh
  BY DEF PrefillStep
<1>4. /\ UNCHANGED <<snapKeys, snapRec, prefixIds, prefixNext, pc, group, done, hit>>
      /\ Live' = Live
      /\ fed' = [fed EXCEPT ![s] = ChunkEnd(s)]
  BY DEF PrefillStep, PrefillSeq, Live
<1>5. /\ fresh \in [Slot -> Token \union {None}] /\ fed \in [Slot -> 0 .. Ctx]
      /\ StateTypeOK
  BY DEF TypeInv, TypeOK
<1>6. /\ Prompt(s) \in Seq(Token) /\ Prompt(s) \in Context
      /\ Len(Prompt(s)) \in Nat /\ Len(Prompt(s)) <= Ctx
      /\ fed[s] \in Nat /\ Ctx \in Nat
  BY <1>1, <1>2, <1>5, LiveFacts, SizeAssumption
<1>7. /\ ChunkEnd(s) \in fed[s] + 1 .. Len(Prompt(s))
      /\ Chunk(s) \in Seq(Token)
      /\ Len(Chunk(s)) = ChunkEnd(s) - fed[s]
      /\ Prefix(Prompt(s), fed[s]) \o Chunk(s) = Prefix(Prompt(s), ChunkEnd(s))
  BY <1>1, <1>2, ChunkFacts
<1>8. PICK h \in Context : h = Prefix(Prompt(s), fed[s])
  BY <1>1, <1>6, PrefixInContext
<1>9. Len(h) = fed[s]
  BY <1>1, <1>6, <1>8 DEF Prefix
<1>10. Len(h) + Len(Chunk(s)) <= Ctx
  BY <1>6, <1>7, <1>9
<1>11. PICK c \in Seq(Token) : c = Chunk(s)
  BY <1>7
<1>12. /\ Holds(s, h \o c)' /\ nx = Greedy[h \o c]
       /\ h \o c = Prefix(Prompt(s), ChunkEnd(s))
  <2>1. Holds(s, h) /\ PrefillSeq(s, c, nx) /\ Len(h) + Len(c) <= Ctx
    BY <1>2, <1>3, <1>8, <1>10, <1>11
  <2>2. Holds(s, h \o c)' /\ nx = Greedy[h \o c]
    BY <1>1, <1>5, <2>1, PrefillExact
  <2> QED BY <1>7, <1>8, <1>11, <2>2
<1>13. ASSUME NEW u \in Slot, NEW i \in Row, u # s \/ i < fed[s]
       PROVE  kv'[<<u, i>>] = kv[<<u, i>>]
  <2>1. PICK n \in Nat : n = Len(Chunk(s))
    BY <1>6, <1>7
  <2>2. PICK g \in Context \union {Junk} : g = Absorb(s, Chunk(s))
    BY <1>1, <1>5, <1>7, AbsorbType
  <2>3. kv' = WithRows(s, nKeys[s], n, g)
    BY <1>3, <2>1, <2>2 DEF PrefillSeq
  <2>4. Holds(s, h) /\ Len(h) + n <= Ctx
    BY <1>2, <1>8, <1>10, <2>1
  <2> QED BY <1>1, <1>9, <1>13, <2>3, <2>4, PrefillKeeps
<1>14. \A u \in Slot : u # s => rec'[u] = rec[u] /\ nKeys'[u] = nKeys[u]
  BY <1>3, <1>5 DEF PrefillSeq, StateTypeOK
<1>15. Backed'
  <2>1. ASSUME hit, NEW u \in Slot
        PROVE  StandsFor(u)'
    <3>1. StandsFor(u)
      BY <2>1 DEF ExactInv, Backed
    <3>2. ASSUME NEW i \in 0 .. Len(prefixIds[u]) - 1
          PROVE  kv'[<<u, i>>] = kv[<<u, i>>]
      <4>1. i \in Row
        BY PrefixRows
      <4>2. u # s \/ i < fed[s]
        BY <1>1, <1>2, <1>6, PrefixIdsFacts
      <4> QED BY <1>13, <4>1, <4>2
    <3> QED BY <1>4, <3>1, <3>2, StandsKept
  <2> QED BY <1>1, <1>4, <2>1 DEF Backed
<1>16. ASSUME NEW u \in Slot, u # s, NEW g \in Context, Holds(u, g)
       PROVE  Holds(u, g)'
  BY <1>13, <1>14, <1>16, HoldsKept
<1>17. \A u \in Slot \ Live : Holds(u, prefixIds[u])'
  <2> SUFFICES ASSUME NEW u \in Slot, u \notin Live PROVE Holds(u, prefixIds[u])'
    OBVIOUS
  <2>1. PICK g \in Context : g = prefixIds[u]
    BY PrefixIdsFacts
  <2>2. Holds(u, g)
    BY <1>1, <2>1 DEF ExactInv, PrefillExactly
  <2>3. Holds(u, g)'
    BY <1>2, <1>16, <2>2
  <2> QED BY <1>4, <2>1, <2>3
<1>18. ASSUME NEW u \in Live, u # s
       PROVE  /\ Holds(u, Prefix(Prompt(u), fed[u]))'
              /\ Len(prefixIds[u])' <= fed'[u]
              /\ fed'[u] = fed[u] /\ fresh'[u] = fresh[u]
  <2>1. u \in Slot /\ fed[u] \in Nat /\ fed[u] <= Len(Prompt(u)) /\ Prompt(u) \in Context
    BY <1>1, <1>5, LiveFacts DEF TypeInv, Struct, Live
  <2>2. PICK g \in Context : g = Prefix(Prompt(u), fed[u])
    BY <2>1, PrefixInContext
  <2>3. Holds(u, g)
    BY <1>1, <2>2 DEF ExactInv, PrefillExactly
  <2>4. Holds(u, g)'
    BY <1>16, <1>18, <2>1, <2>3
  <2>5. fed'[u] = fed[u] /\ fresh'[u] = fresh[u]
    BY <1>3, <1>4, <1>5, <1>18, <2>1
  <2>6. Len(prefixIds[u]) <= fed[u]
    BY <1>1 DEF ExactInv, PrefillExactly
  <2>7. Prefix(Prompt(u), fed[u])' = g
    BY <1>4, <2>2, <2>5 DEF Prompt, Prefix
  <2>8. Holds(u, Prefix(Prompt(u), fed[u]))'
    BY <2>4, <2>7 DEF Holds, RowsHold
  <2> QED BY <1>4, <2>5, <2>6, <2>8
<1>19. /\ fed'[s] = ChunkEnd(s) /\ Prompt(s)' = Prompt(s)
       /\ Holds(s, Prefix(Prompt(s), fed[s]))'
       /\ Len(prefixIds[s])' <= fed'[s]
  <2>1. fed'[s] = ChunkEnd(s) /\ Prompt(s)' = Prompt(s)
    BY <1>1, <1>4, <1>5 DEF Prompt
  <2>2. Prefix(Prompt(s), fed[s])' = h \o c
    BY <1>12, <2>1 DEF Prefix
  <2>3. Len(prefixIds[s]) <= ChunkEnd(s)
    BY <1>1, <1>2, <1>6, <1>7, PrefixIdsFacts
  <2> QED BY <1>4, <1>12, <2>1, <2>2, <2>3 DEF Holds, RowsHold
<1>20. /\ fresh'[s] = None /\ fed'[s] = Len(Prompt(s))' => prefixIds'[s] = Prompt(s)'
       /\ fresh'[s] # None => /\ fed'[s] = Len(Prompt(s))'
                              /\ fresh'[s] = Greedy[Prompt(s)]'
  <2>1. CASE ChunkEnd(s) = Len(Prompt(s))
    <3>1. fresh'[s] = nx /\ nx # None
      BY <1>1, <1>3, <1>5, <2>1, EngineAssumption
    <3>2. nx = Greedy[Prompt(s)]
      BY <1>6, <1>12, <2>1, PrefixWhole
    <3> QED BY <1>19, <2>1, <3>1, <3>2
  <2>2. CASE ChunkEnd(s) # Len(Prompt(s))
    BY <1>2, <1>3, <1>19, <2>2
  <2> QED BY <2>1, <2>2
<1>21. PrefillExactly'
  <2>1. ASSUME NEW u \in Live
        PROVE  /\ Holds(u, Prefix(Prompt(u), fed[u]))'
               /\ Len(prefixIds[u])' <= fed'[u]
               /\ fresh'[u] = None /\ fed'[u] = Len(Prompt(u))' => prefixIds'[u] = Prompt(u)'
               /\ fresh'[u] # None => /\ fed'[u] = Len(Prompt(u))'
                                      /\ fresh'[u] = Greedy[Prompt(u)]'
    <3>1. CASE u = s
      BY <1>19, <1>20, <3>1
    <3>2. CASE u # s
      BY <1>1, <1>4, <1>18, <3>2 DEF ExactInv, PrefillExactly, Prompt
    <3> QED BY <3>1, <3>2
  <2>2. ~hit' => \A u \in Slot : prefixIds'[u] = << >>
    BY <1>1, <1>4 DEF ExactInv, PrefillExactly
  <2> QED BY <1>4, <1>17, <2>1, <2>2 DEF PrefillExactly
<1> QED BY <1>1, <1>4, <1>15, <1>21 DEF ExactInv, DecodeExactly, StepsCounted

LEMMA ExactCachePrompts ==
    ASSUME TypeInv, ExactInv, CachePrompts
    PROVE  ExactInv'
<1>1. /\ pc = "prefill" /\ pc' = "decode" /\ cur = 0 /\ cur' = cur
      /\ Live' = Live /\ Live \subseteq Slot
      /\ UNCHANGED <<nKeys, rec, kv, group, ids>>
      /\ snapRec' = rec /\ snapKeys' = nKeys
      /\ \A s \in Slot : ids[s] = << >>
  BY DEF CachePrompts, SnapshotRecurrent, Live, TypeInv, Struct
<1>2. ASSUME NEW s \in Live
      PROVE  /\ Holds(s, Prompt(s)) /\ fresh[s] = Greedy[Prompt(s)]
             /\ Prompt(s) \in Context /\ Prompt(s) \in Seq(Token)
  <2>1. fresh[s] # None
    BY DEF CachePrompts, Pending
  <2>2. /\ fed[s] = Len(Prompt(s)) /\ fresh[s] = Greedy[Prompt(s)]
        /\ Holds(s, Prefix(Prompt(s), fed[s]))
    BY <1>1, <2>1 DEF ExactInv, PrefillExactly
  <2>3. Prompt(s) \in Context /\ Prompt(s) \in Seq(Token)
    BY LiveFacts
  <2> QED BY <2>2, <2>3, PrefixWhole
<1>3. ASSUME NEW s \in Slot
      PROVE  /\ prefixIds'[s] = IF s \in Live THEN Prompt(s) ELSE prefixIds[s]
             /\ prefixNext'[s] = IF s \in Live THEN fresh[s] ELSE prefixNext[s]
             /\ s \in Live => next'[s] = fresh[s]
  BY DEF CachePrompts
<1>4. ASSUME NEW s \in Slot PROVE StandsFor(s)'
  <2>1. CASE s \in Live
    <3>1. prefixIds'[s] = Prompt(s) /\ prefixNext'[s] = Greedy[Prompt(s)]
      BY <1>2, <1>3, <2>1
    <3>2. Holds(s, Prompt(s))
      BY <1>2, <2>1
    <3> QED BY <1>1, <3>1, <3>2 DEF StandsFor, Holds, RowsHold
  <2>2. CASE s \notin Live
    <3>1. prefixIds'[s] = prefixIds[s] /\ prefixNext'[s] = prefixNext[s]
      BY <1>3, <2>2
    <3>2. Holds(s, prefixIds[s])
      BY <1>1, <2>2 DEF ExactInv, PrefillExactly
    <3>3. prefixIds[s] # << >> => prefixNext[s] = Greedy[prefixIds[s]]
      BY <1>1 DEF ExactInv, PrefillExactly, Backed, StandsFor
    <3> QED BY <1>1, <3>1, <3>2, <3>3 DEF StandsFor, Holds, RowsHold
  <2> QED BY <2>1, <2>2
<1>5. ASSUME NEW s \in Live
      PROVE  /\ ~(s < cur')
             /\ Said(s)' = Prompt(s) /\ Said(s)' \in Context
             /\ Holds(s, Said(s))' /\ next'[s] = Greedy[Said(s)]'
  <2>1. ~(s < cur') /\ s \in Slot
    BY <1>1, SizeAssumption DEF Slot
  <2>2. Said(s)' = Prompt(s)
    <3>1. Said(s)' = Prompt(s) \o << >>
      BY <1>1, <2>1 DEF Said, Prompt
    <3>2. \A h \in Seq(Token) : h \o << >> = h
      OBVIOUS
    <3> QED BY <1>2, <3>1, <3>2
  <2>3. Holds(s, Said(s))'
    BY <1>1, <1>2, <2>2 DEF Holds, RowsHold
  <2> QED BY <1>2, <1>3, <2>1, <2>2, <2>3
<1>6. nKeys \in [Slot -> Nat] /\ 0 \in Slot
  BY SizeAssumption DEF TypeInv, TypeOK, StateTypeOK, Slot
<1>7. Stepped' = 0
  BY <1>1, <1>6 DEF Stepped
<1>8. StepsCounted'
  BY <1>1, <1>5, <1>6, <1>7 DEF StepsCounted
<1>9. DecodeExactly'
  BY <1>1, <1>5 DEF DecodeExactly
<1> QED BY <1>1, <1>4, <1>8, <1>9 DEF ExactInv, Backed, PrefillExactly

\* The slot of the turn is the first live one that has not sent in this round.
LEMMA ExactEmit ==
    ASSUME TypeInv, ExactInv, NEW s \in Members, EmitStop(s) \/ EmitToken(s)
    PROVE  ExactInv'
<1>1. /\ s \in Slot /\ s \in Live /\ pc = "decode" /\ pc' = pc /\ s >= cur /\ cur' = s + 1
      /\ \A u \in Live : u >= cur => s <= u
      /\ UNCHANGED <<nKeys, rec, kv, snapKeys, snapRec, prefixIds, prefixNext, group,
                     limit, next>>
  BY GroupFacts DEF TypeInv, EmitStop, EmitToken, EmitTurn, stateVars
<1>2. /\ done \in [Slot -> BOOLEAN] /\ DOMAIN ids = Slot /\ cur \in Int /\ s \in Int
      /\ \A u \in Slot : u \in Int
      /\ \A u \in Slot : ids[u] \in Seq(Token)
  BY <1>1, SizeAssumption DEF TypeInv, TypeOK, Slot
<1>3. Live' \subseteq Live /\ Live \subseteq Slot
  BY <1>1, <1>2 DEF EmitStop, EmitToken, Live
<1>4. ASSUME NEW u \in Live', u # s
      PROVE  (u < cur' <=> u < cur) /\ ids'[u] = ids[u]
  <2>1. u \in Int /\ u \in Slot /\ u \in Live
    BY <1>2, <1>3
  <2>2. ids'[u] = ids[u]
    BY <1>2, <1>4, <2>1 DEF EmitStop, EmitToken
  <2> QED BY <1>1, <1>2, <1>4, <2>1, <2>2
<1>5. /\ Said(s) \in Context /\ Holds(s, Said(s)) /\ Len(ids[s]) = Stepped
      /\ next[s] \in Token
  BY <1>1, <1>2 DEF ExactInv, DecodeExactly, StepsCounted, TypeInv, Struct
<1>6. ASSUME s \in Live'
      PROVE  /\ ids'[s] = Append(ids[s], next[s])
             /\ Len(ids[s]) + 1 < limit[s]
  <2>1. EmitToken(s)
    BY <1>2, <1>1, <1>6 DEF EmitStop, Live
  <2>2. ids'[s] = Append(ids[s], next[s])
    BY <1>1, <1>2, <2>1 DEF EmitToken
  <2>3. ~(Len(ids[s]) + 1 >= limit[s])
    BY <1>1, <1>2, <1>6, <2>1 DEF EmitToken, Live
  <2>4. limit[s] \in Nat /\ Len(ids[s]) \in Nat
    BY <1>1, <1>2, SizeAssumption DEF TypeInv, TypeOK
  <2> QED BY <2>2, <2>3, <2>4
<1>7. s < cur'
  BY <1>1, <1>2
<1>8. Backed'
  BY <1>1 DEF ExactInv, Backed, StandsFor, RowsHold
<1>9. DecodeExactly'
  <2>1. ASSUME NEW u \in Live', u # s
        PROVE  IF u < cur'
               THEN \E c \in Context : Holds(u, c)' /\ Append(c, next'[u]) = Said(u)'
               ELSE Said(u)' \in Context /\ Holds(u, Said(u))' /\ next'[u] = Greedy[Said(u)]'
    <3>1. Said(u)' = Said(u) /\ (u < cur' <=> u < cur) /\ next'[u] = next[u]
      BY <1>1, <1>4, <2>1 DEF Said, Prompt
    <3>2. CASE u < cur
      <4>1. PICK c \in Context : Holds(u, c) /\ Append(c, next[u]) = Said(u)
        BY <1>1, <1>3, <3>2 DEF ExactInv, DecodeExactly
      <4>2. Holds(u, c)'
        BY <1>1, <4>1 DEF Holds, RowsHold
      <4> QED BY <3>1, <3>2, <4>1, <4>2
    <3>3. CASE ~(u < cur)
      <4>1. Said(u) \in Context /\ Holds(u, Said(u)) /\ next[u] = Greedy[Said(u)]
        BY <1>1, <1>3, <3>3 DEF ExactInv, DecodeExactly
      <4>2. Holds(u, Said(u))'
        BY <1>1, <3>1, <4>1 DEF Holds, RowsHold
      <4> QED BY <3>1, <3>3, <4>1, <4>2
    <3> QED BY <3>2, <3>3
  <2>2. ASSUME s \in Live'
        PROVE  \E c \in Context : Holds(s, c)' /\ Append(c, next'[s]) = Said(s)'
    <3>1. PICK c \in Context : c = Said(s)
      BY <1>5
    <3>2. Holds(s, c)'
      BY <1>1, <1>5, <3>1 DEF Holds, RowsHold
    <3>3. Prompt(s) \in Seq(Token) /\ ids[s] \in Seq(Token)
      BY <1>1, <1>2, LiveFacts
    <3>4. Append(Prompt(s) \o ids[s], next[s]) = Prompt(s) \o Append(ids[s], next[s])
      BY <1>5, <3>3
    <3>5. Said(s)' = Append(c, next'[s])
      BY <1>1, <1>6, <2>2, <3>1, <3>4 DEF Said, Prompt
    <3> QED BY <3>2, <3>5
  <2>3. ASSUME NEW u \in Live'
        PROVE  IF u < cur'
               THEN \E c \in Context : Holds(u, c)' /\ Append(c, next'[u]) = Said(u)'
               ELSE Said(u)' \in Context /\ Holds(u, Said(u))' /\ next'[u] = Greedy[Said(u)]'
    BY <1>7, <2>1, <2>2
  <2> QED BY <2>3 DEF DecodeExactly
<1>10. StepsCounted'
  <2>1. Stepped' = Stepped /\ Stepped \in Nat /\ \A u \in Slot : nKeys'[u] = snapKeys'[u] + Stepped'
    BY <1>1 DEF ExactInv, StepsCounted, Stepped
  <2>2. ASSUME NEW u \in Live'
        PROVE  /\ Len(ids'[u]) = Stepped' + (IF u < cur' THEN 1 ELSE 0)
               /\ u < cur' => Len(ids'[u]) < limit'[u]
    <3>1. CASE u = s
      <4>1. Len(ids'[s]) = Len(ids[s]) + 1 /\ Len(ids[s]) + 1 < limit[s]
        BY <1>1, <1>2, <1>5, <1>6, <2>2, <3>1
      <4> QED BY <1>1, <1>5, <1>7, <2>1, <3>1, <4>1
    <3>2. CASE u # s
      BY <1>1, <1>3, <1>4, <2>1, <3>2 DEF ExactInv, StepsCounted
    <3> QED BY <3>1, <3>2
  <2> QED BY <2>1, <2>2 DEF StepsCounted
<1> QED BY <1>1, <1>8, <1>9, <1>10 DEF ExactInv, PrefillExactly

\* When a batched step is made no slot has reached the end of its window: the
\* slot that is still live has sent less than it may, and every prefix fits
\* the window with what any request may ask.
LEMMA AllInWindow ==
    ASSUME Fits, TypeInv, ExactInv, pc = "decode", RoundOver, Live # {}
    PROVE  \A u \in Slot : nKeys[u] \in Row /\ Len(prefixIds[u]) <= nKeys[u]
<1>1. PICK s \in Live : TRUE
  OBVIOUS
<1>2. /\ s \in Slot /\ s < cur /\ group[s] \in Requests /\ ~TooLong(group[s])
      /\ limit[s] \in 0 .. Ctx - Len(Prompt(s)) /\ Len(Prompt(s)) \in 1 .. Ctx - 1
      /\ limit[s] <= group[s].max
  BY LiveFacts DEF RoundOver
<1>3. PICK n \in Nat : n = Stepped
  BY DEF ExactInv, StepsCounted
<1>4. n + 1 < limit[s]
  BY <1>2, <1>3 DEF ExactInv, StepsCounted
<1>5. PICK m \in Nat : m = group[s].max
  BY <1>2, RequestFacts
<1>6. n + 2 <= m /\ n + 2 <= Ctx - 1 /\ Ctx \in Nat
  BY <1>2, <1>3, <1>4, <1>5, SizeAssumption
<1>7. ASSUME NEW u \in Slot PROVE nKeys[u] \in Row /\ Len(prefixIds[u]) <= nKeys[u]
  <2>1. StandsFor(u)
    BY DEF ExactInv, Backed
  <2>2. nKeys[u] = Len(prefixIds[u]) + n
    BY <1>3, <2>1 DEF ExactInv, StepsCounted, StandsFor
  <2>3. PICK k \in Nat : k = Len(prefixIds[u])
    BY PrefixIdsFacts
  <2>4. CASE prefixIds[u] = << >>
    BY <1>6, <2>2, <2>3, <2>4 DEF Row
  <2>5. CASE prefixIds[u] # << >>
    <3>1. PICK q \in Requests : ~TooLong(q) /\ prefixIds[u] = q.prompt
      BY <2>5, PrefixIdsFacts
    <3>2. k + m <= Ctx + 1
      BY <1>2, <1>5, <2>3, <3>1 DEF Fits
    <3> QED BY <1>6, <2>2, <2>3, <3>2 DEF Row
  <2> QED BY <2>4, <2>5
<1> QED BY <1>7

LEMMA ExactDecodeStep ==
    ASSUME Fits, TypeInv, ExactInv, DecodeStep
    PROVE  ExactInv'
<1>1. /\ pc = "decode" /\ pc' = pc /\ RoundOver /\ Live # {} /\ cur' = 0
      /\ Live' = Live /\ Live \subseteq Slot /\ Members \subseteq Slot
      /\ UNCHANGED <<prefixIds, prefixNext, group, ids, limit>>
  BY GroupFacts DEF DecodeStep, Live, TypeInv
<1>2. PICK out \in [Members -> Token] :
        /\ StepBatch(Members, next, out)
        /\ next' = [s \in Slot |-> IF s \in Members THEN out[s] ELSE None]
  BY DEF DecodeStep
<1>3. PICK ts : ts = next
  OBVIOUS
<1>4. PICK batch \in SUBSET Slot : ts = next /\ batch = Members
  BY <1>1, <1>3
<1>5. StateTypeOK /\ StepBatch(batch, ts, out)
  BY <1>2, <1>3, <1>4 DEF TypeInv, TypeOK
<1>6. \A u \in Slot : nKeys[u] \in Row /\ Len(prefixIds[u]) <= nKeys[u]
  BY <1>1, AllInWindow
<1>7. ASSUME NEW u \in Slot PROVE StandsFor(u)'
  <2>1. StandsFor(u)
    BY <1>1 DEF ExactInv, Backed
  <2>2. ASSUME NEW i \in 0 .. Len(prefixIds[u]) - 1
        PROVE  kv'[<<u, i>>] = kv[<<u, i>>]
    <3>1. i \in Row
      BY PrefixRows
    <3>2. i # nKeys[u]
      BY <1>6, PrefixIdsFacts, SizeAssumption DEF Row
    <3>3. kv'[<<u, i>>] = IF i = nKeys[u] THEN RowAt(StepContext(u, batch, ts), i)
                                          ELSE kv[<<u, i>>]
      BY <1>5, <1>6, <3>1, StepRows
    <3> QED BY <3>2, <3>3
  <2>3. UNCHANGED <<snapKeys, snapRec>>
    BY <1>2 DEF StepBatch
  <2> QED BY <1>1, <2>1, <2>2, <2>3, StandsKept
<1>8. ASSUME NEW s \in Live
      PROVE  /\ ~(s < cur') /\ Said(s)' \in Context
             /\ Holds(s, Said(s))' /\ next'[s] = Greedy[Said(s)]'
  <2>1. s < cur /\ s \in Slot /\ s \in Members /\ next[s] \in Token /\ ~(s < cur')
    BY <1>1, LiveFacts, SizeAssumption DEF RoundOver, TypeInv, Struct, Slot
  <2>2. PICK c \in Context : Holds(s, c) /\ Append(c, next[s]) = Said(s)
    BY <1>1, <2>1 DEF ExactInv, DecodeExactly
  <2>3. s \in batch /\ ts[s] \in Token
    BY <1>4, <2>1
  <2>4. /\ Holds(s, Append(c, ts[s]))'
        /\ Append(c, ts[s]) \in Context
        /\ out[s] = Greedy[Append(c, ts[s])]
    BY <1>5, <1>6, <2>2, <2>3, StepExact
  <2>5. Said(s)' = Append(c, ts[s])
    BY <1>1, <1>3, <2>2 DEF Said, Prompt
  <2>6. next'[s] = out[s]
    BY <1>2, <2>1
  <2> QED BY <2>1, <2>4, <2>5, <2>6 DEF Holds, RowsHold
<1>9. DecodeExactly'
  BY <1>1, <1>8 DEF DecodeExactly
<1>10. StepsCounted'
  <2>1. 0 \in Slot /\ nKeys \in [Slot -> Nat] /\ snapKeys \in [Slot -> Nat]
    <3>1. 0 \in Slot
      BY SizeAssumption DEF Slot
    <3> QED BY <1>5, <3>1 DEF StateTypeOK
  <2>2. snapKeys' = snapKeys /\ \A u \in Slot : nKeys'[u] = nKeys[u] + 1
    BY <1>2 DEF StepBatch
  <2>3. Stepped \in Nat /\ \A u \in Slot : nKeys[u] = snapKeys[u] + Stepped
    BY <1>1 DEF ExactInv, StepsCounted
  <2>4. Stepped' = Stepped + 1
    BY <2>1, <2>2 DEF Stepped
  <2>5. ASSUME NEW s \in Live
        PROVE  Len(ids'[s]) = Stepped' /\ ~(s < cur')
    <3>1. s < cur /\ Len(ids[s]) = Stepped + (IF s < cur THEN 1 ELSE 0)
      BY <1>1 DEF RoundOver, ExactInv, StepsCounted
    <3> QED BY <1>1, <1>8, <2>4, <3>1
  <2>6. ASSUME NEW u \in Slot PROVE nKeys'[u] = snapKeys'[u] + Stepped'
    <3>1. nKeys[u] \in Nat /\ snapKeys[u] \in Nat
      BY <2>1
    <3> QED BY <2>2, <2>3, <2>4, <3>1
  <2>7. Stepped' \in Nat
    BY <2>3, <2>4
  <2>8. \A s \in Live' : /\ Len(ids'[s]) = Stepped' + (IF s < cur' THEN 1 ELSE 0)
                         /\ s < cur' => Len(ids'[s]) < limit'[s]
    BY <1>1, <2>5, <2>7
  <2> QED BY <2>6, <2>7, <2>8 DEF StepsCounted
<1> QED BY <1>1, <1>7, <1>9, <1>10 DEF ExactInv, Backed, PrefillExactly

LEMMA ExactDeliver ==
    ASSUME ExactInv, Deliver
    PROVE  ExactInv'
<1>1. \A s \in Slot : StandsFor(s)
  BY DEF ExactInv, Backed, Deliver
<1>2. UNCHANGED <<kv, snapKeys, snapRec, prefixIds, prefixNext>> /\ pc' = "idle"
  BY DEF Deliver, EndGroup, stateVars
<1> QED BY <1>1, <1>2, BackedKept
        DEF ExactInv, Backed, PrefillExactly, DecodeExactly, StepsCounted

\* A harmless error leaves the snapshot and the rows below it.
LEMMA FaultKeeps ==
    ASSUME Fits, FaultSites \subseteq HarmlessSites, TypeInv, ExactInv, Fault,
           NEW u \in Slot, NEW i \in 0 .. Len(prefixIds[u]) - 1
    PROVE  kv'[<<u, i>>] = kv[<<u, i>>]
<1>1. i \in Row /\ Len(prefixIds[u]) \in Nat /\ i \in Nat /\ i < Len(prefixIds[u])
  BY PrefixRows, PrefixIdsFacts, SizeAssumption DEF Row
<1>2. "reset" \notin FaultSites /\ "prefill_reset" \notin FaultSites
  BY DEF HarmlessSites
<1>3. CASE UNCHANGED kv
  BY <1>3
<1>4. ASSUME NEW s \in Slot, pc = "prefill", PrefillTurn(s), fed[s] < Len(Prompt(s)),
             TornPrefill(s, Chunk(s))
      PROVE  kv'[<<u, i>>] = kv[<<u, i>>]
  <2>1. /\ s \in Live /\ Holds(s, Prefix(Prompt(s), fed[s])) /\ Len(prefixIds[s]) <= fed[s]
    BY <1>4, TurnFacts
  <2>2. /\ Prompt(s) \in Context /\ Prompt(s) \in Seq(Token) /\ fed[s] \in Nat
        /\ Len(Prompt(s)) \in Nat /\ Len(Prompt(s)) <= Ctx /\ Ctx \in Nat
    BY <2>1, LiveFacts, SizeAssumption DEF TypeInv, TypeOK
  <2>3. PICK h \in Context : h = Prefix(Prompt(s), fed[s])
    BY <1>4, <2>2, PrefixInContext
  <2>4. Len(h) = fed[s]
    BY <1>4, <2>2, <2>3 DEF Prefix
  <2>5. PICK n \in Nat : n = Len(Chunk(s)) /\ fed[s] + n <= Ctx
    BY <1>4, <2>1, <2>2, ChunkFacts
  <2>6. kv' = WithRows(s, nKeys[s], n, Junk)
    BY <1>4, <2>5 DEF TornPrefill
  <2>7. u # s \/ i < Len(h)
    BY <1>1, <2>1, <2>2, <2>4
  <2>8. Holds(s, h) /\ Len(h) + n <= Ctx
    BY <2>1, <2>3, <2>4, <2>5
  <2> QED BY <1>1, <2>6, <2>7, <2>8, PrefillKeeps
<1>5. ASSUME pc = "decode", RoundOver, Live # {}, TornStepBatch(Members, next)
      PROVE  kv'[<<u, i>>] = kv[<<u, i>>]
  <2>1. \A s \in Slot : nKeys[s] \in Row /\ Len(prefixIds[s]) <= nKeys[s]
    BY <1>5, AllInWindow
  <2>2. PICK d \in KvRow : d = <<u, i>>
    BY <1>1 DEF KvRow
  <2>3. ASSUME NEW s \in Slot, Offset(d, s) = nKeys[s] PROVE FALSE
    <3>1. d = <<s, nKeys[s]>>
      BY <2>1, <2>3, OffsetInWindow
    <3>2. i = nKeys[u]
      BY <2>2, <3>1
    <3> QED BY <1>1, <2>1, <3>2, SizeAssumption DEF Row
  <2>4. kv'[d] = IF \E s \in Slot : Offset(d, s) = nKeys[s] THEN Junk ELSE kv[d]
    BY <1>5 DEF TornStepBatch
  <2> QED BY <2>2, <2>3, <2>4
<1> QED BY <1>2, <1>3, <1>4, <1>5
        DEF Fault, TornRestore, TornSnapshot, stateVars

LEMMA ExactDrop ==
    ASSUME Fits, FaultSites \subseteq HarmlessSites, TypeInv, ExactInv, Drop
    PROVE  ExactInv'
<1>1. Fault /\ pc' = "idle" /\ UNCHANGED <<prefixIds, prefixNext>>
  BY DEF Drop, EndGroup
<1>2. pc # "prefill" \/ hit
  BY <1>1 DEF Fault, HarmlessSites
<1>3. \A s \in Slot : StandsFor(s)
  BY <1>2 DEF ExactInv, Backed
<1>4. "reset" \notin FaultSites /\ "snapshot" \notin FaultSites
  BY DEF HarmlessSites
<1>5. UNCHANGED <<snapKeys, snapRec>>
  BY <1>1, <1>4 DEF Fault, TornRestore, TornPrefill, TornStepBatch, stateVars
<1>6. \A s \in Slot : StandsFor(s)'
  BY <1>1, <1>3, <1>5, FaultKeeps, StandsKept
<1> QED BY <1>1, <1>6 DEF ExactInv, Backed, PrefillExactly, DecodeExactly, StepsCounted

LEMMA ExactStutter ==
    ASSUME ExactInv, UNCHANGED vars
    PROVE  ExactInv'
<1>1. UNCHANGED <<nKeys, rec, kv, snapKeys, snapRec, prefixIds, prefixNext, pc, group,
                  cur, done, limit, fed, fresh, next, ids, hit>>
  BY DEF vars, stateVars, locals
<1>2. /\ Live' = Live /\ Stepped' = Stepped
      /\ \A s \in Slot : Prompt(s)' = Prompt(s) /\ Said(s)' = Said(s)
  BY <1>1 DEF Live, Stepped, Prompt, Said
<1>3. Backed'
  BY <1>1 DEF ExactInv, Backed, StandsFor, RowsHold
<1>4. PrefillExactly'
  BY <1>1 DEF ExactInv, PrefillExactly, Live, Prompt, Holds, RowsHold
<1>5. DecodeExactly'
  BY <1>1 DEF ExactInv, DecodeExactly, Live, Prompt, Said, Holds, RowsHold
<1>6. StepsCounted'
  BY <1>1, <1>2 DEF ExactInv, StepsCounted
<1> QED BY <1>3, <1>4, <1>5, <1>6 DEF ExactInv

LEMMA ExactStep ==
    ASSUME Fits, FaultSites \subseteq HarmlessSites, TypeInv, ExactInv, [Next]_vars
    PROVE  ExactInv'
<1>1. CASE StartGroup
  BY <1>1, ExactStartGroup
<1>2. CASE \E s \in Members : Tokenize(s)
  BY <1>2, ExactTokenize
<1>3. CASE Resume
  BY <1>3, ExactResume
<1>4. CASE StartOver
  BY <1>4, ExactStartOver
<1>5. CASE \E s \in Members : PrefillRepeat(s) \/ PrefillStep(s)
  BY <1>5, ExactPrefillRepeat, ExactPrefillStep
<1>6. CASE CachePrompts
  BY <1>6, ExactCachePrompts
<1>7. CASE \E s \in Members : EmitStop(s) \/ EmitToken(s)
  BY <1>7, ExactEmit
<1>8. CASE DecodeStep
  BY <1>8, ExactDecodeStep
<1>9. CASE Deliver
  BY <1>9, ExactDeliver
<1>10. CASE Drop
  BY <1>10, ExactDrop
<1>11. CASE UNCHANGED vars
  BY <1>11, ExactStutter
<1> QED BY <1>1, <1>2, <1>3, <1>4, <1>5, <1>6, <1>7, <1>8, <1>9, <1>10, <1>11 DEF Next

\* The inductive invariant holds of every behaviour.
LEMMA ExactAlways ==
    ASSUME Fits, FaultSites \subseteq HarmlessSites
    PROVE  Spec => [](TypeInv /\ ExactInv)
<1>1. Init => TypeInv /\ ExactInv
  BY TypeInit, ExactInit
<1>2. TypeInv /\ ExactInv /\ [Next]_vars => (TypeInv /\ ExactInv)'
  BY TypeStep, ExactStep
<1> QED BY <1>1, <1>2, PTL DEF Spec

\* Between groups every cached prefix is backed by a state that has consumed
\* exactly that prefix: restore and re-use of run_group, whatever the slots did
\* since the snapshot, errors of HarmlessSites included.
THEOREM CacheStaysSound ==
    ASSUME Fits, FaultSites \subseteq HarmlessSites
    PROVE  Spec => []CacheSound
<1>1. TypeInv /\ ExactInv => CacheSound
  BY DEF ExactInv, Backed, CacheSound
<1> QED BY <1>1, ExactAlways, PTL

\* The token a live slot holds before its turn follows from the invariant.
LEMMA ExactAnswers ==
    ASSUME TypeInv, ExactInv
    PROVE  AnswersExact
<1> SUFFICES ASSUME pc = "decode", NEW s \in Live, s >= cur
             PROVE  next[s] = Greedy[Prompt(s) \o ids[s]]
  BY DEF AnswersExact
<1>1. s \in Slot
  BY DEF Live, TypeInv, Struct
<1>2. s \in Int /\ cur \in Int
  BY <1>1, SizeAssumption DEF TypeInv, TypeOK, Slot
<1>3. ~(s < cur)
  BY <1>2
<1> QED BY <1>3 DEF ExactInv, DecodeExactly, Said

\* Every token run_group is about to send is the greedy continuation of the
\* slot's own prompt and answer, however it was resumed, chunked and batched.
THEOREM AnswersStayExact ==
    ASSUME Fits, FaultSites \subseteq HarmlessSites
    PROVE  Spec => []AnswersExact
  BY ExactAnswers, ExactAlways, PTL

-----------------------------------------------------------------------------
(* Errors at every call *)

\* What an error elsewhere tore is not seen by a group that began with a reset.
HealInv == pc \in {"prefill", "decode"} /\ ~hit => ExactInv

LEMMA HealStep ==
    ASSUME Fits, TypeInv, HealInv, [Next]_vars
    PROVE  HealInv'
<1> SUFFICES ASSUME pc' \in {"prefill", "decode"}, ~hit'
             PROVE  ExactInv'
  BY DEF HealInv
<1>1. ASSUME StartGroup \/ (\E s \in Members : Tokenize(s)) \/ Deliver \/ Drop PROVE FALSE
  BY <1>1 DEF StartGroup, Tokenize, Deliver, Drop, EndGroup
<1>2. CASE Resume
  BY <1>2 DEF Resume
<1>3. CASE StartOver
  BY <1>3, ExactStartOver
<1>4. CASE \E s \in Members : PrefillRepeat(s) \/ PrefillStep(s)
  <2>1. pc = "prefill" /\ ~hit
    BY <1>4 DEF PrefillRepeat, PrefillStep
  <2> QED BY <1>4, <2>1, ExactPrefillRepeat, ExactPrefillStep DEF HealInv
<1>5. CASE CachePrompts
  <2>1. pc = "prefill" /\ ~hit
    BY <1>5 DEF CachePrompts
  <2> QED BY <1>5, <2>1, ExactCachePrompts DEF HealInv
<1>6. CASE \E s \in Members : EmitStop(s) \/ EmitToken(s)
  <2>1. pc = "decode" /\ ~hit
    BY <1>6 DEF EmitStop, EmitToken, EmitTurn
  <2> QED BY <1>6, <2>1, ExactEmit DEF HealInv
<1>7. CASE DecodeStep
  <2>1. pc = "decode" /\ ~hit
    BY <1>7 DEF DecodeStep
  <2> QED BY <1>7, <2>1, ExactDecodeStep DEF HealInv
<1>8. CASE UNCHANGED vars
  <2>1. pc' = pc /\ hit' = hit
    BY <1>8 DEF vars, locals
  <2> QED BY <1>8, <2>1, ExactStutter DEF HealInv
<1> QED BY <1>1, <1>2, <1>3, <1>4, <1>5, <1>6, <1>7, <1>8 DEF Next

\* Whatever errors struck before, at whichever calls, a group that run_group
\* began with a reset is answered exactly, and the cache it leaves is sound.
THEOREM ResetAlwaysHeals ==
    ASSUME Fits
    PROVE  Spec => []ResetHeals
<1>1. Init => TypeInv /\ HealInv
  <2>1. Init => pc = "idle"
    BY DEF Init
  <2> QED BY <2>1, TypeInit DEF HealInv
<1>2. TypeInv /\ HealInv /\ [Next]_vars => (TypeInv /\ HealInv)'
  BY TypeStep, HealStep
<1>3. TypeInv /\ HealInv => ResetHeals
  <2> SUFFICES ASSUME TypeInv, HealInv, pc = "decode", ~hit
               PROVE  AnswersExact /\ \A s \in Slot : StandsFor(s)
    BY DEF ResetHeals
  <2>1. ExactInv
    BY DEF HealInv
  <2> QED BY <2>1, ExactAnswers DEF ExactInv, Backed
<1> QED BY <1>1, <1>2, <1>3, PTL DEF Spec

-----------------------------------------------------------------------------
(* Engine implements GreedyServe, and no decode step stores into another slot *)

\* What the clients' view needs beside the exactness of the slots: which slots
\* of the group are refused, live or answered in which phase.
Accounted ==
    /\ pc = "idle" <=> outcome # "open"
    /\ pc # "idle" => \A s \in refused : s \in Members /\ TooLong(group[s])
    /\ pc = "tokenize" => /\ \A s \in refused : s < cur
                          /\ \A s \in Members : s < cur => s \in refused \/ s \in Live
    /\ pc \in {"resume", "prefill"} => \A s \in Members : s \in refused \/ s \in Live
    /\ pc = "decode" =>
          /\ \A s \in Members : \/ s \in refused
                                \/ s \in Live
                                \/ ~TooLong(group[s]) /\ Served!Answered(s)
          /\ \A s \in Live : s >= cur => ids[s] = << >> \/ Len(ids[s]) < limit[s]

ServeInv == TypeInv /\ ExactInv /\ Accounted

LEMMA QuotaIs ==
    ASSUME TypeInv, NEW s \in Live
    PROVE  /\ limit[s] \in Nat
           /\ Served!Quota(group[s]) = IF limit[s] = 0 THEN 1 ELSE limit[s]
<1>1. limit[s] = Min2(group[s].max, Ctx - Len(Prompt(s))) /\ limit[s] \in 0 .. Ctx
  BY DEF TypeInv, TypeOK, Struct, Live
<1> QED BY <1>1, SizeAssumption DEF Served!Quota, Min2, Prompt

\* The slot of the turn is not yet answered, and its next token is the one due.
LEMMA TurnDue ==
    ASSUME ServeInv, NEW s \in Members, EmitTurn(s)
    PROVE  /\ s \in Live /\ s \in Slot /\ pc = "decode" /\ ~TooLong(group[s])
           /\ next[s] = Served!NextOf(s) /\ next[s] \in Token
           /\ ids[s] \in Seq(Token) /\ Len(ids[s]) \in Nat
           /\ ids[s] = << >> \/ Len(ids[s]) < limit[s]
<1>1. /\ s \in Live /\ s \in Slot /\ pc = "decode" /\ s >= cur /\ ~TooLong(group[s])
      /\ s \in Members /\ ids[s] \in Seq(Token)
  BY LiveFacts DEF ServeInv, EmitTurn, TypeInv, TypeOK
<1>2. ~(s < cur)
  BY <1>1, SizeAssumption DEF Slot, ServeInv, TypeInv, TypeOK
<1>3. next[s] = Greedy[Said(s)]
  BY <1>1, <1>2 DEF ServeInv, ExactInv, DecodeExactly
<1>4. next[s] = Served!NextOf(s)
  BY <1>3 DEF Said, Prompt, Served!NextOf
<1>5. next[s] \in Token
  BY <1>1 DEF ServeInv, TypeInv, Struct
<1> QED BY <1>1, <1>4, <1>5 DEF ServeInv, Accounted

(* Steps map to steps *)

LEMMA MapsInit == Init => Served!Init
BY DEF Init, Served!Init, Slot

LEMMA MapsStartGroup ==
    ASSUME ServeInv, StartGroup
    PROVE  Served!Accept
BY DEF ServeInv, Accounted, StartGroup, Served!Accept, Slot

LEMMA MapsTokenize ==
    ASSUME ServeInv, NEW s \in Members, Tokenize(s)
    PROVE  Served!Refuse(s) \/ UNCHANGED Served!vars
<1>1. pc = "tokenize" /\ cur = s /\ outcome = "open" /\ s \notin refused
  <2>1. s \in Int
    BY GroupFacts, SizeAssumption DEF ServeInv, TypeInv, Slot
  <2> QED BY <2>1 DEF Tokenize, ServeInv, Accounted
<1>2. CASE TooLong(group[s])
  BY <1>1, <1>2 DEF Tokenize, Served!Refuse, TooLong, Served!TooLong
<1>3. CASE ~TooLong(group[s])
  BY <1>3 DEF Tokenize, Served!vars
<1> QED BY <1>2, <1>3

LEMMA MapsEmitToken ==
    ASSUME ServeInv, NEW s \in Members, EmitToken(s)
    PROVE  Served!Emit(s)
<1>1. /\ s \in Live /\ pc = "decode" /\ ~TooLong(group[s])
      /\ next[s] = Served!NextOf(s) /\ Len(ids[s]) \in Nat
      /\ ids[s] = << >> \/ Len(ids[s]) < limit[s]
  BY TurnDue DEF EmitToken
<1>2. ~Served!Answered(s)
  <2>1. Len(ids[s]) # Served!Quota(group[s])
    BY <1>1, QuotaIs DEF ServeInv
  <2> QED BY <1>1, <2>1 DEF EmitToken, Served!Answered
<1> QED BY <1>1, <1>2 DEF EmitToken, Served!Emit, ServeInv, Accounted, TooLong, Served!TooLong

LEMMA MapsDeliver ==
    ASSUME ServeInv, Deliver
    PROVE  Served!Deliver
BY DEF ServeInv, Accounted, Deliver, EndGroup, Served!Deliver, Members, TooLong, Served!TooLong

LEMMA MapsDrop ==
    ASSUME ServeInv, Drop
    PROVE  Served!Drop
<1>1. pc # "idle" /\ FaultSites # {}
  BY DEF Drop, Fault
<1> QED BY <1>1 DEF ServeInv, Accounted, Drop, EndGroup, Served!Drop

\* Every step of run_group is a step of GreedyServe or not seen by the clients.
LEMMA MapsStep ==
    ASSUME ServeInv, [Next]_vars
    PROVE  [Served!Next]_(Served!vars)
<1>1. CASE StartGroup
  BY <1>1, MapsStartGroup DEF Served!Next
<1>2. CASE \E s \in Members : Tokenize(s)
  BY <1>2, MapsTokenize DEF Served!Next, Members
<1>3. CASE \E s \in Members : EmitToken(s)
  BY <1>3, MapsEmitToken DEF Served!Next, Members
<1>4. CASE Deliver
  BY <1>4, MapsDeliver DEF Served!Next
<1>5. CASE Drop
  BY <1>5, MapsDrop DEF Served!Next
<1>6. CASE \/ Resume \/ StartOver \/ CachePrompts \/ DecodeStep
           \/ \E s \in Members : PrefillRepeat(s) \/ PrefillStep(s) \/ EmitStop(s)
           \/ UNCHANGED vars
  BY <1>6 DEF Resume, StartOver, CachePrompts, DecodeStep, PrefillRepeat, PrefillStep,
              EmitStop, vars, locals, Served!vars
<1> QED BY <1>1, <1>2, <1>3, <1>4, <1>5, <1>6 DEF Next

(* The invariant *)

LEMMA AccountedInit == Init => Accounted
BY DEF Init, Accounted, Live

LEMMA AccountedTokenize ==
    ASSUME ServeInv, NEW s \in Members, Tokenize(s)
    PROVE  Accounted'
<1>1. /\ pc = "tokenize" /\ cur = s /\ s \in Slot /\ s \in Int /\ Members \subseteq Slot
      /\ \A u \in Slot : u \in Int
      /\ group' = group /\ outcome' = outcome /\ ids' = ids
      /\ done \in [Slot -> BOOLEAN]
  <2>1. Members \subseteq Slot /\ \A u \in Slot : u \in Int
    BY GroupFacts, SizeAssumption DEF ServeInv, TypeInv, Slot
  <2>2. pc = "tokenize" /\ cur = s /\ UNCHANGED <<group, outcome, ids>>
    BY DEF Tokenize
  <2>3. done \in [Slot -> BOOLEAN]
    BY DEF ServeInv, TypeInv, TypeOK
  <2> QED BY <2>1, <2>2, <2>3
<1>2. /\ outcome = "open"
      /\ \A u \in refused : u \in Members /\ TooLong(group[u]) /\ u < s
      /\ \A u \in Members : u < s => u \in refused \/ u \in Live
  BY <1>1 DEF ServeInv, Accounted
<1>3. /\ refused \subseteq refused' /\ Live \subseteq Live'
      /\ s \in refused' \/ s \in Live'
      /\ \A u \in refused' : u \in refused \/ (u = s /\ TooLong(group[s]))
  <2>1. CASE TooLong(group[s])
    BY <1>1, <2>1 DEF Tokenize, Live
  <2>2. CASE ~TooLong(group[s])
    <3>1. done' = [done EXCEPT ![s] = FALSE] /\ refused' = refused
      BY <2>2 DEF Tokenize
    <3> QED BY <1>1, <3>1 DEF Live
  <2> QED BY <2>1, <2>2
<1>4. \A u \in refused' : u \in Members /\ TooLong(group[u]) /\ u < s + 1
  <2> SUFFICES ASSUME NEW u \in refused'
               PROVE  u \in Members /\ TooLong(group[u]) /\ u < s + 1
    OBVIOUS
  <2>1. u \in Members /\ TooLong(group[u]) /\ (u < s \/ u = s)
    BY <1>2, <1>3
  <2>2. u \in Int
    BY <1>1, <2>1
  <2> QED BY <1>1, <2>1, <2>2
<1>5. \A u \in Members : u < s + 1 => u \in refused' \/ u \in Live'
  BY <1>1, <1>2, <1>3
<1>6. CASE s + 1 \in Members
  <2>1. pc' = "tokenize" /\ cur' = s + 1
    BY <1>6 DEF Tokenize
  <2> QED BY <1>1, <1>2, <1>4, <1>5, <2>1 DEF Accounted, Members, TooLong
<1>7. CASE s + 1 \notin Members
  <2>1. pc' = "resume"
    BY <1>7 DEF Tokenize
  <2>2. \A u \in Members : u < s + 1
    <3>1. CASE group = << >>
      BY <1>1, <3>1 DEF Members
    <3>2. CASE group # << >>
      <4>1. PICK k \in 1 .. NSeq : group \in [0 .. k - 1 -> Requests]
        BY <3>2 DEF ServeInv, TypeInv, TypeOK
      <4>2. Members = 0 .. k - 1 /\ k \in Int
        BY <4>1, SizeAssumption DEF Members
      <4>3. s \in 0 .. k - 1 /\ s + 1 \notin 0 .. k - 1
        BY <1>7, <4>2
      <4> QED BY <4>2, <4>3
    <3> QED BY <3>1, <3>2
  <2> QED BY <1>1, <1>2, <1>4, <1>5, <2>1, <2>2 DEF Accounted, Members, TooLong
<1> QED BY <1>6, <1>7

LEMMA AccountedEmit ==
    ASSUME ServeInv, NEW s \in Members, EmitStop(s) \/ EmitToken(s)
    PROVE  Accounted'
<1>1. /\ s \in Live /\ s \in Slot /\ pc = "decode" /\ pc' = pc /\ ~TooLong(group[s])
      /\ next[s] = Served!NextOf(s) /\ ids[s] \in Seq(Token) /\ Len(ids[s]) \in Nat
      /\ ids[s] = << >> \/ Len(ids[s]) < limit[s]
      /\ s >= cur /\ cur' = s + 1
      /\ \A u \in Live : u >= cur => s <= u
      /\ UNCHANGED <<group, refused, outcome, limit>>
  BY TurnDue DEF EmitStop, EmitToken, EmitTurn
<1>2. /\ done \in [Slot -> BOOLEAN] /\ DOMAIN ids = Slot /\ cur \in Int /\ s \in Int
      /\ \A u \in Slot : u \in Int
      /\ Members \subseteq Slot /\ Live \subseteq Slot
  <2>1. Members \subseteq Slot /\ Live \subseteq Slot /\ \A u \in Slot : u \in Int
    BY GroupFacts, SizeAssumption DEF ServeInv, TypeInv, Slot, Live
  <2>2. done \in [Slot -> BOOLEAN] /\ DOMAIN ids = Slot /\ cur \in Int
    BY SizeAssumption DEF ServeInv, TypeInv, TypeOK
  <2> QED BY <1>1, <2>1, <2>2
<1>3. \A u \in Slot : u # s => done'[u] = done[u] /\ ids'[u] = ids[u]
  BY <1>1, <1>2 DEF EmitStop, EmitToken
<1>4. s \notin Live' => Served!Answered(s)'
  <2>1. CASE EmitStop(s)
    <3>1. Served!NextOf(s)' = Served!NextOf(s)
      BY <1>1, <2>1 DEF EmitStop, Served!NextOf
    <3>2. Served!NextOf(s) \in EosTokens
      BY <1>1, <2>1 DEF EmitStop
    <3> QED BY <3>1, <3>2 DEF Served!Answered
  <2>2. CASE EmitToken(s)
    <3> SUFFICES ASSUME s \notin Live' PROVE Served!Answered(s)'
      OBVIOUS
    <3>1. ids'[s] = Append(ids[s], next[s]) /\ done'[s] = (Len(ids[s]) + 1 >= limit[s])
      BY <1>1, <1>2, <2>2 DEF EmitToken
    <3>2. Len(ids[s]) + 1 >= limit[s]
      BY <1>1, <3>1 DEF Live
    <3>3. Len(ids'[s]) = Len(ids[s]) + 1
      BY <1>1, <3>1, TurnDue, <2>2 DEF EmitToken
    <3>4. Len(ids'[s]) = Served!Quota(group[s])
      BY <1>1, <3>2, <3>3, QuotaIs DEF ServeInv
    <3>5. Served!Quota(group[s])' = Served!Quota(group[s])
      BY <1>1 DEF Served!Quota
    <3> QED BY <3>4, <3>5 DEF Served!Answered
  <2> QED BY <2>1, <2>2
<1>5. ASSUME NEW u \in Members, u # s, Served!Answered(u)
      PROVE  Served!Answered(u)'
  BY <1>1, <1>2, <1>3, <1>5 DEF Served!Answered, Served!Quota, Served!NextOf
<1>6. ASSUME NEW u \in Members
      PROVE  \/ u \in refused' \/ u \in Live'
             \/ ~TooLong(group'[u]) /\ Served!Answered(u)'
  <2>1. CASE u = s
    BY <1>1, <1>4, <2>1
  <2>2. CASE u # s
    <3>1. u \in Live => u \in Live'
      BY <1>2, <1>3, <2>2 DEF Live
    <3> QED BY <1>1, <1>5, <2>2, <3>1 DEF ServeInv, Accounted
  <2> QED BY <2>1, <2>2
<1>7. ASSUME NEW u \in Live', u >= cur'
      PROVE  ids'[u] = << >> \/ Len(ids'[u]) < limit'[u]
  <2>1. u # s /\ u \in Slot /\ u >= cur
    BY <1>1, <1>2, <1>7 DEF Live
  <2>2. u \in Live /\ ids'[u] = ids[u]
    BY <1>3, <2>1 DEF Live
  <2> QED BY <1>1, <2>1, <2>2 DEF ServeInv, Accounted
<1> QED BY <1>1, <1>6, <1>7 DEF ServeInv, Accounted, Members, TooLong

LEMMA AccountedDecodeStep ==
    ASSUME ServeInv, DecodeStep
    PROVE  Accounted'
<1>1. /\ pc = "decode" /\ RoundOver
      /\ UNCHANGED <<pc, group, ids, done, limit, refused, outcome>>
      /\ Live' = Live
  BY DEF DecodeStep, Live
<1>2. \A s \in Live : Len(ids[s]) < limit[s]
  BY <1>1 DEF RoundOver, ServeInv, ExactInv, StepsCounted
<1>3. ASSUME NEW s \in Members, Served!Answered(s)
      PROVE  Served!Answered(s)'
  BY <1>1, <1>3 DEF Served!Answered, Served!Quota, Served!NextOf
<1> QED BY <1>1, <1>2, <1>3 DEF ServeInv, Accounted, Members, TooLong

LEMMA AccountedStep ==
    ASSUME ServeInv, [Next]_vars
    PROVE  Accounted'
<1>1. CASE StartGroup
  BY <1>1 DEF ServeInv, TypeInv, Struct, StartGroup, Accounted, Live, Members
<1>2. CASE \E s \in Members : Tokenize(s)
  BY <1>2, AccountedTokenize
<1>3. CASE Resume \/ StartOver
  BY <1>3 DEF ServeInv, Resume, StartOver, Accounted, Live, Members, TooLong
<1>4. CASE \E s \in Members : PrefillRepeat(s) \/ PrefillStep(s)
  BY <1>4 DEF ServeInv, PrefillRepeat, PrefillStep, Accounted, Live, Members, TooLong
<1>5. CASE CachePrompts
  <2>1. \A s \in Slot : ids'[s] = << >>
    BY <1>5 DEF CachePrompts, ServeInv, TypeInv, Struct
  <2> QED BY <1>5, <2>1 DEF ServeInv, CachePrompts, Accounted, Live, Members, TooLong
<1>6. CASE \E s \in Members : EmitStop(s) \/ EmitToken(s)
  BY <1>6, AccountedEmit
<1>7. CASE DecodeStep
  BY <1>7, AccountedDecodeStep
<1>8. CASE Deliver \/ Drop
  BY <1>8 DEF Deliver, Drop, EndGroup, Accounted
<1>9. CASE UNCHANGED vars
  <2>1. UNCHANGED <<pc, group, ids, done, limit, refused, outcome, cur>>
    BY <1>9 DEF vars, locals
  <2>2. Live' = Live /\ Members' = Members
    BY <2>1 DEF Live, Members
  <2>3. ASSUME NEW s \in Members, Served!Answered(s)
        PROVE  Served!Answered(s)'
    BY <2>1, <2>3 DEF Served!Answered, Served!Quota, Served!NextOf
  <2> QED BY <2>1, <2>2, <2>3 DEF ServeInv, Accounted, TooLong
<1> QED BY <1>1, <1>2, <1>3, <1>4, <1>5, <1>6, <1>7, <1>8, <1>9 DEF Next

LEMMA ServeAlways ==
    ASSUME Fits, FaultSites \subseteq HarmlessSites
    PROVE  Spec => []ServeInv
<1>1. Init => ServeInv
  BY TypeInit, ExactInit, AccountedInit DEF ServeInv
<1>2. ServeInv /\ [Next]_vars => ServeInv'
  BY TypeStep, ExactStep, AccountedStep DEF ServeInv
<1> QED BY <1>1, <1>2, PTL DEF Spec

\* The engine implements what it promises: run_group, with its cache, chunks
\* and batched steps, answers each request as if it were served by itself.
THEOREM ImplementsGreedyServe ==
    ASSUME Fits, FaultSites \subseteq HarmlessSites
    PROVE  Spec => ServesGreedily
<1>1. ServeInv /\ [Next]_vars => [Served!Next]_(Served!vars)
  BY MapsStep
<1> QED BY <1>1, MapsInit, ServeAlways, PTL DEF Spec, ServesGreedily, Served!Spec

\* No decode step stores outside the row at its own slot's position: the claim
\* made for `limit` in run_group, which needs Fits for the slots that are done.
THEOREM DecodeStaysInOwnRows ==
    ASSUME Fits, FaultSites \subseteq HarmlessSites
    PROVE  Spec => OwnRowsOnly
<1>1. TypeInv /\ ExactInv /\ [Next]_vars =>
        [pc = "decode" => \A d \in KvRow : kv'[d] # kv[d] => d[2] = nKeys[d[1]]]_vars
  <2> SUFFICES ASSUME TypeInv, ExactInv, [Next]_vars, pc = "decode", ~UNCHANGED vars,
                      NEW d \in KvRow, kv'[d] # kv[d]
               PROVE  d[2] = nKeys[d[1]]
    OBVIOUS
  <2>1. PICK u \in Slot, i \in Row : d = <<u, i>>
    BY DEF KvRow
  <2>2. CASE DecodeStep
    <3>1. \E o \in [Members -> Token] : StepBatch(Members, next, o)
      BY <2>2 DEF DecodeStep
    <3>2. \A s \in Slot : nKeys[s] \in Row
      BY <2>2, AllInWindow DEF DecodeStep
    <3>3. i = nKeys[u]
      BY <2>1, <3>1, <3>2, StepRows
    <3> QED BY <2>1, <3>3
  <2>3. CASE Drop
    <3>1. CASE RoundOver /\ Live # {} /\ TornStepBatch(Members, next)
      <4>1. \A s \in Slot : nKeys[s] \in Row
        BY <3>1, AllInWindow
      <4>2. PICK s \in Slot : Offset(d, s) = nKeys[s]
        BY <3>1 DEF TornStepBatch
      <4>3. d = <<s, nKeys[s]>>
        BY <4>1, <4>2, OffsetInWindow
      <4> QED BY <4>3
    <3> QED BY <2>3, <3>1 DEF Drop, Fault, stateVars
  <2> QED BY <2>2, <2>3 DEF Next, StartGroup, Tokenize, Resume, StartOver, PrefillRepeat,
             PrefillStep, CachePrompts, EmitStop, EmitToken, EmitTurn, Deliver, stateVars
<1> QED BY <1>1, ExactAlways, PTL DEF Spec, OwnRowsOnly
=============================================================================
