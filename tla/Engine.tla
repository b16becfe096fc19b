------------------------------- MODULE Engine -------------------------------
(***************************************************************************)
(* The serving engine of gb10-server: run_group, on the scheduler thread,  *)
(* serves a group of up to NSeq requests in the slots of one ModelState    *)
(* and keeps a prefix cache across groups.  A cached prefix is the state   *)
(* snapshot taken when the previous group had consumed its prompts, plus   *)
(* the KV rows below it, which nothing protects.                           *)
(*                                                                         *)
(* Slot arrays of the code have the group's length k; here they range over *)
(* all slots, and a slot outside the group is done from the start.         *)
(***************************************************************************)
EXTENDS ModelState

CONSTANTS
    Requests,       \* the requests clients may send: [prompt, max] records
    EosTokens,      \* tokens Tokenizer::is_eos accepts
    PrefillChunk,   \* PREFILL_CHUNK
    NoPrefixCache,  \* GB10_NO_PREFIX_CACHE
    FaultSites,     \* the calls that may return an error
    MaxFaults,      \* how many errors a behaviour has: a bound of the model
    None            \* Option::None

ASSUME RequestAssumption ==
    \A r \in Requests : /\ r.prompt \in UNION {[1 .. n -> Token] : n \in 0 .. Ctx + 1}
                        /\ r.max \in Nat

ASSUME EngineAssumption ==
    /\ EosTokens \subseteq Token
    /\ PrefillChunk \in Nat \ {0}
    /\ NoPrefixCache \in BOOLEAN
    /\ None \notin Token

\* The calls of run_group whose error ends the group: a prefill is told by
\* whether it follows a restore or a reset.
Sites == {"render", "restore", "reset", "prefill_resumed", "prefill_reset",
          "snapshot", "detokenize", "step"}

ASSUME FaultAssumption == FaultSites \subseteq Sites /\ MaxFaults \in Nat

VARIABLES
    prefixIds,   \* Engine::prefix_ids: per slot, the tokens the snapshot stands for
    prefixNext,  \* Engine::prefix_next: the token that follows them
    pc,          \* where run_group is; "idle" between groups
    group,       \* slot -> request, its domain being the group's slots
    cur,         \* loop counter of the per-slot loops
    refused,     \* the slots that were sent Msg::Fail
    done, limit, fed, fresh, next, ids, finish,  \* locals of run_group, per slot
    hit,         \* all_hit
    outcome,     \* how the last group ended, "open" while one is served
    faults       \* the errors so far

locals == <<cur, refused, done, limit, fed, fresh, next, ids, finish, hit>>
vars == <<stateVars, prefixIds, prefixNext, pc, group, locals, outcome, faults>>

Phases == {"idle", "tokenize", "resume", "prefill", "decode"}

TypeOK ==
    /\ StateTypeOK
    /\ prefixIds \in [Slot -> Context]
    /\ prefixNext \in [Slot -> Token \union {None}]
    /\ pc \in Phases
    /\ group = << >> \/ \E k \in 1 .. NSeq : group \in [0 .. k - 1 -> Requests]
    /\ pc # "idle" => group # << >>
    /\ cur \in 0 .. NSeq
    /\ refused \subseteq Slot
    /\ done \in [Slot -> BOOLEAN]
    /\ limit \in [Slot -> 0 .. Ctx]
    /\ fed \in [Slot -> 0 .. Ctx]
    /\ fresh \in [Slot -> Token \union {None}]
    /\ next \in [Slot -> Token \union {None}]
    /\ \A s \in Slot : ids[s] \in Seq(Token)
    /\ DOMAIN ids = Slot
    /\ finish \in [Slot -> {"length", "stop"}]
    /\ hit \in BOOLEAN
    /\ outcome \in {"open", "delivered", "dropped"}
    /\ faults \in 0 .. MaxFaults

Members == DOMAIN group
Prompt(s) == group[s].prompt
Live == {s \in Slot : ~done[s]}

\* Engine::new, and the locals as run_group declares them.
Init ==
    /\ StateInit
    /\ prefixIds = [s \in Slot |-> << >>]
    /\ prefixNext = [s \in Slot |-> None]
    /\ pc = "idle"
    /\ group = << >>
    /\ cur = 0
    /\ refused = {}
    /\ done = [s \in Slot |-> TRUE]
    /\ limit = [s \in Slot |-> 0]
    /\ fed = [s \in Slot |-> 0]
    /\ fresh = [s \in Slot |-> None]
    /\ next = [s \in Slot |-> None]
    /\ ids = [s \in Slot |-> << >>]
    /\ finish = [s \in Slot |-> "length"]
    /\ hit = FALSE
    /\ outcome = "delivered"
    /\ faults = 0

-----------------------------------------------------------------------------
\* The group ends, with its locals.
EndGroup(how) ==
    /\ outcome' = how
    /\ pc' = "idle"
    /\ cur' = 0
    /\ done' = [s \in Slot |-> TRUE]
    /\ limit' = [s \in Slot |-> 0]
    /\ fed' = [s \in Slot |-> 0]
    /\ fresh' = [s \in Slot |-> None]
    /\ next' = [s \in Slot |-> None]
    /\ finish' = [s \in Slot |-> "length"]
    /\ hit' = FALSE
    /\ UNCHANGED <<prefixIds, prefixNext, group, refused, ids>>

\* The scheduler hands over a group: between one job and NSeq.
StartGroup ==
    /\ pc = "idle"
    /\ \E k \in 1 .. NSeq : group' \in [0 .. k - 1 -> Requests]
    /\ pc' = "tokenize"
    /\ outcome' = "open"
    /\ refused' = {}
    /\ ids' = [s \in Slot |-> << >>]
    /\ UNCHANGED <<stateVars, prefixIds, prefixNext, cur, done, limit, fed, fresh,
                   next, finish, hit, faults>>

\* A build that refuses no prompt for its length.
TooLongNever(r) == r.prompt = << >>

TooLong(r) == r.prompt = << >> \/ Len(r.prompt) + 1 > Ctx

Min2(a, b) == IF a < b THEN a ELSE b

\* A build without the second term of the cap.
TokenizeUncapped(s) ==
    /\ pc = "tokenize"
    /\ cur = s
    /\ IF TooLong(group[s])
       THEN /\ refused' = refused \union {s}
            /\ UNCHANGED <<done, limit>>
       ELSE /\ done' = [done EXCEPT ![s] = FALSE]
            /\ limit' = [limit EXCEPT ![s] = group[s].max]
            /\ UNCHANGED refused
    /\ cur' = IF s + 1 \in Members THEN s + 1 ELSE 0
    /\ pc' = IF s + 1 \in Members THEN "tokenize" ELSE "resume"
    /\ UNCHANGED <<stateVars, prefixIds, prefixNext, group, fed, fresh, next, ids,
                   finish, hit, outcome, faults>>

\* One turn of the tokenize loop: refuse the prompt, or take the slot into use.
Tokenize(s) ==
    /\ pc = "tokenize"
    /\ cur = s
    /\ IF TooLong(group[s])
       THEN /\ refused' = refused \union {s}
            /\ UNCHANGED <<done, limit>>
       ELSE /\ done' = [done EXCEPT ![s] = FALSE]
            /\ limit' = [limit EXCEPT ![s] = Min2(group[s].max, Ctx - Len(Prompt(s)))]
            /\ UNCHANGED refused
    /\ cur' = IF s + 1 \in Members THEN s + 1 ELSE 0
    /\ pc' = IF s + 1 \in Members THEN "tokenize" ELSE "resume"
    /\ UNCHANGED <<stateVars, prefixIds, prefixNext, group, fed, fresh, next, ids,
                   finish, hit, outcome, faults>>

StartsWith(p, q) == Len(q) <= Len(p) /\ Prefix(p, Len(q)) = q

\* A build that compares lengths only.
ResumableByLength(s) ==
    /\ prefixIds[s] = << >> \/ prefixNext[s] # None
    /\ Len(prefixIds[s]) <= Len(Prompt(s))

\* A live slot can go on from what the snapshot holds for it.
Resumable(s) ==
    /\ prefixIds[s] = << >> \/ prefixNext[s] # None
    /\ StartsWith(Prompt(s), prefixIds[s])

AllHit == ~NoPrefixCache /\ \A s \in Live : Resumable(s)

\* A build that records the prompts before they are prefilled.
ResumeRecordsEarly ==
    /\ pc = "resume"
    /\ AllHit
    /\ RestoreRecurrent
    /\ fed' = [s \in Slot |-> IF s \in Live THEN Len(prefixIds[s]) ELSE 0]
    /\ hit' = TRUE
    /\ pc' = "prefill"
    /\ prefixIds' = [s \in Slot |-> IF s \in Live THEN Prompt(s) ELSE prefixIds[s]]
    /\ UNCHANGED <<prefixNext, group, cur, refused, done, limit, fresh, next, ids,
                   finish, outcome, faults>>

\* Every live slot resumes from the snapshot.
Resume ==
    /\ pc = "resume"
    /\ AllHit
    /\ RestoreRecurrent
    /\ fed' = [s \in Slot |-> IF s \in Live THEN Len(prefixIds[s]) ELSE 0]
    /\ hit' = TRUE
    /\ pc' = "prefill"
    /\ UNCHANGED <<prefixIds, prefixNext, group, cur, refused, done, limit, fresh,
                   next, ids, finish, outcome, faults>>

\* A build that resets the state and keeps the recorded prefixes.
StartOverKeepsPrefixes ==
    /\ pc = "resume"
    /\ ~AllHit
    /\ Reset
    /\ fed' = [s \in Slot |-> 0]
    /\ pc' = "prefill"
    /\ UNCHANGED <<prefixIds, prefixNext, group, cur, refused, done, limit, fresh,
                   next, ids, finish, hit, outcome, faults>>

\* One miss: everything is dropped, the snapshot excepted.
StartOver ==
    /\ pc = "resume"
    /\ ~AllHit
    /\ Reset
    /\ prefixIds' = [s \in Slot |-> << >>]
    /\ prefixNext' = [s \in Slot |-> None]
    /\ fed' = [s \in Slot |-> 0]
    /\ pc' = "prefill"
    /\ UNCHANGED <<group, cur, refused, done, limit, fresh, next, ids, finish, hit,
                   outcome, faults>>

\* The slot whose turn it is in the prefill loop: the first without its next token.
Pending == {s \in Live : fresh[s] = None}
PrefillTurn(s) == s \in Pending /\ \A u \in Pending : s <= u

\* An exact repeat of a cached prompt needs no forward pass.
PrefillRepeat(s) ==
    /\ pc = "prefill"
    /\ PrefillTurn(s)
    /\ fed[s] = Len(Prompt(s))
    /\ fresh' = [fresh EXCEPT ![s] = prefixNext[s]]
    /\ UNCHANGED <<stateVars, prefixIds, prefixNext, pc, group, cur, refused, done,
                   limit, fed, next, ids, finish, hit, outcome, faults>>

ChunkEnd(s) == Min2(fed[s] + PrefillChunk, Len(Prompt(s)))
Chunk(s) == SubSeq(Prompt(s), fed[s] + 1, ChunkEnd(s))

\* A build that takes the next token only from a chunk that is not full.
PrefillStepShort(s) ==
    /\ pc = "prefill"
    /\ PrefillTurn(s)
    /\ fed[s] < Len(Prompt(s))
    /\ \E nx \in Token :
        /\ PrefillSeq(s, Chunk(s), nx)
        /\ fresh' = IF Len(Chunk(s)) < PrefillChunk THEN [fresh EXCEPT ![s] = nx]
                                                    ELSE fresh
    /\ fed' = [fed EXCEPT ![s] = ChunkEnd(s)]
    /\ UNCHANGED <<prefixIds, prefixNext, pc, group, cur, refused, done, limit, next,
                   ids, finish, hit, outcome, faults>>

\* One chunk of the part of the prompt the snapshot does not cover; the token
\* of the last one is the slot's next.
PrefillStep(s) ==
    /\ pc = "prefill"
    /\ PrefillTurn(s)
    /\ fed[s] < Len(Prompt(s))
    /\ \E nx \in Token :
        /\ PrefillSeq(s, Chunk(s), nx)
        /\ fresh' = IF ChunkEnd(s) = Len(Prompt(s)) THEN [fresh EXCEPT ![s] = nx]
                                                    ELSE fresh
    /\ fed' = [fed EXCEPT ![s] = ChunkEnd(s)]
    /\ UNCHANGED <<prefixIds, prefixNext, pc, group, cur, refused, done, limit, next,
                   ids, finish, hit, outcome, faults>>

\* All prompts are in: snapshot, and record what it stands for.
CachePrompts ==
    /\ pc = "prefill"
    /\ Pending = {}
    /\ SnapshotRecurrent
    /\ prefixIds' = [s \in Slot |-> IF s \in Live THEN Prompt(s) ELSE prefixIds[s]]
    /\ prefixNext' = [s \in Slot |-> IF s \in Live THEN fresh[s] ELSE prefixNext[s]]
    /\ next' = [s \in Slot |->
                    IF s \in Live THEN fresh[s]
                    ELSE IF s \in Members THEN CHOOSE t \in Token : TRUE ELSE None]
    /\ pc' = "decode"
    /\ UNCHANGED <<group, cur, refused, done, limit, fed, fresh, ids, finish, hit,
                   outcome, faults>>

-----------------------------------------------------------------------------
EmitTurn(s) ==
    /\ pc = "decode"
    /\ s \in Live
    /\ s >= cur
    /\ \A u \in Live : u >= cur => s <= u

\* One turn of the emit loop: an end of sequence is not sent, it ends the answer.
EmitStop(s) ==
    /\ EmitTurn(s)
    /\ next[s] \in EosTokens
    /\ done' = [done EXCEPT ![s] = TRUE]
    /\ finish' = [finish EXCEPT ![s] = "stop"]
    /\ cur' = s + 1
    /\ UNCHANGED <<stateVars, prefixIds, prefixNext, pc, group, refused, limit, fed,
                   fresh, next, ids, hit, outcome, faults>>

\* A build that compares the limit one token late.
EmitPastLimit(s) ==
    /\ EmitTurn(s)
    /\ next[s] \notin EosTokens
    /\ ids' = [ids EXCEPT ![s] = Append(@, next[s])]
    /\ done' = [done EXCEPT ![s] = Len(ids[s]) + 1 > limit[s]]
    /\ cur' = s + 1
    /\ UNCHANGED <<stateVars, prefixIds, prefixNext, pc, group, refused, limit, fed,
                   fresh, next, finish, hit, outcome, faults>>

\* Otherwise the token is sent; the answer ends at the limit.
EmitToken(s) ==
    /\ EmitTurn(s)
    /\ next[s] \notin EosTokens
    /\ ids' = [ids EXCEPT ![s] = Append(@, next[s])]
    /\ done' = [done EXCEPT ![s] = Len(ids[s]) + 1 >= limit[s]]
    /\ cur' = s + 1
    /\ UNCHANGED <<stateVars, prefixIds, prefixNext, pc, group, refused, limit, fed,
                   fresh, next, finish, hit, outcome, faults>>

RoundOver == \A s \in Live : s < cur

\* One batched step over all slots of the group, the done ones included.
DecodeStep ==
    /\ pc = "decode"
    /\ RoundOver
    /\ Live # {}
    /\ \E out \in [Members -> Token] :
        /\ StepBatch(Members, next, out)
        /\ next' = [s \in Slot |-> IF s \in Members THEN out[s] ELSE None]
    /\ cur' = 0
    /\ UNCHANGED <<prefixIds, prefixNext, pc, group, refused, done, limit, fed, fresh,
                   ids, finish, hit, outcome, faults>>

\* Msg::Done to every job of the group.
Deliver ==
    /\ pc = "decode"
    /\ Live = {}
    /\ EndGroup("delivered")
    /\ UNCHANGED <<stateVars, faults>>

-----------------------------------------------------------------------------
\* A call returns an error and `?` leaves run_group: the group is lost, the
\* engine goes on with whatever state the call left.
Fault ==
    \/ /\ pc = "tokenize" /\ "render" \in FaultSites
       /\ UNCHANGED stateVars
    \/ /\ pc = "resume" /\ AllHit /\ "restore" \in FaultSites
       /\ TornRestore
    \/ /\ pc = "resume" /\ ~AllHit /\ "reset" \in FaultSites
       /\ TornReset
    \/ /\ pc = "prefill"
       /\ (IF hit THEN "prefill_resumed" ELSE "prefill_reset") \in FaultSites
       /\ \E s \in Slot : /\ PrefillTurn(s)
                          /\ fed[s] < Len(Prompt(s))
                          /\ TornPrefill(s, Chunk(s))
    \/ /\ pc = "prefill" /\ Pending = {} /\ "snapshot" \in FaultSites
       /\ TornSnapshot
    \/ /\ pc = "decode" /\ ~RoundOver /\ "detokenize" \in FaultSites
       /\ UNCHANGED stateVars
    \/ /\ pc = "decode" /\ RoundOver /\ Live # {} /\ "step" \in FaultSites
       /\ TornStepBatch(Members, next)

Drop ==
    /\ faults < MaxFaults
    /\ faults' = faults + 1
    /\ Fault
    /\ EndGroup("dropped")

Next ==
    \/ StartGroup
    \/ \E s \in Members : Tokenize(s)
    \/ Resume
    \/ StartOver
    \/ \E s \in Members : PrefillRepeat(s) \/ PrefillStep(s)
    \/ CachePrompts
    \/ \E s \in Members : EmitStop(s) \/ EmitToken(s)
    \/ DecodeStep
    \/ Deliver
    \/ Drop

Spec == Init /\ [][Next]_vars

\* The scheduler thread does not stop inside run_group.
Running == pc # "idle" /\ Next
FairSpec == Spec /\ WF_vars(Running)

-----------------------------------------------------------------------------
(* Properties *)

\* The snapshot of slot s, with the rows below it, is the state of prefixIds[s].
StandsFor(s) ==
    /\ snapRec[s] = prefixIds[s]
    /\ snapKeys[s] = Len(prefixIds[s])
    /\ RowsHold(kv, s, prefixIds[s])
    /\ prefixIds[s] # << >> => prefixNext[s] = Greedy[prefixIds[s]]

\* Between groups a prefix the next group may resume from is backed by a state
\* that has consumed exactly that prefix, whatever the slots did since the
\* snapshot: decode on, sit idle, be refused or lose their group to an error.
CacheSound == pc = "idle" => \A s \in Slot : StandsFor(s)

\* The token a slot is about to send continues its own prompt and answer: a
\* resumed, chunked, batched decode computes what a fresh one would.
AnswersExact ==
    pc = "decode" => \A s \in Live : s >= cur => next[s] = Greedy[Prompt(s) \o ids[s]]

\* A group that began with a reset is answered exactly and leaves a sound cache,
\* whatever was torn before.
ResetHeals ==
    pc = "decode" /\ ~hit => AnswersExact /\ \A s \in Slot : StandsFor(s)

\* The cap on a slot's answer keeps the slot, while it is live, inside its own
\* window to its last append: the second term of `limit`.
LiveSlotsFit ==
    pc = "decode" => \A s \in Live : nKeys[s] + limit[s] - Len(ids[s]) <= Ctx

\* A decode step stores no row but the one at each slot's own position: no slot
\* appends into the rows of the next sequence.
OwnRowsOnly ==
    [][pc = "decode" => \A d \in KvRow : kv'[d] # kv[d] => d[2] = nKeys[d[1]]]_vars

\* A group that was taken up ends, delivered or dropped.
GroupEnds == pc # "idle" ~> pc = "idle"

\* No request together with any other asks for more than the window holds: then
\* the slots that are done or idle cannot run out of their rows while a
\* neighbour decodes on.  The code does not check this.
Fits ==
    \A q, r \in {x \in Requests : ~TooLong(x)} : Len(q.prompt) + r.max <= Ctx + 1

\* The errors that leave the snapshot and the rows below it as they were.
HarmlessSites == {"render", "restore", "prefill_resumed", "detokenize", "step"}

\* The clients' view: group, refused, ids and outcome are GreedyServe's, the
\* cache and the slots are not seen.
Served == INSTANCE GreedyServe WITH MayDrop <- FaultSites # {}
ServesGreedily == Served!Spec
=============================================================================
