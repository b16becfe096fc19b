----------------------------- MODULE ModelState -----------------------------
(***************************************************************************)
(* The decoder state that outlives a forward pass, `ModelState` of         *)
(* gb10-model, and the operations the engines call on it.                  *)
(*                                                                         *)
(* Numbers are abstracted to the tokens they were computed from.  A        *)
(* "context" is the sequence of tokens a sequence slot has consumed.  The  *)
(* recurrence of a slot (the DeltaNet and conv buffers of all its layers)  *)
(* is represented by the context it has folded in, a KV row by the context *)
(* that ends with the row's token.  Junk is a value computed from anything *)
(* else.  All layers of one kind move together: rec stands for every       *)
(* DeltaNet layer, kv and nKeys for every attention layer.                 *)
(*                                                                         *)
(* The KV cache is one flat allocation of NSeq * Ctx rows, slot-major.     *)
(* Nothing bounds the row a slot appends at, so a slot whose nKeys passes  *)
(* Ctx writes into the rows of the next one.  What lies behind the last    *)
(* slot is not modelled.                                                   *)
(***************************************************************************)
EXTENDS Integers, Sequences

CONSTANTS
    NSeq,    \* sequence slots (--concurrency)
    Ctx,     \* KV rows per slot (--ctx)
    Token,   \* the vocabulary
    Greedy,  \* the argmax continuation of a context
    Junk     \* a value that is not that of any context

Slot == 0 .. NSeq - 1
Row == 0 .. Ctx - 1
KvRow == Slot \X Row
Context == UNION {[1 .. n -> Token] : n \in 0 .. Ctx}

ASSUME SizeAssumption ==
    /\ NSeq \in Nat \ {0}
    /\ Ctx \in Nat
    /\ Ctx >= 2

ASSUME TokenAssumption ==
    /\ Junk \notin Context
    /\ Greedy \in [Context -> Token]

VARIABLES
    nKeys,     \* LayerState::n_keys, per slot
    rec,       \* LayerState::rec and conv_hist, per slot
    kv,        \* k_cache and v_cache, per row
    snapKeys,  \* n_keys_snapshot
    snapRec    \* rec_snapshot and conv_snapshot

stateVars == <<nKeys, rec, kv, snapKeys, snapRec>>

StateTypeOK ==
    /\ nKeys \in [Slot -> Nat]
    /\ rec \in [Slot -> Context \union {Junk}]
    /\ kv \in [KvRow -> Context \union {Junk}]
    /\ snapKeys \in [Slot -> Nat]
    /\ snapRec \in [Slot -> Context \union {Junk}]

\* ModelState::new: zeroed buffers, which are those of the empty context.
StateInit ==
    /\ nKeys = [s \in Slot |-> 0]
    /\ rec = [s \in Slot |-> << >>]
    /\ kv = [d \in KvRow |-> Junk]
    /\ snapKeys = [s \in Slot |-> 0]
    /\ snapRec = [s \in Slot |-> << >>]

-----------------------------------------------------------------------------
\* The first n tokens of context h.
Prefix(h, n) == SubSeq(h, 1, n)

\* Slot s's rows 0 .. Len(h)-1 in the cache `rows` are those of context h.
RowsHold(rows, s, h) ==
    \A i \in 0 .. Len(h) - 1 : rows[<<s, i>>] = Prefix(h, i + 1)

\* The slot's recurrence, length and rows all stand for one and the same context.
Holds(s, h) ==
    /\ rec[s] = h
    /\ nKeys[s] = Len(h)
    /\ RowsHold(kv, s, h)

Exact(s) == rec[s] # Junk /\ Holds(s, rec[s])

\* The context of slot s after it consumes the tokens ts.
Absorb(s, ts) ==
    IF Exact(s) /\ Len(rec[s]) + Len(ts) <= Ctx THEN rec[s] \o ts ELSE Junk

\* The KV row a slot with context h appends at its position i.
RowAt(h, i) == IF h = Junk THEN Junk ELSE Prefix(h, i + 1)

\* A build in which one stride is used for buffers of different sizes.
SharedStrideOffset(d, s) == (d[1] - s) * (Ctx - 1) + d[2]

\* Where row d lies in the flat cache, counted from the first row of slot s.
Offset(d, s) == (d[1] - s) * Ctx + d[2]

\* The argmax a slot with context h can yield: the greedy continuation when its
\* state is that of h, anything when it is not.
Logits(rows, s, h) ==
    IF h # Junk /\ RowsHold(rows, s, h) THEN {Greedy[h]} ELSE Token

\* Rows p .. p+n-1 of slot s, wherever they fall in the flat cache, set to those of h.
WithRows(s, p, n, h) ==
    [d \in KvRow |->
        IF Offset(d, s) \in p .. p + n - 1 THEN RowAt(h, Offset(d, s)) ELSE kv[d]]

-----------------------------------------------------------------------------
\* Model::prefill_seq: consume the tokens ts in slot s and yield the token nx.
PrefillSeq(s, ts, nx) ==
    /\ Len(ts) \in 1 .. Ctx
    /\ rec' = [rec EXCEPT ![s] = Absorb(s, ts)]
    /\ nKeys' = [nKeys EXCEPT ![s] = @ + Len(ts)]
    /\ kv' = WithRows(s, nKeys[s], Len(ts), Absorb(s, ts))
    /\ nx \in Logits(kv', s, Absorb(s, ts))
    /\ UNCHANGED <<snapKeys, snapRec>>

\* The flat row slot s appends at in a batched step.
AppendsAt(s) == s * Ctx + nKeys[s]

\* Threads of one launch that store to the same row race; any one of them wins.
OneWinner(won) ==
    /\ \A s \in Slot : \E w \in won : AppendsAt(w) = AppendsAt(s)
    /\ \A v, w \in won : AppendsAt(v) = AppendsAt(w) => v = w

\* No other slot appends at a row slot s has, or at the one it appends.
Undisturbed(s) == \A w \in Slot \ {s} : AppendsAt(w) \notin s * Ctx .. AppendsAt(s)

\* The context slot s appends a row for: a slot outside the batch gets a row of
\* whatever the activation buffer still holds, and one whose rows another overwrites
\* attends to those in the first layer and computes Junk in the next.
StepContext(s, batch, ts) ==
    IF s \in batch /\ Undisturbed(s) THEN Absorb(s, <<ts[s]>>) ELSE Junk

\* The cache after the attention layers of a batched step: every slot of the
\* STATE, in the batch or not, has appended a row, the winners' are the ones kept.
Appended(won, batch, ts) ==
    [d \in KvRow |->
        IF \E w \in won : Offset(d, w) = nKeys[w]
        THEN LET w == CHOOSE w \in won : Offset(d, w) = nKeys[w]
             IN RowAt(StepContext(w, batch, ts), nKeys[w])
        ELSE kv[d]]

\* Model::step_batch over the slots `batch`: the recurrences of the batch and
\* the lengths of all slots advance.
StepBatch(batch, ts, out) ==
    /\ batch # {}
    /\ batch \subseteq Slot
    /\ rec' = [s \in Slot |-> IF s \in batch THEN StepContext(s, batch, ts) ELSE rec[s]]
    /\ nKeys' = [s \in Slot |-> nKeys[s] + 1]
    /\ \E won \in SUBSET Slot : OneWinner(won) /\ kv' = Appended(won, batch, ts)
    /\ \A s \in batch : out[s] \in Logits(kv', s, StepContext(s, batch, ts))
    /\ UNCHANGED <<snapKeys, snapRec>>

\* ModelState::snapshot_recurrent: every slot at once, KV rows excepted.
SnapshotRecurrent ==
    /\ snapRec' = rec
    /\ snapKeys' = nKeys
    /\ UNCHANGED <<nKeys, rec, kv>>

\* ModelState::restore_recurrent.
RestoreRecurrent ==
    /\ rec' = snapRec
    /\ nKeys' = snapKeys
    /\ UNCHANGED <<kv, snapKeys, snapRec>>

\* ModelState::reset: every buffer of every slot, but not the snapshot.
Reset ==
    /\ rec' = [s \in Slot |-> << >>]
    /\ nKeys' = [s \in Slot |-> 0]
    /\ kv' = [d \in KvRow |-> Junk]
    /\ UNCHANGED <<snapKeys, snapRec>>

-----------------------------------------------------------------------------
(* The same operations cut short by a device error: some layers have done   *)
(* their part and others have not.                                          *)

\* What is left where the layers of `before` and `after` disagree.
Torn(before, after) ==
    [x \in DOMAIN before |-> IF before[x] = after[x] THEN before[x] ELSE Junk]

TornPrefill(s, ts) ==
    /\ rec' = [rec EXCEPT ![s] = Junk]
    /\ \E n \in {nKeys[s], nKeys[s] + Len(ts)} : nKeys' = [nKeys EXCEPT ![s] = n]
    /\ kv' = WithRows(s, nKeys[s], Len(ts), Junk)
    /\ UNCHANGED <<snapKeys, snapRec>>

TornStepBatch(batch, ts) ==
    /\ rec' = [s \in Slot |-> IF s \in batch THEN Junk ELSE rec[s]]
    /\ nKeys' \in {nKeys, [s \in Slot |-> nKeys[s] + 1]}
    /\ kv' = [d \in KvRow |->
                IF \E s \in Slot : Offset(d, s) = nKeys[s] THEN Junk ELSE kv[d]]
    /\ UNCHANGED <<snapKeys, snapRec>>

TornSnapshot ==
    /\ snapRec' = Torn(snapRec, rec)
    /\ snapKeys' \in {snapKeys, nKeys}
    /\ UNCHANGED <<nKeys, rec, kv>>

TornRestore ==
    /\ rec' = Torn(rec, snapRec)
    /\ nKeys' \in {nKeys, snapKeys}
    /\ UNCHANGED <<kv, snapKeys, snapRec>>

TornReset ==
    /\ rec' = Torn(rec, [s \in Slot |-> << >>])
    /\ nKeys' \in {nKeys, [s \in Slot |-> 0]}
    /\ kv' = [d \in KvRow |-> Junk]
    /\ UNCHANGED <<snapKeys, snapRec>>
=============================================================================
