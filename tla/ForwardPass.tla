----------------------------- MODULE ForwardPass -----------------------------
(***************************************************************************)
(* The forward passes of gb10-model, launch by launch: the three paths     *)
(* through a layer (one token, a prompt chunk, a batch of sequences), the  *)
(* loops of Model over the layers, and the recurrent snapshot.             *)
(*                                                                         *)
(* A pass puts the launches of one layer after the other on the stream and *)
(* the device runs them in order.  Any launch can fail, and a wrapper can  *)
(* refuse one; either ends the pass where it stands.  ModelState describes *)
(* the same operations as single steps over contexts.  That a layer-by-    *)
(* layer pass over shared scratch amounts to such a step is what this      *)
(* module is for (StateRefines, RowsExact).                                *)
(***************************************************************************)
EXTENDS Projection

CONSTANTS
    Token,        \* the vocabulary
    Greedy,       \* the argmax continuation of a context
    Junk,         \* a value that is not that of any context
    Chunks,       \* the token sequences prefilled
    Batches,      \* the token sequences a decode step takes, one token per sequence
    MaxPasses,    \* operations and errors of a behaviour
    MaxFaults     \* device errors of a behaviour

ASSUME InputAssumption == Chunks \subseteq Seq(Token) /\ Batches \subseteq Seq(Token)

\* layer_types: DeltaNet layers first, full attention in every fourth.
ASSUME HybridAssumption == 1 \in DeltaLayer /\ AttnLayer # {}

\* Every projection the layers name was loaded.
ASSUME ProjectionAssumption ==
    {"in_proj_qkv", "in_proj_z", "in_proj_a", "in_proj_b", "out_proj", "q_proj", "k_proj",
     "v_proj", "o_proj", "gate", "up", "down", "lm_head"} \subseteq DOMAIN Shape

VARIABLES
    snapRecur, snapConv, snapKeys,  \* the recurrent snapshot of ModelState
    stream,    \* launches of the current layer not yet run
    pass,      \* the operation being run and the layer it has reached
    before,    \* the state the operation began with, as ModelState sees it, and all counts
    dirty,     \* whether the operation has stored any state yet
    passes, faults

device == <<buf, convHist, recur, cache, positions, keys, staged>>
snapshot == <<snapRecur, snapConv, snapKeys>>
vars == <<device, snapshot, env, stream, pass, before, dirty, passes, faults>>

Context == UNION {[1 .. n -> Token] : n \in 0 .. Ctx}

ASSUME JunkAssumption == Junk \notin Context

Prefix(h, n) == SubSeq(h, 1, n)
Slots == Seqs
Idle == [kind |-> "idle"]

-----------------------------------------------------------------------------
(* The reference: what every value is for the last token of a context h,    *)
(* written as one function of h per layer and free of buffers and strides.  *)

X(l, h) == IF l = 1 THEN EmbedRow(h[Len(h)]) ELSE Term("x", l, <<h>>)
Lin(l, name, x) == Term("linear", <<l, name>>, <<x>>)
Rms(w, x) == Term("rmsnorm", w, <<x>>)

RefBlock(l, h, mixed) ==
    LET res == Term("add", "none", <<X(l, h), mixed>>)
        n == Rms(<<l, "post_ln">>, res)
        act == Term("swiglu", "none", <<Lin(l, "gate", n), Lin(l, "up", n)>>)
    IN Term("add", "none", <<res, Lin(l, "down", act)>>)

RefIn(l, h) == Rms(<<l, "input_ln">>, X(l, h))
RefQkv(l, h) == Lin(l, "in_proj_qkv", RefIn(l, h))

\* The conv inputs of the last n tokens of h, zeros before the first.
RefWindow(l, h, n) ==
    [j \in 1 .. n |->
        IF Len(h) - n + j >= 1 THEN RefQkv(l, Prefix(h, Len(h) - n + j)) ELSE Zero]
RefConv(l, h) ==
    Term("l2norm", "k", <<Term("l2norm", "q", <<Term("conv", l, RefWindow(l, h, ConvHist + 1))>>)>>)
RefState(l, h) ==
    LET f[n \in 0 .. Len(h)] ==
          IF n = 0 THEN Zero
          ELSE LET p == Prefix(h, n)
               IN Term("state", l,
                    <<f[n - 1], RefConv(l, p), Term("decay", l, <<Lin(l, "in_proj_a", RefIn(l, p))>>),
                      Term("beta", l, <<Lin(l, "in_proj_b", RefIn(l, p))>>)>>)
    IN f[Len(h)]
RefDelta(l, h) ==
    RefBlock(l, h, Lin(l, "out_proj",
        Term("rmsnorm_gated", <<l, "norm">>,
            <<Term("read", l, <<RefState(l, h), RefConv(l, h)>>),
              Lin(l, "in_proj_z", RefIn(l, h))>>)))

RefHalf(l, h, part) == Term("half", part, <<Lin(l, "q_proj", RefIn(l, h))>>)
RefRope(h, x) == Term("rope", "none", <<x, Angle("cos", Len(h) - 1), Angle("sin", Len(h) - 1)>>)
RefKv(l, h) ==
    Term("kv", l, <<RefRope(h, Rms(<<l, "k_norm">>, Lin(l, "k_proj", RefIn(l, h)))),
                    Lin(l, "v_proj", RefIn(l, h))>>)
RefAttn(l, h) ==
    RefBlock(l, h, Lin(l, "o_proj",
        Term("sigmoid_mul", "none",
            <<Term("attend", "none", <<RefRope(h, Rms(<<l, "q_norm">>, RefHalf(l, h, "query"))),
                                   [i \in 1 .. Len(h) |-> RefKv(l, Prefix(h, i))]>>),
              RefHalf(l, h, "gate")>>)))

\* Tables of the reference, over the contexts that are not empty.
Past == {h \in Context : h # << >>}
StateTable == [l \in DeltaLayer |-> [h \in Context |-> RefState(l, h)]]
HistTable == [l \in DeltaLayer |-> [h \in Context |-> RefWindow(l, h, ConvHist)]]
KvTable == [l \in AttnLayer |-> [h \in Past |-> RefKv(l, h)]]
OutTable == [l \in Layer |->
    [h \in Past |-> IF l \in DeltaLayer THEN RefDelta(l, h) ELSE RefAttn(l, h)]]

\* A layer's output gets a name, so that terms do not grow with the depth of the model.
Named(l, v) ==
    IF \E h \in Past : OutTable[l][h] = v
    THEN Term("x", l + 1, <<CHOOSE h \in Past : OutTable[l][h] = v>>) ELSE Stale

RefNormed(h) == Rms(<<0, "norm">>, Term("x", Len(LayerKind) + 1, <<h>>))
RefIdx(h) == Term("argmax", "none", <<Term("linear", <<0, "lm_head">>, <<RefNormed(h)>>)>>)

-----------------------------------------------------------------------------
(* The state as ModelState sees it.                                         *)

HoldsRecurrence(l, s, h) ==
    /\ recur[l][s] = StateTable[l][h]
    /\ \A j \in 1 .. ConvHist : convHist[l][s * ConvHist + j - 1] = HistTable[l][h][j]

SnapHolds(l, s, h) ==
    /\ snapRecur[l][s] = StateTable[l][h]
    /\ \A j \in 1 .. ConvHist : snapConv[l][s * ConvHist + j - 1] = HistTable[l][h][j]

\* The one context all layers stand for, if there is one.
RecOf(s, h) == \A l \in DeltaLayer : HoldsRecurrence(l, s, h)
SnapOf(s, h) == \A l \in DeltaLayer : SnapHolds(l, s, h)
KvOf(d, h) == \A l \in AttnLayer : cache[l][d] = KvTable[l][h]

SeenRec == [s \in Slots |->
    IF \E h \in Context : RecOf(s, h) THEN CHOOSE h \in Context : RecOf(s, h) ELSE Junk]
SeenSnapRec == [s \in Slots |->
    IF \E h \in Context : SnapOf(s, h) THEN CHOOSE h \in Context : SnapOf(s, h) ELSE Junk]
SeenKv == [p \in Slots \X (0 .. Ctx - 1) |->
    LET d == p[1] * Ctx + p[2]
    IN IF \E h \in Past : KvOf(d, h) THEN CHOOSE h \in Past : KvOf(d, h) ELSE Junk]

\* The layers count their keys separately; the first attention layer's count stands
\* for all while they are level, as an operation cut short may leave them not to be.
FirstAttn == CHOOSE l \in AttnLayer : \A m \in AttnLayer : l <= m
Level(ks) == \A l \in AttnLayer : ks[l] = ks[FirstAttn]
Seen ==
    [nKeys |-> keys[FirstAttn], rec |-> SeenRec, kv |-> SeenKv, level |-> Level(keys),
     counts |-> keys, snapKeys |-> snapKeys[FirstAttn], snapRec |-> SeenSnapRec, snapLevel |-> Level(snapKeys)]

Shown == IF pass = Idle THEN Seen ELSE before

MS == INSTANCE ModelState WITH
        nKeys <- Shown.nKeys, rec <- Shown.rec, kv <- Shown.kv,
        snapKeys <- Shown.snapKeys, snapRec <- Shown.snapRec

-----------------------------------------------------------------------------
(* The layers.                                                              *)

W(l, name) == <<l, name>>
Ws(l, names) == [i \in DOMAIN names |-> W(l, names[i])]

MlpForward(l, t) ==
    Forward(W(l, "gate"), "mlp_in", "inter", t) \o Forward(W(l, "up"), "mlp_in", "inter2", t)
    \o <<SwigluInplace("inter", "inter2", t)>> \o Forward(W(l, "down"), "inter", "down", t)

MlpForwardPrefill(l, t) ==
    ForwardPrefillSharedInput(Ws(l, <<"gate", "up">>), "mlp_in", <<"inter", "inter2">>, t)
    \o <<SwigluInplace("inter", "inter2", t)>> \o ForwardPrefill(W(l, "down"), "inter", "down", t)

\* The second half of every layer, after its mixer has left `proj`.
Residual(l, t, mlp) ==
    <<Add("a", "proj", "res", t), RmsnormZeroCentered("res", W(l, "post_ln"), "mlp_in", t)>>
    \o mlp \o <<Add("res", "down", "b", t)>>

InNorm(l, t) == <<RmsnormZeroCentered("a", W(l, "input_ln"), "hidden", t)>>
GatedNorm(l, t) == <<RmsnormGated("attn", "z", W(l, "norm"), "gnorm", t)>>
DeltaIns == <<"in_proj_qkv", "in_proj_z", "in_proj_a", "in_proj_b">>
DeltaOuts == <<"qkv", "z", "a_proj", "b_proj">>

\* DeltaNetLayer::forward: one token, sequence 0's state whatever `seq` is.
DeltaForward(l) ==
    InNorm(l, 1)
    \o FlattenSeq([i \in 1 .. 4 |-> Forward(W(l, DeltaIns[i]), "hidden", DeltaOuts[i], 1)])
    \o <<Conv1dStepSilu(l), CopyLive("conv", "conv_ln", 1), L2normScale("q"), L2normScale("k"),
         DeltaGate(l), GatedDeltaRuleStep(l)>>
    \o GatedNorm(l, 1) \o Forward(W(l, "out_proj"), "gnorm", "proj", 1)
    \o Residual(l, 1, MlpForward(l, 1))

\* DeltaNetLayer::forward_prefill: t tokens of one sequence.
DeltaForwardPrefill(l, s, t) ==
    InNorm(l, t) \o ForwardPrefillSharedInput(Ws(l, DeltaIns), "hidden", DeltaOuts, t)
    \o <<Conv1dPrefillSilu(l, s, t), CopyLive("conv", "conv_ln", t),
         L2normScaleBatched("q", t), L2normScaleBatched("k", t),
         DeltaGateBatched(l, t), GatedDeltaRuleChunk(l, s, t)>>
    \o GatedNorm(l, t) \o ForwardPrefill(W(l, "out_proj"), "gnorm", "proj", t)
    \o Residual(l, t, MlpForwardPrefill(l, t))

\* DeltaNetLayer::forward_batch: one token of each of n sequences.
DeltaForwardBatch(l, n) ==
    InNorm(l, n)
    \o FlattenSeq([i \in 1 .. 4 |-> Forward(W(l, DeltaIns[i]), "hidden", DeltaOuts[i], n)])
    \o <<Conv1dStepSiluMulti(l, n), CopyLive("conv", "conv_ln", n),
         L2normScaleBatched("q", n), L2normScaleBatched("k", n),
         DeltaGateBatched(l, n), GatedDeltaRuleStepMulti(l, n)>>
    \o GatedNorm(l, n) \o Forward(W(l, "out_proj"), "gnorm", "proj", n)
    \o Residual(l, n, MlpForward(l, n))

AttnIns == <<"q_proj", "k_proj", "v_proj">>
AttnOuts == <<"fused", "kb", "vb">>
HeadNorms(l, t) ==
    <<RmsnormZeroCenteredInplace("q", W(l, "q_norm"), t),
      RmsnormZeroCentered("kb", W(l, "k_norm"), "kb_ln", t)>>
GateAndProject(l, t, project) == <<SigmoidMul("attn", "gate", t)>> \o project

\* FullAttnLayer::forward: one token; `seq` is 0 on every call.  `ks` are the counts
\* the host reads at the start, state.n_keys.
AttnForward(l, ks) ==
    LET pos == ks[0]
    IN InNorm(l, 1)
       \o FlattenSeq([i \in 1 .. 3 |-> Forward(W(l, AttnIns[i]), "hidden", AttnOuts[i], 1)])
       \o <<DeinterleaveHeads("q", "query"), DeinterleaveHeads("gate", "gate")>>
       \o HeadNorms(l, 1) \o RopeTables(<<pos>>)
       \o <<RopeNeox, KvCacheAppend(l, pos), SetKeys(l, [ks EXCEPT ![0] = pos + 1]),
            AttnDecode(l, pos + 1)>>
       \o GateAndProject(l, 1, Forward(W(l, "o_proj"), "attn", "proj", 1))
       \o Residual(l, 1, MlpForward(l, 1))

\* FullAttnLayer::forward_prefill: t tokens of one sequence, after its cached prefix.
AttnForwardPrefill(l, ks, s, t) ==
    LET pos == ks[s]
    IN InNorm(l, t) \o ForwardPrefillSharedInput(Ws(l, AttnIns), "hidden", AttnOuts, t)
       \o <<DeinterleaveHeadsBatched("q", "query", t), DeinterleaveHeadsBatched("gate", "gate", t)>>
       \o HeadNorms(l, t) \o RopeTables([i \in 1 .. t |-> pos + i - 1])
       \o <<RopeNeoxBatched(t), KvCacheAppendBatched(l, s, pos, t),
            SetKeys(l, [ks EXCEPT ![s] = pos + t]), AttnPrefill(l, s, pos, t)>>
       \o GateAndProject(l, t, ForwardPrefill(W(l, "o_proj"), "attn", "proj", t))
       \o Residual(l, t, MlpForwardPrefill(l, t))

\* FullAttnLayer::forward_batch: one token of each of n sequences, but the
\* append, the count and the attention run over every sequence of the state.
AttnForwardBatch(l, ks, n) ==
    InNorm(l, n)
    \o FlattenSeq([i \in 1 .. 3 |-> Forward(W(l, AttnIns[i]), "hidden", AttnOuts[i], n)])
    \o <<DeinterleaveHeadsBatched("q", "query", n), DeinterleaveHeadsBatched("gate", "gate", n)>>
    \o HeadNorms(l, n) \o RopeTables([i \in 1 .. n |-> ks[i - 1]])
    \o <<RopeNeoxBatched(n), SyncPositions(l), KvCacheAppendMulti(l),
         SetKeys(l, [s \in Seqs |-> ks[s] + 1]), SyncPositions(l), AttnDecodeMulti(l)>>
    \o GateAndProject(l, n, Forward(W(l, "o_proj"), "attn", "proj", n))
    \o Residual(l, n, MlpForward(l, n))

-----------------------------------------------------------------------------
(* The passes.                                                              *)

Computes == {"step", "step_batch", "prefill_seq", "verify"}

\* Layer::forward, forward_prefill, forward_batch.
LayerLaunches(p, l, ks) ==
    LET t == Len(p.tokens)
        delta == l \in DeltaLayer
    IN CASE p.kind = "step" -> IF delta THEN DeltaForward(l) ELSE AttnForward(l, ks)
         [] p.kind = "step_batch" -> IF delta THEN DeltaForwardBatch(l, t) ELSE AttnForwardBatch(l, ks, t)
         [] OTHER -> IF delta THEN DeltaForwardPrefill(l, p.seq, t)
                     ELSE AttnForwardPrefill(l, ks, p.seq, t)

Embed(p) ==
    IF p.kind = "step" THEN <<EmbedGather(p.tokens[1])>> ELSE <<EmbedGatherBatched(p.tokens)>>

\* What follows the last layer: the final norm, then the rows that are scored.
Score(p) ==
    LET t == Len(p.tokens)
        lmHead == W(0, "lm_head")
        norm == <<RmsnormZeroCentered("a", W(0, "norm"), "normed", t)>>
    IN norm \o
       CASE p.kind = "step" -> Forward(lmHead, "normed", "logits", 1) \o <<Argmax>>
         [] p.kind = "step_batch" ->
              Forward(lmHead, "normed", "logits", t) \o <<ArgmaxMulti("logits", "idx", t)>>
         [] p.kind = "prefill_seq" ->
              <<CopyLastRow("normed", "last", t)>> \o Forward(lmHead, "last", "logits", 1) \o <<Argmax>>
         [] OTHER ->
              Forward(lmHead, "normed", "logits_all", t) \o <<ArgmaxMulti("logits_all", "idx_all", t)>>

\* Where the operation stands: layer 0 before the first layer.
Begin(p, launches) ==
    /\ pass = Idle
    /\ passes + faults < MaxPasses
    /\ passes' = passes + 1
    /\ pass' = [p EXCEPT !.layer = 0]
    /\ before' = Seen
    /\ stream' = launches
    /\ dirty' = FALSE
    /\ UNCHANGED <<snapshot, env, faults>>

Pass(kind, s, toks) == [kind |-> kind, seq |-> s, tokens |-> toks, layer |-> 0]

\* No path into a pass looks at the room left in the cache.
Compute(p) == Begin(p, Embed(p)) /\ UNCHANGED device

\* forward_normed refuses an empty prompt and one longer than the state's rows.
PrefillSeq ==
    \E s \in Slots, ts \in Chunks : Len(ts) \in 1 .. Ctx /\ Compute(Pass("prefill_seq", s, ts))
\* forward_normed, then all_logits over at most VERIFY_MAX rows.
Verify ==
    \E ts \in Chunks :
        Len(ts) \in 1 .. Ctx /\ Len(ts) <= VerifyMax /\ Compute(Pass("verify", 0, ts))
Step == \E ts \in Batches : Len(ts) = 1 /\ Compute(Pass("step", 0, ts))
StepBatch == \E ts \in Batches : Len(ts) \in 1 .. NSeq /\ Compute(Pass("step_batch", 0, ts))

SnapshotRecurrent == Begin(Pass("snapshot", 0, << >>), << >>) /\ UNCHANGED device
RestoreRecurrent == Begin(Pass("restore", 0, << >>), << >>) /\ UNCHANGED device
Reset == Begin(Pass("reset", 0, << >>), << >>) /\ UNCHANGED device

\* The launch at the head of the stream runs.  Of one that leaves the cache, the rows
\* inside take effect; that the others fall on none of the memory modelled here is an
\* assumption, and NoWildAccess says which passes it is made for.
Launch ==
    /\ stream # << >>
    /\ ~Refused(Head(stream))
    /\ Run(Head(stream))
    /\ stream' = Tail(stream)
    /\ dirty' = (dirty \/ Stores(Head(stream)))
    /\ UNCHANGED <<snapshot, env, pass, before, passes, faults>>

\* A build that hands the next layer the input of the last.
NoSwap == buf
\* std::mem::swap of the residual stream's two buffers, then the next layer.
Swapped == [buf EXCEPT !["a"] = [r \in BufRow |-> Named(pass.layer, buf["b"][r])], !["b"] = buf["a"]]

NextLayer ==
    /\ stream = << >>
    /\ pass.kind \in Computes
    /\ pass.layer <= Len(LayerKind)
    /\ pass' = [pass EXCEPT !.layer = @ + 1]
    /\ stream' = IF pass.layer < Len(LayerKind)
                 THEN LayerLaunches(pass, pass.layer + 1, keys[pass.layer + 1]) ELSE Score(pass)
    /\ buf' = IF pass.layer = 0 THEN buf ELSE Swapped
    /\ UNCHANGED <<convHist, recur, cache, positions, keys, staged>>
    /\ UNCHANGED <<snapshot, env, before, dirty, passes, faults>>

\* The copies of the snapshot, layer by layer.  Both counts and recurrences of a
\* layer move together, and the KV rows never.
CopyLayer ==
    LET l == pass.layer + 1
    IN /\ pass.kind \in {"snapshot", "restore", "reset"}
       /\ pass.layer < Len(LayerKind)
       /\ pass' = [pass EXCEPT !.layer = l]
       /\ dirty' = TRUE
       /\ CASE pass.kind = "snapshot" ->
                 /\ snapRecur' = [snapRecur EXCEPT ![l] = recur[l]]
                 /\ snapConv' = [snapConv EXCEPT ![l] = convHist[l]]
                 /\ snapKeys' = [snapKeys EXCEPT ![l] = keys[l]]
                 /\ UNCHANGED device
            [] pass.kind = "restore" ->
                 /\ recur' = [recur EXCEPT ![l] = snapRecur[l]]
                 /\ convHist' = [convHist EXCEPT ![l] = snapConv[l]]
                 /\ keys' = [keys EXCEPT ![l] = snapKeys[l]]
                 /\ positions' = [positions EXCEPT ![l] = snapKeys[l]]
                 /\ UNCHANGED <<buf, cache, staged, snapshot>>
            [] OTHER ->
                 /\ recur' = [recur EXCEPT ![l] = [s \in Seqs |-> Zero]]
                 /\ convHist' = [convHist EXCEPT ![l] = [d \in DOMAIN @ |-> Zero]]
                 /\ cache' = [cache EXCEPT ![l] = [d \in DOMAIN @ |-> Zero]]
                 /\ keys' = [keys EXCEPT ![l] = [s \in Seqs |-> 0]]
                 /\ UNCHANGED <<buf, positions, staged, snapshot>>
       /\ UNCHANGED <<env, stream, before, passes, faults>>

\* To the next pass the scratch holds nothing it computed itself.
Leave ==
    /\ pass' = Idle
    /\ stream' = << >>
    /\ before' = << >>
    /\ dirty' = FALSE
    /\ buf' = [b \in Buffer |-> [r \in BufRow |-> Stale]]
    /\ staged' = [w |-> [staged.w EXCEPT !.val = Stale],
                  act |-> [q \in Part |-> [staged.act[q] EXCEPT !.rows = [r \in BufRow |-> Stale]]]]
    /\ UNCHANGED <<convHist, recur, cache, positions, keys, snapshot, env, passes>>

Finished ==
    /\ pass # Idle
    /\ stream = << >>
    /\ pass.layer = Len(LayerKind) + (IF pass.kind \in Computes THEN 1 ELSE 0)

Return == Finished /\ Leave /\ UNCHANGED faults

\* A wrapper's shape check fails.
Refuse == stream # << >> /\ Refused(Head(stream)) /\ Leave /\ UNCHANGED faults

\* A call into the device returns an error, the check_err at the end of a pass
\* included.  One between two stores leaves what an error at the second leaves, so
\* only those, and the ends of layers, are explored.
DeviceError ==
    /\ pass # Idle
    /\ Finished => pass.kind \in Computes
    /\ stream # << >> => Stores(Head(stream))
    /\ faults < MaxFaults
    /\ faults' = faults + 1
    /\ Leave

Init ==
    /\ buf = [b \in Buffer |-> [r \in BufRow |-> Stale]]
    /\ convHist = [l \in Layer |-> [d \in 0 .. NSeq * ConvHist - 1 |-> Zero]]
    /\ recur = [l \in Layer |-> [s \in Seqs |-> Zero]]
    /\ cache = [l \in Layer |-> [d \in 0 .. NSeq * Ctx - 1 |-> Zero]]
    /\ positions = [l \in Layer |-> [s \in Seqs |-> 0]]
    /\ keys = [l \in Layer |-> [s \in Seqs |-> 0]]
    /\ staged = [w |-> [cells |-> 0, val |-> Stale],
                 act |-> [p \in Part |-> [cells |-> 0, rows |-> [r \in BufRow |-> Stale]]]]
    /\ snapRecur = recur /\ snapConv = convHist /\ snapKeys = keys
    /\ env \in Environments
    /\ stream = << >> /\ pass = Idle /\ before = << >> /\ dirty = FALSE
    /\ passes = 0 /\ faults = 0

Next ==
    \/ PrefillSeq \/ Verify \/ Step \/ StepBatch
    \/ SnapshotRecurrent \/ RestoreRecurrent \/ Reset
    \/ Launch \/ NextLayer \/ CopyLayer \/ Return \/ Refuse \/ DeviceError

Spec == Init /\ [][Next]_vars

-----------------------------------------------------------------------------
\* Every buffer keeps its shape, the staging buffers only grow, and no count, on the
\* host or the device, exceeds what the passes so far can have appended.
TypeOK ==
    /\ DOMAIN buf = Buffer /\ \A b \in Buffer : DOMAIN buf[b] = BufRow
    /\ \A l \in Layer :
         /\ DOMAIN convHist[l] = 0 .. NSeq * ConvHist - 1
         /\ DOMAIN cache[l] = 0 .. NSeq * Ctx - 1
    /\ {keys, positions, snapKeys} \subseteq [Layer -> [Seqs -> 0 .. passes * Ctx]]
    /\ env \in Environments
    /\ pass = Idle \/ pass.layer \in 0 .. Len(LayerKind) + 1

\* The cache had rows for all that pass p was to append, in every attention layer.  A
\* batched step appends for every sequence of the state, finished ones included.
HasRoom(p) ==
    \A l \in AttnLayer, s \in Seqs :
        (p.kind = "step_batch" \/ s = p.seq) =>
            s * Ctx + before.counts[l][s] + (IF p.kind = "step_batch" THEN 1 ELSE Len(p.tokens))
                <= NSeq * Ctx

\* The launches of a pass that began without room, which a caller may well start: a
\* finished last slot is stepped on, and speculation feeds a full cache.
PastCache(L) == L.kind \in {"append", "attend"} /\ ~HasRoom(pass)

\* No launch addresses memory outside its buffers but an append or an attention of a
\* pass that began without room in the cache: what the wrappers that check nothing
\* rely on, the wrappers before them have checked, the room in the cache excepted.
NoWildAccess ==
    stream # << >> /\ WildAccess(Head(stream)) => PastCache(Head(stream))

\* A pass that a shape check refuses is refused before it has stored anything (a chunk
\* the scratch cannot hold leaves every sequence as it was), unless it began without
\* room in the cache: then a layer's append or attention is refused when the layers
\* before it have stored theirs.
CleanRefusal ==
    stream # << >> /\ Refused(Head(stream)) /\ dirty => PastCache(Head(stream))

\* The context sequence s stood for when the pass began, Junk when its recurrence, rows
\* and counts did not agree on one.
Began(s) ==
    LET h == before.rec[s]
    IN IF h # Junk /\ before.level /\ before.nKeys[s] = Len(h)
          /\ \A i \in 1 .. Len(h) : before.kv[<<s, i - 1>>] = Prefix(h, i)
       THEN h ELSE Junk

\* The context row r of the pass stands for, Junk when its slot held none.
RowContext(r) ==
    LET batched == pass.kind = "step_batch"
        h == Began(IF batched THEN r ELSE pass.seq)
        ts == IF batched THEN <<pass.tokens[r + 1]>> ELSE Prefix(pass.tokens, r + 1)
    IN IF h = Junk \/ Len(h) + Len(ts) > Ctx THEN Junk ELSE h \o ts

\* No sequence of a batched step appends outside its own window.
InOwnWindows == pass.kind = "step_batch" => \A s \in Seqs : before.nKeys[s] < Ctx

Scored(r) ==
    CASE pass.kind = "verify" -> {buf["idx_all"][r]}
      [] pass.kind = "step_batch" -> {buf["idx"][r]}
      [] OTHER -> IF r = Len(pass.tokens) - 1 THEN {buf["idx"][0]} ELSE {}

\* When a sequence's state is that of its context and no sequence appends outside its
\* window, every row a pass returns is the reference of its own context, on every
\* path (one token, chunk, batch; GEMV, fp32, tensor cores with and without a shared
\* cast): nothing stale from the scratch, another layer, another sequence or another
\* projection's staging reaches it.
RowsExact ==
    Finished /\ pass.kind \in Computes =>
        \A r \in 0 .. Len(pass.tokens) - 1 :
            LET h == RowContext(r)
            IN h # Junk /\ InOwnWindows =>
                 buf["normed"][r] = RefNormed(h) /\ Scored(r) \subseteq {RefIdx(h)}

\* The outcomes ModelState gives an operation on the state it began with.
With(rec, nKeys, kv) == [before EXCEPT !.rec = rec, !.nKeys = nKeys, !.kv = kv]
BatchOf(p) == 0 .. Len(p.tokens) - 1
TokenOf(p) == [s \in BatchOf(p) |-> p.tokens[s + 1]]

Whole(p) ==
    LET n == before.nKeys
        s == p.seq
        t == Len(p.tokens)
    IN CASE p.kind = "step_batch" ->
              {With([x \in Slots |-> IF x \in BatchOf(p) THEN MS!StepContext(x, BatchOf(p), TokenOf(p))
                                     ELSE before.rec[x]],
                    [x \in Slots |-> n[x] + 1], MS!Appended(won, BatchOf(p), TokenOf(p))) :
                 won \in {w \in SUBSET Slots : MS!OneWinner(w)}}
         [] p.kind = "snapshot" ->
              {[before EXCEPT !.snapRec = before.rec, !.snapKeys = n, !.snapLevel = before.level]}
         [] p.kind = "restore" ->
              {[before EXCEPT !.rec = before.snapRec, !.nKeys = before.snapKeys,
                              !.level = before.snapLevel]}
         [] p.kind = "reset" ->
              {[With([x \in Slots |-> << >>], [x \in Slots |-> 0], [d \in DOMAIN before.kv |-> Junk])
                  EXCEPT !.level = TRUE]}
         [] OTHER ->
              {With([before.rec EXCEPT ![s] = MS!Absorb(s, p.tokens)], [n EXCEPT ![s] = @ + t],
                    MS!WithRows(s, n[s], t, MS!Absorb(s, p.tokens)))}

\* What is left of an operation cut short: where old and new differ, Junk.
Torn(p) ==
    UNION {
        {[rec |-> MS!Torn(before.rec, m.rec), nKeys |-> k, kv |-> MS!Torn(before.kv, m.kv),
          level |-> before.level /\ m.level /\ m.nKeys = before.nKeys,
          snapRec |-> MS!Torn(before.snapRec, m.snapRec), snapKeys |-> sk,
          snapLevel |-> before.snapLevel /\ m.snapLevel /\ m.snapKeys = before.snapKeys] :
            k \in {before.nKeys, m.nKeys}, sk \in {before.snapKeys, m.snapKeys}} : m \in Whole(p)}

\* The state `x` is `m`, or better where m is Junk.
AtLeast(x, m) ==
    /\ x.nKeys = m.nKeys /\ x.snapKeys = m.snapKeys
    /\ (m.level => x.level) /\ (m.snapLevel => x.snapLevel)
    /\ \A s \in Slots : m.rec[s] \in {Junk, x.rec[s]} /\ m.snapRec[s] \in {Junk, x.snapRec[s]}
    /\ \A d \in DOMAIN m.kv : m.kv[d] \in {Junk, x.kv[d]}

\* A pass does to the state of all sequences what ModelState says its operation does,
\* in one step when it returns; one cut short by an error or a refusal loses no more
\* than ModelState's torn operations do.  Seen from outside, nothing else ever changes.
\* A pass that computes must begin with the layers' counts level: after an error that
\* takes a restore or a reset, as run_group begins with.
StateRefines ==
    [][/\ pass # Idle /\ pass' = Idle
       /\ \/ pass.kind \in Computes /\ ~before.level
          \/ \E m \in (IF Finished THEN Whole(pass) ELSE Torn(pass)) : AtLeast(Seen', m)]_Shown
=============================================================================
