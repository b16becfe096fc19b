------------------------------- MODULE Kernels -------------------------------
(***************************************************************************)
(* Device memory and the launch wrappers of gb10-cuda that the decoder's   *)
(* forward passes are made of.                                             *)
(*                                                                         *)
(* A number is the term that computes it: Term(op, weight, arguments).     *)
(* Buffers are rows of terms, one row per token (or, in a batched step,    *)
(* per sequence).  A wrapper is the launch record it puts on the stream;   *)
(* running the record is the kernel's effect on the buffers.  A wrapper    *)
(* compares some of the sizes it is given, all of them or none, and        *)
(* refuses a launch that does not fit those; what it misses the kernel     *)
(* reads and stores wherever it falls (WildAccess).                        *)
(***************************************************************************)
EXTENDS Integers, Sequences, FiniteSets

CONSTANTS
    NSeq,         \* sequence slots
    Ctx,          \* rows per sequence: KV rows, and rows of the residual stream
    LayerKind,    \* <<"delta", "attn", ...>>
    ConvHist,     \* conv inputs kept per sequence: linear_conv_kernel_dim - 1
    ScratchRows,  \* rows of every scratch buffer: the prefill chunk
    VerifyMax,    \* rows all_logits can score
    MaxThreads,   \* threads of the widest one-dimensional grid: 65535 * 256
    MaxGridRows   \* rows of the tallest two-dimensional grid: 65535

Layer == 1 .. Len(LayerKind)
DeltaLayer == {l \in Layer : LayerKind[l] = "delta"}
AttnLayer == {l \in Layer : LayerKind[l] = "attn"}
Seqs == 0 .. NSeq - 1

VARIABLES
    buf,        \* the scratch, and the residual stream, logits and indices of ModelState
    convHist,   \* LayerState::conv_hist, flat over the sequences
    recur,      \* LayerState::rec, one element per sequence
    cache,      \* k_cache and v_cache, flat over the sequences
    positions,  \* LayerState::positions, the device copy of n_keys
    keys,       \* LayerState::n_keys, on the host
    staged      \* TcScratch: the tensor-core path's operands

ASSUME KernelSizes ==
    /\ {NSeq, Ctx, ConvHist, ScratchRows, VerifyMax, MaxThreads, MaxGridRows}
        \subseteq Nat \ {0}
    /\ LayerKind \in Seq({"delta", "attn"})
    /\ ScratchRows <= Ctx /\ NSeq <= ScratchRows

\* An op without a weight has the weight "none".
Term(op, w, args) == <<op, w, args>>

\* What a buffer holds that the current pass did not compute, and a freshly zeroed one.
Stale == Term("stale", "none", << >>)
Zero == Term("zero", "none", << >>)

\* Scratch::new: every buffer holds the same number of tokens.
ScratchBuffer ==
    {"hidden", "mlp_in", "fused", "qkv", "conv", "conv_ln", "down", "z", "q", "gate",
     "kb", "kb_ln", "vb", "attn", "gnorm", "proj", "res", "a_proj", "b_proj", "decay",
     "beta", "inter", "inter2", "cos", "sin"}

\* ModelState::new: the rows of the buffers that are not scratch.
ModelBuffer ==
    [a |-> Ctx, b |-> Ctx, normed |-> Ctx, last |-> 1, logits |-> NSeq, idx |-> NSeq,
     logits_all |-> VerifyMax, idx_all |-> VerifyMax]

Buffer == ScratchBuffer \union DOMAIN ModelBuffer
Capacity(b) == IF b \in ScratchBuffer THEN ScratchRows ELSE ModelBuffer[b]
BufRow == 0 .. Ctx - 1

\* Strides of the flat per-sequence buffers.
ConvStride == ConvHist
\* A build that strides the cache by the rows of a scratch buffer.
ScratchKvStride == ScratchRows
KvStride == Ctx

-----------------------------------------------------------------------------
(* Row-wise kernels: row r of each output from row r of the inputs.         *)

Store(out, op, w, ins) == [out |-> out, op |-> op, w |-> w, ins |-> ins]

\* The sizes a wrapper may compare before it launches: of the buffers it is given, of
\* the KV cache at the positions it is given, of the staging buffers.
Unchecked == {}
Sizes == Buffer \union {"cache", "staging"}

\* A build whose wrappers check no shapes.
RowsUnchecked(stores, t, checked) ==
    [kind |-> "rows", stores |-> stores, rows |-> t, checked |-> Unchecked]
Rows(stores, t, checked) ==
    [kind |-> "rows", stores |-> stores, rows |-> t, checked |-> checked]

\* The GEMVs of quantised weights check their operands, the bf16 one does not.
Gemv(w, x, y, t) == Rows({Store(y, "linear", w, <<x>>)}, t, Sizes)
Bf16Gemv(w, x, y, t) == Rows({Store(y, "linear", w, <<x>>)}, t, Unchecked)
GemmFp32(w, x, y, t) == Rows({Store(y, "linear", w, <<x>>)}, t, Unchecked)

RmsnormZeroCentered(x, w, y, t) == Rows({Store(y, "rmsnorm", w, <<x>>)}, t, Sizes)
RmsnormZeroCenteredInplace(y, w, t) == Rows({Store(y, "rmsnorm", w, <<y>>)}, t, Sizes)
\* Its output is not compared.
RmsnormGated(x, z, w, y, t) ==
    Rows({Store(y, "rmsnorm_gated", w, <<x, z>>)}, t, Sizes \ {y})
SwigluInplace(y, up, t) == Rows({Store(y, "swiglu", "none", <<y, up>>)}, t, Sizes)
Add(x, z, y, t) == Rows({Store(y, "add", "none", <<x, z>>)}, t, Sizes)
SigmoidMul(y, gate, t) == Rows({Store(y, "sigmoid_mul", "none", <<y, gate>>)}, t, Sizes)
L2normScale(section) == Rows({Store("conv_ln", "l2norm", section, <<"conv_ln">>)}, 1, Sizes)
L2normScaleBatched(section, t) ==
    Rows({Store("conv_ln", "l2norm", section, <<"conv_ln">>)}, t, Unchecked)

DeltaGateStores(l) ==
    {Store("decay", "decay", l, <<"a_proj">>), Store("beta", "beta", l, <<"b_proj">>)}
DeltaGate(l) == Rows(DeltaGateStores(l), 1, Sizes)
DeltaGateBatched(l, t) == Rows(DeltaGateStores(l), t, Unchecked)

HeadStores(dst, half) == {Store(dst, "half", half, <<"fused">>)}
DeinterleaveHeads(dst, half) == Rows(HeadStores(dst, half), 1, Sizes)
DeinterleaveHeadsBatched(dst, half, t) == Rows(HeadStores(dst, half), t, Unchecked)

RopeStores ==
    {Store(b, "rope", "none", <<b, "cos", "sin">>) : b \in {"q", "kb_ln"}}
\* Of its four operands, the tables alone are compared.
RopeNeox == Rows(RopeStores, 1, {"cos", "sin"})
RopeNeoxBatched(t) == Rows(RopeStores, t, Unchecked)

Argmax == Rows({Store("idx", "argmax", "none", <<"logits">>)}, 1, Sizes)
ArgmaxMulti(x, y, t) == Rows({Store(y, "argmax", "none", <<x>>)}, t, Sizes)

\* Values the host writes into buffer `out`, one per row.
Upload(out, values, checked) ==
    [kind |-> "upload", out |-> out, values |-> values, rows |-> Len(values), checked |-> checked]

EmbedRow(tok) == Term("embed", "none", <<tok>>)
EmbedGather(tok) == Upload("a", <<EmbedRow(tok)>>, Sizes)
EmbedGatherBatched(toks) == Upload("a", [i \in DOMAIN toks |-> EmbedRow(toks[i])], Unchecked)

\* rope_tables, rope_tables_range: the tables of the positions `ps`, a row each.
Angle(f, p) == Term(f, "none", <<p>>)
RopeTables(ps) ==
    <<Upload("cos", [i \in DOMAIN ps |-> Angle("cos", ps[i])], Sizes),
      Upload("sin", [i \in DOMAIN ps |-> Angle("sin", ps[i])], Sizes)>>

\* Rows from .. from+t-1 of src to the head of dst.
Copy(src, dst, from, t, checked) ==
    [kind |-> "copy", src |-> src, dst |-> dst, from |-> from, rows |-> t, checked |-> checked]
CopyLastRow(src, dst, t) == Copy(src, dst, t - 1, 1, Unchecked)

\* copy_live clamps to both buffers instead of refusing.
CopyLive(src, dst, t) == Copy(src, dst, 0, IF t < Capacity(dst) THEN t ELSE Capacity(dst), Sizes)

-----------------------------------------------------------------------------
(* Kernels that carry state.  A lane is the rows one sequence contributes,  *)
(* in order: a prefill is one lane of t rows, a batched step a lane of one  *)
(* row per sequence.                                                        *)

OneLane(s, t) == {[seq |-> s, rows |-> [i \in 1 .. t |-> i - 1]]}
LanePerSeq(n) == {[seq |-> s, rows |-> <<s>>] : s \in 0 .. n - 1}

\* pos is the position of the lane's first row; a _multi kernel reads it from
\* `positions` (fromDevice) and pos is then what it adds.
Stateful(kind, l, lanes, pos, fromDevice, checked) ==
    [kind |-> kind, layer |-> l, lanes |-> lanes, pos |-> pos, fromDevice |-> fromDevice,
     checked |-> checked]

Conv1dStepSilu(l) == Stateful("conv", l, OneLane(0, 1), 0, FALSE, Sizes)
Conv1dPrefillSilu(l, s, t) == Stateful("conv", l, OneLane(s, t), 0, FALSE, Unchecked)
Conv1dStepSiluMulti(l, n) == Stateful("conv", l, LanePerSeq(n), 0, FALSE, Sizes)

GatedDeltaRuleStep(l) == Stateful("rule", l, OneLane(0, 1), 0, FALSE, Sizes)
GatedDeltaRuleChunk(l, s, t) == Stateful("rule", l, OneLane(s, t), 0, FALSE, Unchecked)
\* Its first operand is not compared.
GatedDeltaRuleStepMulti(l, n) ==
    Stateful("rule", l, LanePerSeq(n), 0, FALSE, Sizes \ {"conv_ln"})

KvCacheAppend(l, pos) == Stateful("append", l, OneLane(0, 1), pos, FALSE, Sizes)
KvCacheAppendBatched(l, s, pos, t) == Stateful("append", l, OneLane(s, t), pos, FALSE, Unchecked)
\* One block per sequence of the state, whatever the batch is.  The positions are on
\* the device, where no wrapper sees them.
KvCacheAppendMulti(l) == Stateful("append", l, LanePerSeq(NSeq), 0, TRUE, Buffer)

AttnDecode(l, nKeys) == Stateful("attend", l, OneLane(0, 1), nKeys - 1, FALSE, {"cache"})
\* The FA2 kernel, where GB10_FA2 selects it, is launched after the same check.
AttnPrefillTiled(l, s, start, t) == Stateful("attend", l, OneLane(s, t), start, FALSE, Sizes)
AttnPrefill(l, s, start, t) == AttnPrefillTiled(l, s, start, t)
AttnDecodeMulti(l) == Stateful("attend", l, LanePerSeq(NSeq), -1, TRUE, {"q"})

SyncPositions(l) == [kind |-> "sync", layer |-> l, checked |-> Unchecked]
\* A host that adds the new length to the old one.
SetKeysAdding(l, ks) ==
    [kind |-> "keys", layer |-> l, keys |-> [s \in Seqs |-> keys[l][s] + ks[s]], checked |-> Unchecked]
\* `state.n_keys[..]` assigned by the host.
SetKeys(l, ks) == [kind |-> "keys", layer |-> l, keys |-> ks, checked |-> Unchecked]

\* The position of the lane's first row.
PosOf(L, lane) == L.pos + (IF L.fromDevice THEN positions[L.layer][lane.seq] ELSE 0)

\* The flat cache row of the i-th row of a lane.
KvRowOf(L, lane, i) == lane.seq * KvStride + PosOf(L, lane) + i - 1

-----------------------------------------------------------------------------
(* The tensor-core path's launches over TcScratch.                          *)

\* The kernels before they looped: one element per thread.
ReachCapped(n) == IF n < MaxThreads THEN n ELSE MaxThreads
\* Elements a launch over n elements reaches: the staging kernels loop with the
\* grid's stride, so a grid capped at MaxThreads still reaches them all.
Reach(n) == n

Part == {"hi", "mid", "lo"}
GrowScratch(cells, parts, actCells) ==
    [kind |-> "grow", cells |-> cells, parts |-> parts, actCells |-> actCells, checked |-> Unchecked]

\* An n by k matrix dequantised into the staging buffer, by a grid that strides over
\* its elements or by one with a row for every row of it.
Dequant(w, n, k, perRow) ==
    [kind |-> "dequant", w |-> w, n |-> n, cells |-> n * k, perRow |-> perRow, checked |-> Sizes]
DequantNvFp4ToBf16(w, n, k) == Dequant(w, n, k, FALSE)
DequantNvFp4ToBf162d(w, n, k) == Dequant(w, n, k, TRUE)
DequantFp8ToBf16(w, n, k) == Dequant(w, n, k, FALSE)
U16ToBf16(w, n, k) == Dequant(w, n, k, FALSE)

\* t rows of k activations staged as one, two or three bf16 parts that add up to them.
CastBf16(x, parts, t, k) ==
    [kind |-> "cast", x |-> x, parts |-> parts, rows |-> t, k |-> k, checked |-> Sizes]
F32ToBf16(x, t, k) == CastBf16(x, {"hi"}, t, k)
F32SplitBf16(x, t, k) == CastBf16(x, {"hi", "lo"}, t, k)
F32Split3Bf16(x, t, k) == CastBf16(x, Part, t, k)

\* cublas_gemm_bf16_f32: y = w * part, or y + w * part when beta = 1.
CublasGemm(w, part, whole, x, y, beta, cells, t, k) ==
    [kind |-> "gemm", w |-> w, part |-> part, whole |-> whole, x |-> x, y |-> y, beta |-> beta,
     cells |-> cells, rows |-> t, k |-> k, checked |-> Sizes]

-----------------------------------------------------------------------------
(* What running a launch does.                                              *)

RunRows(L) ==
    /\ L.kind = "rows"
    /\ buf' = [b \in Buffer |->
                IF \E w \in L.stores : w.out = b
                THEN LET w == CHOOSE w \in L.stores : w.out = b
                     IN [r \in BufRow |->
                           IF r < L.rows
                           THEN Term(w.op, w.w, [i \in DOMAIN w.ins |-> buf[w.ins[i]][r]])
                           ELSE buf[b][r]]
                ELSE buf[b]]
    /\ UNCHANGED <<convHist, recur, cache, positions, keys, staged>>

RunUpload(L) ==
    /\ L.kind = "upload"
    /\ buf' = [buf EXCEPT ![L.out] =
                [r \in BufRow |-> IF r < L.rows THEN L.values[r + 1] ELSE @[r]]]
    /\ UNCHANGED <<convHist, recur, cache, positions, keys, staged>>

RunCopy(L) ==
    /\ L.kind = "copy"
    /\ buf' = [buf EXCEPT ![L.dst] =
                [r \in BufRow |-> IF r < L.rows THEN buf[L.src][L.from + r] ELSE @[r]]]
    /\ UNCHANGED <<convHist, recur, cache, positions, keys, staged>>

\* The lane that works on row r, and which of its rows r is.
Works(L, r) == {p \in L.lanes \X (1 .. Ctx) : p[2] <= Len(p[1].rows) /\ p[1].rows[p[2]] = r}

\* `out` with value(lane, i) in the i-th row of every lane.
InLanes(L, out, value(_, _)) ==
    [buf EXCEPT ![out] =
        [r \in BufRow |->
            IF Works(L, r) # {} THEN LET p == CHOOSE p \in Works(L, r) : TRUE IN value(p[1], p[2])
            ELSE @[r]]]

\* The depthwise conv: each row sees the ConvHist inputs before it, and the
\* last ConvHist inputs stay behind as history.
Fed(L, lane) ==
    [j \in 1 .. ConvStride |-> convHist[L.layer][lane.seq * ConvStride + j - 1]]
        \o [i \in 1 .. Len(lane.rows) |-> buf["qkv"][lane.rows[i]]]

RunConv(L) ==
    /\ L.kind = "conv"
    /\ LET window(lane, i) == Term("conv", L.layer, SubSeq(Fed(L, lane), i, i + ConvHist))
       IN buf' = InLanes(L, "conv", window)
    /\ convHist' = [convHist EXCEPT ![L.layer] =
        [d \in DOMAIN @ |->
            IF \E lane \in L.lanes : d \div ConvStride = lane.seq
            THEN LET lane == CHOOSE lane \in L.lanes : d \div ConvStride = lane.seq
                 IN Fed(L, lane)[Len(lane.rows) + 1 + (d % ConvStride)]
            ELSE @[d]]]
    /\ UNCHANGED <<recur, cache, positions, keys, staged>>

\* The state of a lane's sequence after its first n rows.
Folded(L, lane) ==
    LET f[n \in 0 .. Len(lane.rows)] ==
          IF n = 0 THEN recur[L.layer][lane.seq]
          ELSE Term("state", L.layer, <<f[n - 1], buf["conv_ln"][lane.rows[n]],
                                        buf["decay"][lane.rows[n]], buf["beta"][lane.rows[n]]>>)
    IN f

RunRule(L) ==
    /\ L.kind = "rule"
    /\ LET read(lane, i) ==
             Term("read", L.layer, <<Folded(L, lane)[i], buf["conv_ln"][lane.rows[i]]>>)
       IN buf' = InLanes(L, "attn", read)
    /\ recur' = [recur EXCEPT ![L.layer] =
        [s \in Seqs |->
            IF \E lane \in L.lanes : lane.seq = s
            THEN LET lane == CHOOSE lane \in L.lanes : lane.seq = s
                 IN Folded(L, lane)[Len(lane.rows)]
            ELSE @[s]]]
    /\ UNCHANGED <<convHist, cache, positions, keys, staged>>

\* The lane rows that land on flat cache row d; when two do, either may win.
Landing(L, d) ==
    {p \in L.lanes \X (1 .. Ctx) : p[2] <= Len(p[1].rows) /\ KvRowOf(L, p[1], p[2]) = d}

\* The rows that fall outside the cache are stored in memory of no concern here.
RunAppend(L) ==
    /\ L.kind = "append"
    /\ \E rank \in {[p \in L.lanes \X (1 .. Ctx) |-> p[1].seq],
                    [p \in L.lanes \X (1 .. Ctx) |-> -p[1].seq]} :
         cache' = [cache EXCEPT ![L.layer] =
            [d \in DOMAIN @ |->
                IF Landing(L, d) = {} THEN @[d]
                ELSE LET p == CHOOSE p \in Landing(L, d) :
                                \A o \in Landing(L, d) : rank[p] <= rank[o]
                         r == p[1].rows[p[2]]
                     IN Term("kv", L.layer, <<buf["kb_ln"][r], buf["vb"][r]>>)]]
    /\ UNCHANGED <<buf, convHist, recur, positions, keys, staged>>

\* Nothing this pass computed lies outside the cache.
CacheRow(l, d) == IF d \in DOMAIN cache[l] THEN cache[l][d] ELSE Stale

\* Row i of a lane attends to the cache from its sequence's base to its own position.
RunAttend(L) ==
    /\ L.kind = "attend"
    /\ LET attend(lane, i) ==
             Term("attend", "none", <<buf["q"][lane.rows[i]],
               [j \in 1 .. PosOf(L, lane) + i |-> CacheRow(L.layer, lane.seq * KvStride + j - 1)]>>)
       IN buf' = InLanes(L, "attn", attend)
    /\ UNCHANGED <<convHist, recur, cache, positions, keys, staged>>

RunSync(L) ==
    /\ L.kind = "sync"
    /\ positions' = [positions EXCEPT ![L.layer] = keys[L.layer]]
    /\ UNCHANGED <<buf, convHist, recur, cache, keys, staged>>

RunKeys(L) ==
    /\ L.kind = "keys"
    /\ keys' = [keys EXCEPT ![L.layer] = L.keys]
    /\ UNCHANGED <<buf, convHist, recur, cache, positions, staged>>

\* A build that allocates the staging buffers at their first use only.
OutgrownOnce(have, want) == have = 0 /\ want > 0
Outgrown(have, want) == have < want

\* A buffer that is too small is replaced by a larger one, its content lost.
RunGrow(L) ==
    /\ L.kind = "grow"
    /\ staged' =
        [w |-> IF Outgrown(staged.w.cells, L.cells) THEN [cells |-> L.cells, val |-> Stale] ELSE staged.w,
         act |-> [p \in Part |->
            IF p \in L.parts /\ Outgrown(staged.act[p].cells, L.actCells)
            THEN [cells |-> L.actCells, rows |-> [r \in BufRow |-> Stale]]
            ELSE staged.act[p]]]
    /\ UNCHANGED <<buf, convHist, recur, cache, positions, keys>>

RunDequant(L) ==
    /\ L.kind = "dequant"
    /\ staged' = [staged EXCEPT !.w.val = IF Reach(L.cells) >= L.cells THEN L.w ELSE Stale]
    /\ UNCHANGED <<buf, convHist, recur, cache, positions, keys>>

RunCast(L) ==
    /\ L.kind = "cast"
    /\ LET cast(p) ==
             [r \in BufRow |->
                IF r < L.rows /\ (r + 1) * L.k <= Reach(L.rows * L.k)
                THEN Term("part", p, <<L.parts, buf[L.x][r]>>) ELSE staged.act[p].rows[r]]
       IN staged' = [staged EXCEPT !.act =
            [p \in Part |-> IF p \in L.parts THEN [staged.act[p] EXCEPT !.rows = cast(p)]
                            ELSE staged.act[p]]]
    /\ UNCHANGED <<buf, convHist, recur, cache, positions, keys>>

\* The sum so far of weight w times the parts `ps`: the product itself once every
\* part of one activation has been added.
Product(w, ps, whole, x) ==
    IF ps = {Term("part", p, <<whole, x>>) : p \in whole} THEN Term("linear", w, <<x>>)
    ELSE Term("partial", w, <<ps>>)

RunGemm(L) ==
    /\ L.kind = "gemm"
    /\ buf' = [buf EXCEPT ![L.y] =
        [r \in BufRow |->
            IF r < L.rows
            THEN LET sofar == IF L.beta = 1 /\ @[r] # Stale THEN @[r][3][1] ELSE {}
                 IN Product(staged.w.val, sofar \union {staged.act[L.part].rows[r]}, L.whole,
                            buf[L.x][r])
            ELSE @[r]]]
    /\ UNCHANGED <<convHist, recur, cache, positions, keys, staged>>

Run(L) ==
    \/ RunRows(L) \/ RunUpload(L) \/ RunCopy(L)
    \/ RunConv(L) \/ RunRule(L) \/ RunAppend(L) \/ RunAttend(L)
    \/ RunSync(L) \/ RunKeys(L)
    \/ RunGrow(L) \/ RunDequant(L) \/ RunCast(L) \/ RunGemm(L)

\* Launches that write what outlives the pass.
Stores(L) == L.kind \in {"conv", "rule", "append", "keys"}

-----------------------------------------------------------------------------
(* Whether a launch stays inside its buffers.                               *)

Touched(L) ==
    CASE L.kind = "rows" ->
            {w.out : w \in L.stores} \union UNION {{w.ins[i] : i \in DOMAIN w.ins} : w \in L.stores}
      [] L.kind = "upload" -> {L.out}
      [] L.kind = "copy" -> {L.src, L.dst}
      [] L.kind = "conv" -> {"qkv", "conv"}
      [] L.kind = "rule" -> {"conv_ln", "decay", "beta", "attn"}
      [] L.kind = "append" -> {"kb_ln", "vb"}
      [] L.kind = "attend" -> {"q", "attn"}
      [] L.kind = "cast" -> {L.x}
      [] L.kind = "gemm" -> {L.y}
      [] OTHER -> {}

LastRow(L) ==
    IF L.kind \in {"conv", "rule", "append", "attend"}
    THEN CHOOSE r \in BufRow :
            /\ \E lane \in L.lanes : r = lane.rows[Len(lane.rows)]
            /\ \A lane \in L.lanes : lane.rows[Len(lane.rows)] <= r
    ELSE IF L.kind \in {"rows", "upload", "copy", "cast", "gemm"} THEN L.rows - 1 ELSE 0

\* The rows of the KV cache the launch addresses, to the last of each lane.
InCache(L) ==
    L.kind \in {"append", "attend"} =>
        \A lane \in L.lanes : KvRowOf(L, lane, Len(lane.rows)) \in 0 .. NSeq * Ctx - 1

\* The staging buffers hold what the launch addresses in them, and the grid its rows.
InStaging(L) ==
    /\ L.kind = "dequant" =>
         staged.w.cells >= L.cells /\ (L.perRow => L.n <= MaxGridRows)
    /\ L.kind = "cast" => \A p \in L.parts : staged.act[p].cells >= L.rows * L.k
    /\ L.kind = "gemm" => staged.w.cells >= L.cells /\ staged.act[L.part].cells >= L.rows * L.k

\* The launch fits the sizes in `compared`.
Fits(L, compared) ==
    /\ \A b \in Touched(L) \intersect compared : LastRow(L) < Capacity(b)
    /\ "cache" \in compared => InCache(L)
    /\ "staging" \in compared => InStaging(L)

Refused(L) == ~Fits(L, L.checked)

WildAccess(L) == ~Refused(L) /\ ~Fits(L, Sizes)
=============================================================================
