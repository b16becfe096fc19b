------------------------------ MODULE Projection ------------------------------
(***************************************************************************)
(* Linear projections, gb10-model/src/weights.rs: which launches a matrix  *)
(* product becomes.  Decoding runs a GEMV per token; a prefill takes one   *)
(* of three paths by its length, the matrix's shape and the environment.   *)
(*                                                                         *)
(* The tensor-core path stages both operands in TcScratch, one allocation  *)
(* shared by every projection of the model, so what is staged is only ever *)
(* that of the last projection.  forward_prefill_shared_input lets the     *)
(* projections of one input share a single staging of it.                  *)
(***************************************************************************)
EXTENDS Kernels, SequencesExt

CONSTANTS
    Shape,      \* the rows n, columns k and stored type of every projection, by name
    GemvMax,    \* tokens up to which a prefill is run as GEMVs (16)
    SmallN,     \* rows below which a matrix is small (256)
    SmallNCut,  \* tokens up to which a small matrix is run as GEMVs (256)
    Environments  \* the settings of GB10_TC_GEMM, GB10_TC_SPLIT and GB10_CAST_HOIST explored

ASSUME ShapeAssumption ==
    /\ {GemvMax, SmallN, SmallNCut} \subseteq Nat
    /\ \A p \in DOMAIN Shape : /\ Shape[p].n \in Nat \ {0} /\ Shape[p].k \in Nat \ {0}
                             /\ Shape[p].dtype \in {"nvfp4", "fp8", "bf16"}

\* GB10_TC_SPLIT=0, which stages three parts and multiplies one, is left out.
ASSUME EnvironmentAssumption == Environments \subseteq [tcGemm : BOOLEAN, split : 1 .. 3, castHoist : BOOLEAN]

VARIABLE env    \* the process's environment

\* A projection is the layer it belongs to and its name.
N(w) == Shape[w[2]].n
K(w) == Shape[w[2]].k

\* Linear::forward: one GEMV over the batch.
Forward(w, x, y, t) ==
    <<IF Shape[w[2]].dtype = "bf16" THEN Bf16Gemv(w, x, y, t) ELSE Gemv(w, x, y, t)>>

UsesTensorCorePrefill(w, t) ==
    ~(t <= GemvMax \/ (N(w) < SmallN /\ t < SmallNCut)) /\ env.tcGemm

\* The bf16 parts an activation is split into, in the order they are multiplied.
PartsOf(split) ==
    CASE split = 1 -> <<"hi">> [] split = 2 -> <<"hi", "lo">> [] OTHER -> <<"hi", "lo", "mid">>

\* A build that runs every NVFP4 matrix on the two-dimensional grid.
DequantAlways2d(w) == DequantNvFp4ToBf162d(w, N(w), K(w))
\* The weight's dequantisation by its stored type and, for NVFP4, its height.
DequantOf(w) ==
    CASE Shape[w[2]].dtype = "nvfp4" ->
            IF N(w) <= MaxGridRows THEN DequantNvFp4ToBf162d(w, N(w), K(w))
            ELSE DequantNvFp4ToBf16(w, N(w), K(w))
      [] Shape[w[2]].dtype = "fp8" -> DequantFp8ToBf16(w, N(w), K(w))
      [] OTHER -> U16ToBf16(w, N(w), K(w))

Cast(x, t, k) ==
    CASE env.split = 1 -> F32ToBf16(x, t, k)
      [] env.split = 2 -> F32SplitBf16(x, t, k)
      [] OTHER -> F32Split3Bf16(x, t, k)

\* Linear::forward_prefill_tensor_core.
ForwardPrefillTensorCore(w, x, y, t, precast) ==
    LET parts == PartsOf(env.split)
        cells == N(w) * K(w)
    IN <<GrowScratch(cells, Part, t * K(w)), DequantOf(w)>>
       \o (IF precast THEN << >> ELSE <<Cast(x, t, K(w))>>)
       \o [i \in DOMAIN parts |->
             CublasGemm(w, parts[i], Range(parts), x, y, IF i = 1 THEN 0 ELSE 1, cells, t, K(w))]

\* Linear::cast_activation_bf16.
CastActivationBf16(w, x, t) ==
    <<GrowScratch(0, {"hi"}, t * K(w)), F32ToBf16(x, t, K(w))>>

\* Linear::forward_prefill.
ForwardPrefill(w, x, y, t) ==
    IF t <= GemvMax \/ (N(w) < SmallN /\ t < SmallNCut) THEN Forward(w, x, y, t)
    ELSE IF env.tcGemm THEN ForwardPrefillTensorCore(w, x, y, t, FALSE)
    ELSE <<GemmFp32(w, x, y, t)>>

\* The projections of one input can share one staging of it.
Shareable(ws, t) ==
    /\ env.split = 1
    /\ env.castHoist
    /\ \A i \in DOMAIN ws : UsesTensorCorePrefill(ws[i], t) /\ K(ws[i]) = K(ws[1])

\* weights::forward_prefill_shared_input.
ForwardPrefillSharedInput(ws, x, ys, t) ==
    IF Shareable(ws, t)
    THEN CastActivationBf16(ws[1], x, t)
         \o FlattenSeq([i \in DOMAIN ws |-> ForwardPrefillTensorCore(ws[i], x, ys[i], t, TRUE)])
    ELSE FlattenSeq([i \in DOMAIN ws |-> ForwardPrefill(ws[i], x, ys[i], t)])
=============================================================================
