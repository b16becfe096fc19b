---------------------------- MODULE MCForwardPass ----------------------------
(* Small instances of ForwardPass for TLC. *)
EXTENDS ForwardPass

CONSTANTS a, b

MCToken == {a, b}
MCGreedy == [h \in {c \in MS!Context : TRUE} |-> a]
\* Two attention layers, which an error may leave with different counts.
MCLayers == <<"delta", "attn", "attn">>

\* As shipped; with split activations, which shares no cast; on the fp32 GEMM.
MCEnvironments ==
    {[tcGemm |-> TRUE, split |-> 1, castHoist |-> TRUE],
     [tcGemm |-> TRUE, split |-> 3, castHoist |-> TRUE],
     [tcGemm |-> FALSE, split |-> 2, castHoist |-> TRUE]}

\* Hidden size 2; a matrix of fewer than 2 rows is small.
Matrix(n, k, dtype) == [n |-> n, k |-> k, dtype |-> dtype]
MCShape ==
    [in_proj_qkv |-> Matrix(4, 2, "nvfp4"),
     in_proj_z |-> Matrix(3, 2, "nvfp4"),
     in_proj_a |-> Matrix(1, 2, "bf16"),
     in_proj_b |-> Matrix(1, 2, "bf16"),
     out_proj |-> Matrix(2, 3, "nvfp4"),
     q_proj |-> Matrix(4, 2, "fp8"),
     k_proj |-> Matrix(2, 2, "fp8"),
     v_proj |-> Matrix(2, 2, "fp8"),
     o_proj |-> Matrix(2, 3, "fp8"),
     gate |-> Matrix(5, 2, "nvfp4"),
     up |-> Matrix(5, 2, "nvfp4"),
     down |-> Matrix(2, 5, "nvfp4"),
     lm_head |-> Matrix(6, 2, "nvfp4")]

\* One token, two (small matrices run as GEMVs), three (none does), and one more than
\* the scratch holds.
MCChunks == {<<a>>, <<b, a>>, <<a, b, a>>, <<a, a, a, b>>}
MCBatches == {<<a>>, <<b, a>>}
=============================================================================
