----------------------------- MODULE MCStartup -----------------------------
\* A small instance of Startup for TLC: a model of two matrices, one of them
\* packed, and a norm, in two shards, and what can be wrong with its files.
EXTENDS Startup, Sequences

CONSTANTS q, fc, norm

W(m) == <<m, "weight">>
S(m) == <<m, "weight_scale">>
S2(m) == <<m, "weight_scale_2">>

MCFileOrder == <<"f1", "f2">>
MCNameOrder == <<W(fc), S(fc), W(norm), W(q), S(q), S2(q)>>
Want(kind, m) == [kind |-> kind, module |-> m]
MCWanted == <<Want("vector", norm), Want("linear", q), Want("linear", fc)>>

Size(d, shape) == (IF d = "BF16" THEN 2 ELSE IF d = "F32" THEN 4 ELSE 1)
                  * (IF Len(shape) = 2 THEN shape[1] * shape[2] ELSE shape[1])
Tensor(d, shape) == [dtype |-> d, shape |-> shape, nbytes |-> Size(d, shape)]

\* The shards of a sound checkpoint: q is packed, 2 rows of 4 in groups of 2.
F1 == [t \in {W(norm), W(fc), S(fc)} |->
        IF t = W(norm) THEN Tensor("BF16", <<3>>)
        ELSE IF t = W(fc) THEN Tensor("F8_E4M3", <<2, 3>>) ELSE Tensor("F32", <<1>>)]
F2 == [t \in {W(q), S(q), S2(q)} |->
        IF t = W(q) THEN Tensor("U8", <<2, 2>>)
        ELSE IF t = S(q) THEN Tensor("F8_E4M3", <<2, 2>>) ELSE Tensor("F32", <<1>>)]
Map == [t \in {W(norm), W(fc), S(fc), W(q), S(q), S2(q)} |-> IF t \in DOMAIN F1 THEN "f1" ELSE "f2"]
Disk(map, a, b) ==
    [map |-> map, files |-> [f \in {"f1", "f2"} |-> IF f = "f1" THEN a ELSE b], bad |-> {}]

Without(f, t) == [x \in DOMAIN f \ {t} |-> f[x]]
With(f, t, info) == [x \in DOMAIN f \union {t} |-> IF x = t THEN info ELSE f[x]]

MCDisks ==
    {Disk(m, F1, F2) : m \in {Map, NoIndex}}
    \union {[Disk(Map, F1, F2) EXCEPT !.bad = {"f2"}], [map |-> NoIndex, files |-> << >>, bad |-> {}]}
    \* a tensor missing, listed or not
    \union {Disk(m, F1, Without(F2, t)) : m \in {Map, NoIndex}, t \in DOMAIN F2}
    \* a tensor in another shard than the map says, or in both
    \union {Disk([Map EXCEPT ![W(fc)] = "f2"], F1, F2),
            Disk(Map, F1, With(F2, W(fc), Tensor("BF16", <<3, 2>>))),
            Disk(NoIndex, F1, With(F2, W(norm), Tensor("BF16", <<4>>)))}
    \* another type or shape
    \union {Disk(Map, F1, With(F2, W(q), info)) :
              info \in {Tensor("BF16", <<2, 4>>), Tensor("F32", <<2, 2>>), Tensor("U8", <<2, 3>>),
                        Tensor("U8", <<4>>), [Tensor("U8", <<2, 2>>) EXCEPT !.nbytes = 3]}}
    \union {Disk(Map, F1, With(F2, S(q), info)) :
              info \in {Tensor("F8_E4M3", <<2, 4>>), Tensor("F8_E4M3", <<1, 2>>), Tensor("F32", <<1>>)}}
    \union {Disk(Map, With(F1, S(fc), Tensor("BF16", <<1>>)), F2),
            Disk(Map, With(F1, W(norm), Tensor("F32", <<3>>)), F2)}
=============================================================================
