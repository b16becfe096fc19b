------------------------- MODULE ForwardPass_proofs -------------------------
(***************************************************************************)
(* Every launch of every pass stays inside its buffers, and what a shape   *)
(* check refuses is refused before anything was stored, unless the pass    *)
(* began without room in the cache: for any number of sequences and        *)
(* layers, any shapes of the projections, any chunk and any environment.   *)
(* Nothing in the code keeps a caller from starting such a pass, so the    *)
(* room is a condition of what is proved about one pass (Roomy), not an    *)
(* assumption about all of them: their counts go on past the cache         *)
(* (Limit), and everything but the cache rows still fits.                  *)
(*                                                                         *)
(* A launch that runs depends on what ran before it: the tensor-core path  *)
(* on the staging buffers an earlier launch has grown, a batched attention *)
(* layer on the device positions an earlier launch has copied.  So the     *)
(* invariant is about the whole stream that is left of a layer.  A stream  *)
(* is Calm when each launch fits by its own shape (Quiet) and finds its    *)
(* staging grown, already or by a launch before it (Covered); Ready when   *)
(* it also sets the host's count of its layer; and a Queue when it is the  *)
(* batched attention layer, whose sync, append, count, sync and attend     *)
(* come in that order.  The first half shows that every layer puts such a  *)
(* stream on the device, the second that running its head leaves one.      *)
(***************************************************************************)
EXTENDS ForwardPass, TLAPS

LEMMA FlattenTwo ==
    ASSUME NEW a, NEW b
    PROVE  FlattenSeq(<<a, b>>) = a \o b
<1> DEFINE seqs == <<a, b>>
           Eqn(h) == h = [i \in 1 .. Len(seqs) |-> IF i = 1 THEN seqs[i] ELSE h[i - 1] \o seqs[i]]
           g == [i \in 1 .. 2 |-> CASE i = 1 -> a [] i = 2 -> a \o b]
           f == CHOOSE h : Eqn(h)
<1>1. Len(seqs) = 2 /\ seqs[1] = a /\ seqs[2] = b
  OBVIOUS
<1>2. Eqn(g)
  <2> HIDE DEF seqs
  <2>1. \A i \in 1 .. 2 : g[i] = IF i = 1 THEN seqs[i] ELSE g[i - 1] \o seqs[i]
    BY <1>1
  <2> QED BY <1>1, <2>1
<1>3. Eqn(f)
  <2> HIDE DEF Eqn
  <2> QED BY <1>2
<1>4. FlattenSeq(seqs) = f[Len(seqs)]
  BY <1>1 DEF FlattenSeq
<1>5. \A i \in 1 .. 2 : f[i] = IF i = 1 THEN seqs[i] ELSE f[i - 1] \o seqs[i]
  <2> HIDE DEF f, seqs
  <2> QED BY <1>1, <1>3
<1>6. f[2] = a \o b
  <2> HIDE DEF f, seqs
  <2>1. f[1] = a
    BY <1>1, <1>5
  <2>2. f[2] = a \o b
    <3>1. 2 \in 1 .. 2 /\ 2 # 1 /\ 2 - 1 = 1
      OBVIOUS
    <3>2. f[2] = IF 2 = 1 THEN seqs[2] ELSE f[2 - 1] \o seqs[2]
      BY <1>5, <3>1, Zenon
    <3>3. f[2] = f[1] \o seqs[2]
      BY <3>1, <3>2, Zenon
    <3> QED BY <1>1, <2>1, <3>3, Zenon
  <2> QED BY <2>2
<1> QED BY <1>1, <1>4, <1>6

LEMMA FlattenThree ==
    ASSUME NEW a, NEW b, NEW c,
           NEW ab, ab = a \o b, NEW abc, abc = ab \o c
    PROVE  FlattenSeq(<<a, b, c>>) = abc
<1> DEFINE seqs == <<a, b, c>>
           Eqn(h) == h = [i \in 1 .. Len(seqs) |-> IF i = 1 THEN seqs[i] ELSE h[i - 1] \o seqs[i]]
           g == [i \in 1 .. 3 |-> CASE i = 1 -> a [] i = 2 -> a \o b [] i = 3 -> ab \o c]
           f == CHOOSE h : Eqn(h)
<1>1. Len(seqs) = 3 /\ seqs[1] = a /\ seqs[2] = b /\ seqs[3] = c
  OBVIOUS
<1>2. Eqn(g)
  <2> HIDE DEF seqs
  <2>1. \A i \in 1 .. 3 : g[i] = IF i = 1 THEN seqs[i] ELSE g[i - 1] \o seqs[i]
    BY <1>1
  <2> QED BY <1>1, <2>1
<1>3. Eqn(f)
  <2> HIDE DEF Eqn
  <2> QED BY <1>2
<1>4. FlattenSeq(seqs) = f[Len(seqs)]
  BY <1>1 DEF FlattenSeq
<1>5. \A i \in 1 .. 3 : f[i] = IF i = 1 THEN seqs[i] ELSE f[i - 1] \o seqs[i]
  <2> HIDE DEF f, seqs
  <2> QED BY <1>1, <1>3
<1>6. f[3] = ab \o c
  <2> HIDE DEF f, seqs
  <2>1. f[1] = a
    BY <1>1, <1>5
  <2>2. f[2] = a \o b
    <3>1. 2 \in 1 .. 3 /\ 2 # 1 /\ 2 - 1 = 1
      OBVIOUS
    <3>2. f[2] = IF 2 = 1 THEN seqs[2] ELSE f[2 - 1] \o seqs[2]
      BY <1>5, <3>1, Zenon
    <3>3. f[2] = f[1] \o seqs[2]
      BY <3>1, <3>2, Zenon
    <3> QED BY <1>1, <2>1, <3>3, Zenon
  <2>3. f[3] = ab \o c
    <3>1. 3 \in 1 .. 3 /\ 3 # 1 /\ 3 - 1 = 2
      OBVIOUS
    <3>2. f[3] = IF 3 = 1 THEN seqs[3] ELSE f[3 - 1] \o seqs[3]
      BY <1>5, <3>1, Zenon
    <3>3. f[3] = f[2] \o seqs[3]
      BY <3>1, <3>2, Zenon
    <3> QED BY <1>1, <2>2, <3>3, Zenon
  <2> QED BY <2>3
<1> QED BY <1>1, <1>4, <1>6

LEMMA FlattenFour ==
    ASSUME NEW a, NEW b, NEW c, NEW d,
           NEW ab, ab = a \o b, NEW abc, abc = ab \o c, NEW abcd, abcd = abc \o d
    PROVE  FlattenSeq(<<a, b, c, d>>) = abcd
<1> DEFINE seqs == <<a, b, c, d>>
           Eqn(h) == h = [i \in 1 .. Len(seqs) |-> IF i = 1 THEN seqs[i] ELSE h[i - 1] \o seqs[i]]
           g == [i \in 1 .. 4 |-> CASE i = 1 -> a [] i = 2 -> a \o b [] i = 3 -> ab \o c [] i = 4 -> abc \o d]
           f == CHOOSE h : Eqn(h)
<1>1. Len(seqs) = 4 /\ seqs[1] = a /\ seqs[2] = b /\ seqs[3] = c /\ seqs[4] = d
  OBVIOUS
<1>2. Eqn(g)
  <2> HIDE DEF seqs
  <2>1. \A i \in 1 .. 4 : g[i] = IF i = 1 THEN seqs[i] ELSE g[i - 1] \o seqs[i]
    BY <1>1
  <2> QED BY <1>1, <2>1
<1>3. Eqn(f)
  <2> HIDE DEF Eqn
  <2> QED BY <1>2
<1>4. FlattenSeq(seqs) = f[Len(seqs)]
  BY <1>1 DEF FlattenSeq
<1>5. \A i \in 1 .. 4 : f[i] = IF i = 1 THEN seqs[i] ELSE f[i - 1] \o seqs[i]
  <2> HIDE DEF f, seqs
  <2> QED BY <1>1, <1>3
<1>6. f[4] = abc \o d
  <2> HIDE DEF f, seqs
  <2>1. f[1] = a
    BY <1>1, <1>5
  <2>2. f[2] = a \o b
    <3>1. 2 \in 1 .. 4 /\ 2 # 1 /\ 2 - 1 = 1
      OBVIOUS
    <3>2. f[2] = IF 2 = 1 THEN seqs[2] ELSE f[2 - 1] \o seqs[2]
      BY <1>5, <3>1, Zenon
    <3>3. f[2] = f[1] \o seqs[2]
      BY <3>1, <3>2, Zenon
    <3> QED BY <1>1, <2>1, <3>3, Zenon
  <2>3. f[3] = ab \o c
    <3>1. 3 \in 1 .. 4 /\ 3 # 1 /\ 3 - 1 = 2
      OBVIOUS
    <3>2. f[3] = IF 3 = 1 THEN seqs[3] ELSE f[3 - 1] \o seqs[3]
      BY <1>5, <3>1, Zenon
    <3>3. f[3] = f[2] \o seqs[3]
      BY <3>1, <3>2, Zenon
    <3> QED BY <1>1, <2>2, <3>3, Zenon
  <2>4. f[4] = abc \o d
    <3>1. 4 \in 1 .. 4 /\ 4 # 1 /\ 4 - 1 = 3
      OBVIOUS
    <3>2. f[4] = IF 4 = 1 THEN seqs[4] ELSE f[4 - 1] \o seqs[4]
      BY <1>5, <3>1, Zenon
    <3>3. f[4] = f[3] \o seqs[4]
      BY <3>1, <3>2, Zenon
    <3> QED BY <1>1, <2>3, <3>3, Zenon
  <2> QED BY <2>4
<1> QED BY <1>1, <1>4, <1>6

-----------------------------------------------------------------------------
(* When a launch, and a stream of launches, stays inside its buffers.        *)

IsSeq(s) == \E S : s \in Seq(S)

\* The pass began with room in the cache; what the passes so far can have counted.
Roomy == HasRoom(pass)
Limit == passes * Ctx

Held(t, b) == t \in Nat \ {0} /\ Capacity(b) \in Nat /\ t <= Capacity(b)

\* What the launch itself decides; what is staged when it runs comes apart.
Fitting(L) ==
    /\ \A b \in Touched(L) : LastRow(L) < Capacity(b)
    /\ L.kind = "grow" => L.cells \in Nat /\ L.actCells \in Nat
    /\ L.kind = "dequant" => L.cells \in Nat /\ (L.perRow => L.n <= MaxGridRows)
    /\ L.kind = "cast" => L.rows * L.k \in Nat /\ L.parts \subseteq Part
    /\ L.kind = "gemm" => L.cells \in Nat /\ L.rows * L.k \in Nat /\ L.part \in Part

\* The cache rows of a launch that is given its position.
GivenRows(L) ==
    \A lane \in L.lanes :
        lane.seq * KvStride + (L.pos + 0) + Len(lane.rows) - 1 \in 0 .. NSeq * Ctx - 1

\* A launch that reads no position of the device and moves no count.
Quiet(L) ==
    /\ Fitting(L)
    /\ L.kind \notin {"sync", "keys"}
    /\ L.kind \in {"append", "attend"} => ~L.fromDevice /\ (Roomy => GivenRows(L))

\* The same, or the host's count of layer l.
Sound(L, l) ==
    \/ Quiet(L)
    \/ /\ L.kind = "keys" /\ L.layer = l /\ l \in Layer
       /\ L.keys \in [Seqs -> 0 .. Limit]

\* The staging buffers hold c elements when the i-th launch runs: already, or
\* because a launch before it has grown them.
WeightHeld(sq, i, c) ==
    \/ staged.w.cells >= c
    \/ \E j \in 1 .. i - 1 : sq[j].kind = "grow" /\ sq[j].cells >= c
PartHeld(sq, i, p, c) ==
    \/ staged.act[p].cells >= c
    \/ \E j \in 1 .. i - 1 : sq[j].kind = "grow" /\ p \in sq[j].parts /\ sq[j].actCells >= c

StagedFor(sq, i) ==
    /\ sq[i].kind \in {"dequant", "gemm"} => WeightHeld(sq, i, sq[i].cells)
    /\ sq[i].kind = "cast" =>
         \A p \in sq[i].parts : PartHeld(sq, i, p, sq[i].rows * sq[i].k)
    /\ sq[i].kind = "gemm" => PartHeld(sq, i, sq[i].part, sq[i].rows * sq[i].k)

Covered(sq) == \A i \in DOMAIN sq : StagedFor(sq, i)

Calm(sq) == IsSeq(sq) /\ Covered(sq) /\ \A i \in DOMAIN sq : Quiet(sq[i])
Ready(sq, l) == IsSeq(sq) /\ Covered(sq) /\ \A i \in DOMAIN sq : Sound(sq[i], l)

LEMMA FunctionIsSeq ==
    ASSUME NEW n \in Nat, NEW f, f = [i \in 1 .. n |-> f[i]]
    PROVE  IsSeq(f)
<1>1. f \in Seq({f[i] : i \in 1 .. n})
  OBVIOUS
<1> QED BY <1>1 DEF IsSeq

LEMMA ConcatSeq ==
    ASSUME NEW s, NEW t, IsSeq(s), IsSeq(t)
    PROVE  /\ IsSeq(s \o t)
           /\ Len(s) \in Nat /\ Len(t) \in Nat
           /\ DOMAIN s = 1 .. Len(s) /\ DOMAIN t = 1 .. Len(t)
           /\ DOMAIN (s \o t) = 1 .. Len(s) + Len(t)
           /\ \A i \in 1 .. Len(s) : (s \o t)[i] = s[i]
           /\ \A i \in 1 .. Len(t) : (s \o t)[Len(s) + i] = t[i]
<1>1. PICK S : s \in Seq(S)
  BY DEF IsSeq
<1>2. PICK T : t \in Seq(T)
  BY DEF IsSeq
<1>3. s \in Seq(S \union T) /\ t \in Seq(S \union T)
  BY <1>1, <1>2
<1>4. s \o t \in Seq(S \union T)
  BY <1>3
<1> QED BY <1>3, <1>4 DEF IsSeq

LEMMA ConcatCases ==
    ASSUME NEW s, NEW t, IsSeq(s), IsSeq(t), NEW i \in DOMAIN (s \o t)
    PROVE  \/ i \in DOMAIN s /\ (s \o t)[i] = s[i]
           \/ \E j \in DOMAIN t : i = Len(s) + j /\ (s \o t)[i] = t[j]
<1>1. i \in 1 .. Len(s) + Len(t) /\ Len(s) \in Nat /\ Len(t) \in Nat
  BY ConcatSeq
<1>2. CASE i \in 1 .. Len(s)
  BY <1>2, ConcatSeq
<1>3. CASE i \notin 1 .. Len(s)
  <2>1. i - Len(s) \in 1 .. Len(t) /\ i = Len(s) + (i - Len(s))
    BY <1>1, <1>3
  <2> QED BY <2>1, ConcatSeq
<1> QED BY <1>2, <1>3

\* Streams put one after the other: what the second needs staged, the first does not undo.
LEMMA ConcatCovered ==
    ASSUME NEW s, NEW t, IsSeq(s), IsSeq(t), Covered(s), Covered(t)
    PROVE  Covered(s \o t)
<1> DEFINE st == s \o t
<1> SUFFICES ASSUME NEW i \in DOMAIN st PROVE StagedFor(st, i)
  BY DEF Covered
<1>1. CASE i \in DOMAIN s /\ st[i] = s[i]
  <2>1. StagedFor(s, i)
    BY <1>1 DEF Covered
  <2>2. \A j \in 1 .. i - 1 : j \in 1 .. Len(s)
    BY <1>1, ConcatSeq
  <2>3. \A j \in 1 .. i - 1 : st[j] = s[j]
    BY <2>2, ConcatSeq
  <2> HIDE DEF st
  <2> QED BY <1>1, <2>1, <2>3 DEF StagedFor, WeightHeld, PartHeld
<1>2. ASSUME NEW k \in DOMAIN t, i = Len(s) + k, st[i] = t[k]
      PROVE  StagedFor(st, i)
  <2>1. StagedFor(t, k)
    BY <1>2 DEF Covered
  <2>2. Len(s) \in Nat /\ k \in 1 .. Len(t) /\ Len(t) \in Nat
    BY ConcatSeq
  <2>3. \A j \in 1 .. k - 1 : Len(s) + j \in 1 .. i - 1 /\ j \in 1 .. Len(t)
    BY <1>2, <2>2
  <2>4. \A j \in 1 .. k - 1 : st[Len(s) + j] = t[j]
    BY <2>3, ConcatSeq
  <2> HIDE DEF st
  <2>5. \A c : WeightHeld(t, k, c) => WeightHeld(st, i, c)
    BY <2>3, <2>4 DEF WeightHeld
  <2>6. \A p, c : PartHeld(t, k, p, c) => PartHeld(st, i, p, c)
    BY <2>3, <2>4 DEF PartHeld
  <2> QED BY <1>2, <2>1, <2>5, <2>6 DEF StagedFor
<1> QED BY <1>1, <1>2, ConcatCases

LEMMA ConcatCalm ==
    ASSUME NEW s, NEW t, Calm(s), Calm(t)
    PROVE  Calm(s \o t)
BY ConcatSeq, ConcatCovered, ConcatCases DEF Calm

LEMMA ConcatReady ==
    ASSUME NEW l, NEW s, NEW t, Ready(s, l), Ready(t, l)
    PROVE  Ready(s \o t, l)
BY ConcatSeq, ConcatCovered, ConcatCases DEF Ready

LEMMA CalmReady ==
    ASSUME NEW l, NEW s, Calm(s)
    PROVE  Ready(s, l)
BY DEF Calm, Ready, Sound

-----------------------------------------------------------------------------
(* The launches one by one.                                                  *)

Wide == ScratchBuffer \union {"a", "b", "normed"}
Unstaged(L) == L.kind \notin {"dequant", "cast", "gemm"}

LEMMA SizesAreNat ==
    /\ NSeq \in Nat \ {0} /\ Ctx \in Nat \ {0} /\ ConvHist \in Nat \ {0}
    /\ ScratchRows \in Nat \ {0} /\ VerifyMax \in Nat \ {0} /\ MaxGridRows \in Nat \ {0}
    /\ ScratchRows <= Ctx /\ NSeq <= ScratchRows
BY KernelSizes

\* The scratch, and what is as tall as the residual stream, holds a chunk.
LEMMA WideHeld ==
    ASSUME NEW b \in Wide, NEW t \in 1 .. ScratchRows
    PROVE  Held(t, b)
<1>1. CASE b \in ScratchBuffer
  BY <1>1, SizesAreNat DEF Held, Capacity
<1>2. CASE b \notin ScratchBuffer
  <2>1. Capacity(b) = Ctx
    BY <1>2 DEF Wide, Capacity, ModelBuffer
  <2> QED BY <2>1, SizesAreNat DEF Held
<1> QED BY <1>1, <1>2

\* The rows of the other buffers.
LEMMA OtherHeld ==
    /\ \A t \in 1 .. Ctx : Held(t, "a") /\ Held(t, "normed")
    /\ Held(1, "last") /\ \A t \in 1 .. NSeq : Held(t, "logits") /\ Held(t, "idx")
    /\ \A t \in 1 .. VerifyMax : Held(t, "logits_all") /\ Held(t, "idx_all")
<1>1. /\ Capacity("a") = Ctx /\ Capacity("normed") = Ctx /\ Capacity("last") = 1
      /\ Capacity("logits") = NSeq /\ Capacity("idx") = NSeq
      /\ Capacity("logits_all") = VerifyMax /\ Capacity("idx_all") = VerifyMax
  BY DEF Capacity, ModelBuffer, ScratchBuffer
<1> QED BY <1>1, SizesAreNat DEF Held

LEMMA QuietRows ==
    ASSUME NEW stores, NEW t, NEW checked,
           \A w \in stores : Held(t, w.out) /\ \A i \in DOMAIN w.ins : Held(t, w.ins[i])
    PROVE  LET L == Rows(stores, t, checked) IN Quiet(L) /\ Unstaged(L)
<1> DEFINE L == Rows(stores, t, checked)
<1>1. L.kind = "rows" /\ L.stores = stores /\ L.rows = t
  BY DEF Rows
<1> HIDE DEF L
<1>2. LastRow(L) = t - 1
  BY <1>1 DEF LastRow
<1>3. \A b \in Touched(L) : Held(t, b)
  <2>1. Touched(L) = {w.out : w \in L.stores} \union UNION {{w.ins[i] : i \in DOMAIN w.ins} : w \in L.stores}
    BY <1>1 DEF Touched
  <2> QED BY <1>1, <2>1
<1>4. \A b \in Touched(L) : LastRow(L) < Capacity(b)
  BY <1>2, <1>3 DEF Held
<1>5. Quiet(L) /\ Unstaged(L)
  BY <1>1, <1>4 DEF Quiet, Fitting, Unstaged
<1> QED BY <1>5 DEF L

\* Rows of one store with one, two or three operands.
LEMMA QuietStoreOne ==
    ASSUME NEW y, NEW op, NEW w, NEW x, NEW t, NEW checked, Held(t, x), Held(t, y)
    PROVE  LET L == Rows({Store(y, op, w, <<x>>)}, t, checked) IN Quiet(L) /\ Unstaged(L)
<1>1. \A s \in {Store(y, op, w, <<x>>)} : Held(t, s.out) /\ \A i \in DOMAIN s.ins : Held(t, s.ins[i])
  BY DEF Store
<1> QED BY <1>1, QuietRows

LEMMA QuietStoreTwo ==
    ASSUME NEW y, NEW op, NEW w, NEW x, NEW z, NEW t, NEW checked,
           Held(t, x), Held(t, y), Held(t, z)
    PROVE  LET L == Rows({Store(y, op, w, <<x, z>>)}, t, checked) IN Quiet(L) /\ Unstaged(L)
<1>1. \A s \in {Store(y, op, w, <<x, z>>)} : Held(t, s.out) /\ \A i \in DOMAIN s.ins : Held(t, s.ins[i])
  BY DEF Store
<1> QED BY <1>1, QuietRows

LEMMA QuietUpload ==
    ASSUME NEW out, NEW values, NEW checked, Held(Len(values), out)
    PROVE  LET L == Upload(out, values, checked) IN Quiet(L) /\ Unstaged(L)
<1> DEFINE L == Upload(out, values, checked)
<1>1. L.kind = "upload" /\ L.out = out /\ L.rows = Len(values)
  BY DEF Upload
<1> HIDE DEF L
<1>2. LastRow(L) = Len(values) - 1 /\ Touched(L) = {out}
  BY <1>1 DEF LastRow, Touched
<1>3. Quiet(L) /\ Unstaged(L)
  BY <1>1, <1>2 DEF Quiet, Fitting, Unstaged, Held
<1> QED BY <1>3 DEF L

LEMMA QuietCopy ==
    ASSUME NEW src, NEW dst, NEW from, NEW t, NEW checked, Held(t, src), Held(t, dst)
    PROVE  LET L == Copy(src, dst, from, t, checked) IN Quiet(L) /\ Unstaged(L)
<1> DEFINE L == Copy(src, dst, from, t, checked)
<1>1. L.kind = "copy" /\ L.src = src /\ L.dst = dst /\ L.rows = t
  BY DEF Copy
<1> HIDE DEF L
<1>2. LastRow(L) = t - 1 /\ Touched(L) = {src, dst}
  BY <1>1 DEF LastRow, Touched
<1>3. Quiet(L) /\ Unstaged(L)
  BY <1>1, <1>2 DEF Quiet, Fitting, Unstaged, Held
<1> QED BY <1>3 DEF L

LEMMA CalmPlain ==
    ASSUME NEW sq, IsSeq(sq), \A i \in DOMAIN sq : Quiet(sq[i]) /\ Unstaged(sq[i])
    PROVE  Calm(sq)
BY DEF Calm, Covered, StagedFor, Unstaged

LEMMA CalmOne ==
    ASSUME NEW L,
           Quiet(L), Unstaged(L)
    PROVE  Calm(<<L>>)
<1> DEFINE sq == <<L>>
<1>1. sq \in Seq({L}) /\ DOMAIN sq = 1 .. 1
  OBVIOUS
<1>2. sq[1] = L
  OBVIOUS
<1> HIDE DEF sq
<1>3. \A i \in DOMAIN sq : Quiet(sq[i]) /\ Unstaged(sq[i])
  BY <1>1, <1>2
<1>4. Calm(sq)
  BY <1>1, <1>3, CalmPlain DEF IsSeq
<1> QED BY <1>4 DEF sq

LEMMA CalmTwo ==
    ASSUME NEW L, NEW M,
           Quiet(L), Unstaged(L), Quiet(M), Unstaged(M)
    PROVE  Calm(<<L, M>>)
<1> DEFINE sq == <<L, M>>
<1>1. sq \in Seq({L, M}) /\ DOMAIN sq = 1 .. 2
  OBVIOUS
<1>2. sq[1] = L /\ sq[2] = M
  OBVIOUS
<1> HIDE DEF sq
<1>3. \A i \in DOMAIN sq : Quiet(sq[i]) /\ Unstaged(sq[i])
  BY <1>1, <1>2
<1>4. Calm(sq)
  BY <1>1, <1>3, CalmPlain DEF IsSeq
<1> QED BY <1>4 DEF sq

LEMMA CalmSix ==
    ASSUME NEW L, NEW M, NEW N1, NEW O, NEW P, NEW Q,
           Quiet(L), Unstaged(L), Quiet(M), Unstaged(M), Quiet(N1), Unstaged(N1),
           Quiet(O), Unstaged(O), Quiet(P), Unstaged(P), Quiet(Q), Unstaged(Q)
    PROVE  Calm(<<L, M, N1, O, P, Q>>)
<1> DEFINE sq == <<L, M, N1, O, P, Q>>
<1>1. sq \in Seq({L, M, N1, O, P, Q}) /\ DOMAIN sq = 1 .. 6
  OBVIOUS
<1>2. sq[1] = L /\ sq[2] = M /\ sq[3] = N1 /\ sq[4] = O /\ sq[5] = P /\ sq[6] = Q
  OBVIOUS
<1> HIDE DEF sq
<1>3. \A i \in DOMAIN sq : Quiet(sq[i]) /\ Unstaged(sq[i])
  BY <1>1, <1>2
<1>4. Calm(sq)
  BY <1>1, <1>3, CalmPlain DEF IsSeq
<1> QED BY <1>4 DEF sq

\* The last row a kernel with lanes works on.
LEMMA LastOfLanes ==
    ASSUME NEW L, L.kind \in {"conv", "rule", "append", "attend"}, NEW m \in BufRow,
           \E lane \in L.lanes : m = lane.rows[Len(lane.rows)],
           \A lane \in L.lanes : lane.rows[Len(lane.rows)] <= m
    PROVE  LastRow(L) = m
<1> DEFINE P(r) == /\ \E lane \in L.lanes : r = lane.rows[Len(lane.rows)]
                   /\ \A lane \in L.lanes : lane.rows[Len(lane.rows)] <= r
           r0 == CHOOSE r \in BufRow : P(r)
<1>1. LastRow(L) = r0
  BY DEF LastRow
<1>2. P(m)
  OBVIOUS
<1>3. r0 \in BufRow /\ P(r0)
  <2> HIDE DEF P
  <2> QED BY <1>2
<1> HIDE DEF r0
<1>4. r0 <= m /\ m <= r0
  BY <1>3
<1>5. r0 \in Int /\ m \in Int
  BY <1>3, SizesAreNat DEF BufRow
<1>6. r0 = m
  BY <1>4, <1>5
<1> QED BY <1>1, <1>6

LEMMA OneLaneLast ==
    ASSUME NEW s, NEW t \in 1 .. ScratchRows, NEW L,
           L.kind \in {"conv", "rule", "append", "attend"}, L.lanes = OneLane(s, t)
    PROVE  LastRow(L) = t - 1 /\ \A lane \in L.lanes : lane.seq = s /\ Len(lane.rows) = t
<1>1. \A lane \in L.lanes : lane = [seq |-> s, rows |-> [i \in 1 .. t |-> i - 1]]
  BY DEF OneLane
<1>2. L.lanes # {}
  BY DEF OneLane
<1>3. \A lane \in L.lanes : lane.seq = s /\ lane.rows = [i \in 1 .. t |-> i - 1]
  BY <1>1
<1>4. t \in Nat \ {0} /\ t - 1 \in BufRow
  BY SizesAreNat DEF BufRow
<1>5. \A lane \in L.lanes : Len(lane.rows) = t /\ lane.rows[t] = t - 1
  <2> DEFINE rows == [i \in 1 .. t |-> i - 1]
  <2>1. Len(rows) = t /\ rows[t] = t - 1
    BY <1>4
  <2> HIDE DEF rows
  <2> QED BY <1>3, <2>1 DEF rows
<1>6. t - 1 <= t - 1
  BY <1>4
<1>7. LastRow(L) = t - 1
  BY <1>2, <1>4, <1>5, <1>6, LastOfLanes
<1> QED BY <1>3, <1>5, <1>7

LEMMA LanePerSeqLast ==
    ASSUME NEW n \in 1 .. NSeq, NEW L,
           L.kind \in {"conv", "rule", "append", "attend"}, L.lanes = LanePerSeq(n)
    PROVE  LastRow(L) = n - 1 /\ \A lane \in L.lanes : lane.seq \in Seqs /\ Len(lane.rows) = 1
<1>1. \A lane \in L.lanes : \E s \in 0 .. n - 1 : lane = [seq |-> s, rows |-> <<s>>]
  BY DEF LanePerSeq
<1>2. n \in Nat \ {0} /\ n - 1 \in BufRow /\ n - 1 \in 0 .. n - 1 /\ 0 .. n - 1 \subseteq Seqs
  BY SizesAreNat DEF BufRow, Seqs
<1>3. \E lane \in L.lanes : lane = [seq |-> n - 1, rows |-> <<n - 1>>]
  BY <1>2 DEF LanePerSeq
<1>4. \A lane \in L.lanes : /\ lane.seq \in Seqs /\ Len(lane.rows) = 1
                            /\ lane.rows[1] \in 0 .. n - 1
  BY <1>1, <1>2
<1>5. \E lane \in L.lanes : n - 1 = lane.rows[Len(lane.rows)]
  <2>1. PICK lane \in L.lanes : lane = [seq |-> n - 1, rows |-> <<n - 1>>]
    BY <1>3
  <2>2. lane.rows = <<n - 1>>
    BY <2>1
  <2>3. Len(lane.rows) = 1 /\ lane.rows[1] = n - 1
    BY <2>2
  <2> QED BY <2>3
<1>6. \A lane \in L.lanes : lane.rows[1] <= n - 1
  BY <1>2, <1>4
<1>7. \A lane \in L.lanes : lane.rows[Len(lane.rows)] <= n - 1
  BY <1>4, <1>6
<1>8. LastRow(L) = n - 1
  BY <1>2, <1>5, <1>7, LastOfLanes
<1> QED BY <1>4, <1>8

\* The buffers a kernel with lanes touches are as tall as the scratch.
LEMMA LanesFit ==
    ASSUME NEW L, L.kind \in {"conv", "rule", "append", "attend"},
           NEW t \in 1 .. ScratchRows, LastRow(L) = t - 1
    PROVE  Fitting(L) /\ Unstaged(L)
<1>1. \A b \in Touched(L) : b \in Wide
  BY DEF Touched, Wide, ScratchBuffer
<1>2. \A b \in Touched(L) : Held(t, b)
  BY <1>1, WideHeld
<1>3. \A b \in Touched(L) : LastRow(L) < Capacity(b)
  BY <1>2 DEF Held
<1> QED BY <1>3 DEF Fitting, Unstaged

\* The kernels of the recurrence.
LEMMA QuietRecurrence ==
    ASSUME NEW kind \in {"conv", "rule"}, NEW l, NEW lanes, NEW pos, NEW dev, NEW checked,
           NEW s, NEW t \in 1 .. ScratchRows, NEW n \in 1 .. NSeq,
           lanes \in {OneLane(s, t), LanePerSeq(n)}
    PROVE  LET L == Stateful(kind, l, lanes, pos, dev, checked) IN Quiet(L) /\ Unstaged(L)
<1> DEFINE L == Stateful(kind, l, lanes, pos, dev, checked)
<1>1. L.kind = kind /\ L.lanes = lanes
  BY DEF Stateful
<1> HIDE DEF L
<1>2. LastRow(L) \in {t - 1, n - 1}
  BY <1>1, OneLaneLast, LanePerSeqLast
<1>3. n \in 1 .. ScratchRows
  BY SizesAreNat
<1>4. Fitting(L) /\ Unstaged(L)
  BY <1>1, <1>2, <1>3, LanesFit
<1>5. Quiet(L) /\ Unstaged(L)
  BY <1>1, <1>4 DEF Quiet
<1> QED BY <1>5 DEF L

\* The kernels of the cache that are given the position of their first row.
LEMMA QuietCache ==
    ASSUME NEW kind \in {"append", "attend"}, NEW l, NEW pos \in Int, NEW checked,
           NEW s \in Seqs, NEW t \in 1 .. ScratchRows,
           Roomy => s * Ctx + pos + t - 1 \in 0 .. NSeq * Ctx - 1
    PROVE  LET L == Stateful(kind, l, OneLane(s, t), pos, FALSE, checked)
           IN Quiet(L) /\ Unstaged(L)
<1> DEFINE L == Stateful(kind, l, OneLane(s, t), pos, FALSE, checked)
<1>1. L.kind = kind /\ L.lanes = OneLane(s, t) /\ L.pos = pos /\ L.fromDevice = FALSE
  BY DEF Stateful
<1> HIDE DEF L
<1>2. LastRow(L) = t - 1 /\ \A lane \in L.lanes : lane.seq = s /\ Len(lane.rows) = t
  BY <1>1, OneLaneLast
<1>3. Fitting(L) /\ Unstaged(L)
  BY <1>1, <1>2, LanesFit
<1>4. s * KvStride + (pos + 0) + t - 1 = s * Ctx + pos + t - 1
  BY DEF KvStride
<1>5. Roomy => GivenRows(L)
  BY <1>1, <1>2, <1>4 DEF GivenRows
<1>6. Quiet(L) /\ Unstaged(L)
  BY <1>1, <1>3, <1>5 DEF Quiet
<1> QED BY <1>6 DEF L

-----------------------------------------------------------------------------
(* The projections.                                                          *)

LEMMA ForwardCalm ==
    ASSUME NEW w, NEW x, NEW y, NEW t, Held(t, x), Held(t, y)
    PROVE  Calm(Forward(w, x, y, t))
<1>1. CASE Shape[w[2]].dtype = "bf16"
  BY <1>1, QuietStoreOne, CalmOne DEF Forward, Bf16Gemv
<1>2. CASE Shape[w[2]].dtype # "bf16"
  BY <1>2, QuietStoreOne, CalmOne DEF Forward, Gemv
<1> QED BY <1>1, <1>2

LEMMA GemmFp32Calm ==
    ASSUME NEW w, NEW x, NEW y, NEW t, Held(t, x), Held(t, y)
    PROVE  Calm(<<GemmFp32(w, x, y, t)>>)
BY QuietStoreOne, CalmOne DEF GemmFp32

\* What a launch asks of the staging buffers is what they were grown to.
Within(L, cells, parts, actCells) ==
    /\ L.kind \in {"dequant", "gemm"} => L.cells = cells
    /\ L.kind = "cast" => L.parts \subseteq parts
    /\ L.kind = "gemm" => L.part \in parts
    /\ L.kind \in {"cast", "gemm"} => L.rows * L.k = actCells

LEMMA GrownCalm ==
    ASSUME NEW cells \in Nat, NEW parts, NEW actCells \in Nat, NEW sq, IsSeq(sq), sq # << >>,
           sq[1] = GrowScratch(cells, parts, actCells),
           \A i \in DOMAIN sq : Quiet(sq[i]) /\ Within(sq[i], cells, parts, actCells)
    PROVE  Calm(sq)
<1>1. /\ sq[1].kind = "grow" /\ sq[1].cells = cells
      /\ sq[1].parts = parts /\ sq[1].actCells = actCells
  BY DEF GrowScratch
<1>2. \A i \in DOMAIN sq : i # 1 => WeightHeld(sq, i, cells)
  <2> SUFFICES ASSUME NEW i \in DOMAIN sq, i # 1 PROVE 1 \in 1 .. i - 1 /\ cells >= cells
    BY <1>1 DEF WeightHeld
  <2> QED BY DEF IsSeq
<1>3. \A i \in DOMAIN sq : \A p \in parts : i # 1 => PartHeld(sq, i, p, actCells)
  <2> SUFFICES ASSUME NEW i \in DOMAIN sq, i # 1 PROVE 1 \in 1 .. i - 1 /\ actCells >= actCells
    BY <1>1 DEF PartHeld
  <2> QED BY DEF IsSeq
<1>4. ASSUME NEW i \in DOMAIN sq PROVE StagedFor(sq, i)
  <2>1. CASE i = 1
    BY <1>1, <2>1 DEF StagedFor
  <2>2. CASE i # 1
    <3>1. Within(sq[i], cells, parts, actCells)
      OBVIOUS
    <3>2. WeightHeld(sq, i, cells) /\ \A p \in parts : PartHeld(sq, i, p, actCells)
      BY <1>2, <1>3, <2>2
    <3> QED BY <3>1, <3>2 DEF StagedFor, Within
  <2> QED BY <2>1, <2>2
<1> QED BY <1>4 DEF Calm, Covered

LEMMA QuietGrow ==
    ASSUME NEW cells \in Nat, NEW parts, NEW actCells \in Nat
    PROVE  /\ Quiet(GrowScratch(cells, parts, actCells))
           /\ Within(GrowScratch(cells, parts, actCells), cells, parts, actCells)
<1> DEFINE L == GrowScratch(cells, parts, actCells)
<1>1. L.kind = "grow" /\ L.cells = cells /\ L.actCells = actCells
  BY DEF GrowScratch
<1> HIDE DEF L
<1>2. Quiet(L) /\ Within(L, cells, parts, actCells)
  BY <1>1 DEF Quiet, Fitting, Touched, Within
<1> QED BY <1>2 DEF L

LEMMA QuietCast ==
    ASSUME NEW x, NEW parts \in SUBSET Part, NEW t, NEW k \in Nat, Held(t, x)
    PROVE  LET L == CastBf16(x, parts, t, k)
           IN Quiet(L) /\ \A cells, ps : parts \subseteq ps => Within(L, cells, ps, t * k)
<1> DEFINE L == CastBf16(x, parts, t, k)
<1>1. L.kind = "cast" /\ L.x = x /\ L.rows = t /\ L.k = k /\ L.parts = parts
  BY DEF CastBf16
<1> HIDE DEF L
<1>2. t * k \in Nat
  BY DEF Held
<1>3. LastRow(L) = t - 1 /\ Touched(L) = {x}
  BY <1>1 DEF LastRow, Touched
<1>4. \A b \in Touched(L) : LastRow(L) < Capacity(b)
  BY <1>3 DEF Held
<1>5. Quiet(L) /\ \A cells, ps : parts \subseteq ps => Within(L, cells, ps, t * k)
  BY <1>1, <1>2, <1>4 DEF Quiet, Fitting, Within
<1> QED BY <1>5 DEF L

LEMMA QuietGemm ==
    ASSUME NEW w, NEW part \in Part, NEW whole, NEW x, NEW y, NEW beta, NEW cells \in Nat,
           NEW t, NEW k \in Nat, Held(t, y)
    PROVE  LET L == CublasGemm(w, part, whole, x, y, beta, cells, t, k)
           IN Quiet(L) /\ Within(L, cells, Part, t * k)
<1> DEFINE L == CublasGemm(w, part, whole, x, y, beta, cells, t, k)
<1>1. /\ L.kind = "gemm" /\ L.y = y /\ L.rows = t /\ L.k = k /\ L.part = part
      /\ L.cells = cells
  BY DEF CublasGemm
<1> HIDE DEF L
<1>2. t * k \in Nat
  BY DEF Held
<1>3. LastRow(L) = t - 1 /\ Touched(L) = {y}
  BY <1>1 DEF LastRow, Touched
<1>4. \A b \in Touched(L) : LastRow(L) < Capacity(b)
  BY <1>3 DEF Held
<1>5. Quiet(L) /\ Within(L, cells, Part, t * k)
  BY <1>1, <1>2, <1>4 DEF Quiet, Fitting, Within
<1> QED BY <1>5 DEF L

LEMMA ShapeIsNat ==
    ASSUME NEW w, w[2] \in DOMAIN Shape
    PROVE  N(w) \in Nat \ {0} /\ K(w) \in Nat \ {0} /\ N(w) * K(w) \in Nat
<1>1. N(w) \in Nat \ {0} /\ K(w) \in Nat \ {0}
  BY ShapeAssumption DEF N, K
<1> QED BY <1>1

LEMMA QuietDequant ==
    ASSUME NEW w, w[2] \in DOMAIN Shape
    PROVE  Quiet(DequantOf(w)) /\ \A ps, c : Within(DequantOf(w), N(w) * K(w), ps, c)
<1>1. PICK perRow \in BOOLEAN : /\ DequantOf(w) = Dequant(w, N(w), K(w), perRow)
                                /\ perRow => N(w) <= MaxGridRows
  BY DEF DequantOf, DequantNvFp4ToBf162d, DequantNvFp4ToBf16, DequantFp8ToBf16, U16ToBf16
<1> DEFINE L == Dequant(w, N(w), K(w), perRow)
<1>2. /\ L.kind = "dequant" /\ L.cells = N(w) * K(w) /\ L.n = N(w)
      /\ L.perRow = perRow
  BY DEF Dequant
<1> HIDE DEF L
<1>3. N(w) * K(w) \in Nat
  BY ShapeIsNat
<1>4. Quiet(L) /\ \A ps, c : Within(L, N(w) * K(w), ps, c)
  BY <1>1, <1>2, <1>3 DEF Quiet, Fitting, Touched, Within
<1> QED BY <1>1, <1>4 DEF L

LEMMA TupleSeq ==
    /\ IsSeq(<< >>) /\ DOMAIN << >> = {}
    /\ \A a : IsSeq(<<a>>) /\ DOMAIN <<a>> = {1} /\ <<a>>[1] = a
    /\ \A a, b : /\ IsSeq(<<a, b>>) /\ <<a, b>> # << >> /\ DOMAIN <<a, b>> = 1 .. 2
                 /\ Len(<<a, b>>) = 2 /\ <<a, b>>[1] = a /\ <<a, b>>[2] = b
<1>1. << >> \in Seq({}) /\ DOMAIN << >> = {}
  OBVIOUS
<1>2. ASSUME NEW a
      PROVE  IsSeq(<<a>>) /\ DOMAIN <<a>> = {1} /\ <<a>>[1] = a
  <2>1. <<a>> \in Seq({a}) /\ DOMAIN <<a>> = {1} /\ <<a>>[1] = a
    OBVIOUS
  <2> QED BY <2>1 DEF IsSeq
<1>3. ASSUME NEW a, NEW b
      PROVE  /\ IsSeq(<<a, b>>) /\ <<a, b>> # << >> /\ DOMAIN <<a, b>> = 1 .. 2
             /\ Len(<<a, b>>) = 2 /\ <<a, b>>[1] = a /\ <<a, b>>[2] = b
  <2>1. <<a, b>> \in Seq({a, b})
    OBVIOUS
  <2>2. <<a, b>> # << >> /\ DOMAIN <<a, b>> = 1 .. 2
        /\ Len(<<a, b>>) = 2 /\ <<a, b>>[1] = a /\ <<a, b>>[2] = b
    OBVIOUS
  <2> QED BY <2>1, <2>2 DEF IsSeq
<1>4. IsSeq(<< >>)
  BY <1>1 DEF IsSeq
<1> QED BY <1>1, <1>2, <1>3, <1>4

LEMMA PartsArePart ==
    ASSUME NEW split
    PROVE  IsSeq(PartsOf(split)) /\ \A i \in DOMAIN PartsOf(split) : PartsOf(split)[i] \in Part
<1>1. PartsOf(split) \in Seq(Part)
  <2>1. <<"hi", "lo", "mid">> \in Seq(Part)
    BY DEF Part
  <2>2. <<"hi", "lo">> \in Seq(Part)
    BY DEF Part
  <2>3. <<"hi">> \in Seq(Part)
    BY DEF Part
  <2> QED BY <2>1, <2>2, <2>3 DEF PartsOf
<1> QED BY <1>1 DEF IsSeq

LEMMA CastQuiet ==
    ASSUME NEW x, NEW t, NEW k \in Nat, Held(t, x), env \in Environments
    PROVE  Quiet(Cast(x, t, k)) /\ \A cells : Within(Cast(x, t, k), cells, Part, t * k)
<1>1. PICK parts \in SUBSET Part : Cast(x, t, k) = CastBf16(x, parts, t, k)
  BY DEF Cast, F32ToBf16, F32SplitBf16, F32Split3Bf16, Part
<1> QED BY <1>1, QuietCast

\* Growing comes first, so what follows finds the room it needs.
LEMMA TensorCoreCalm ==
    ASSUME NEW w, w[2] \in DOMAIN Shape, NEW x, NEW y, NEW t, Held(t, x), Held(t, y),
           NEW precast \in BOOLEAN, env \in Environments
    PROVE  Calm(ForwardPrefillTensorCore(w, x, y, t, precast))
<1> DEFINE parts == PartsOf(env.split)
           cells == N(w) * K(w)
           Part1 == <<GrowScratch(cells, Part, t * K(w)), DequantOf(w)>>
           Part2 == IF precast THEN << >> ELSE <<Cast(x, t, K(w))>>
           Part3 == [i \in DOMAIN parts |->
                       CublasGemm(w, parts[i], Range(parts), x, y, IF i = 1 THEN 0 ELSE 1, cells, t, K(w))]
           Good(L) == Quiet(L) /\ Within(L, cells, Part, t * K(w))
<1>1. ForwardPrefillTensorCore(w, x, y, t, precast) = Part1 \o Part2 \o Part3
  BY DEF ForwardPrefillTensorCore
<1>2. K(w) \in Nat /\ cells \in Nat /\ t * K(w) \in Nat
  BY ShapeIsNat DEF Held
<1>3. Good(GrowScratch(cells, Part, t * K(w))) /\ Good(DequantOf(w))
  BY <1>2, QuietGrow, QuietDequant
<1>4. Good(Cast(x, t, K(w)))
  BY <1>2, CastQuiet
<1>5. IsSeq(parts) /\ \A i \in DOMAIN parts : parts[i] \in Part
  BY PartsArePart
<1>6. \A i \in DOMAIN Part3 : Good(Part3[i])
  BY <1>2, <1>5, QuietGemm
<1>7. IsSeq(Part3)
  <2>1. PICK n \in Nat : DOMAIN parts = 1 .. n
    BY <1>5 DEF IsSeq
  <2> HIDE DEF parts
  <2>2. Part3 = [i \in 1 .. n |-> Part3[i]]
    BY <2>1
  <2> HIDE DEF Part3
  <2> QED BY <2>2, FunctionIsSeq
<1>8. /\ IsSeq(Part1) /\ Part1 # << >> /\ DOMAIN Part1 = 1 .. 2 /\ Len(Part1) = 2
      /\ Part1[1] = GrowScratch(cells, Part, t * K(w)) /\ Part1[2] = DequantOf(w)
  BY TupleSeq
<1>9. IsSeq(Part2) /\ \A i \in DOMAIN Part2 : Part2[i] = Cast(x, t, K(w))
  <2>1. CASE precast
    BY <2>1, TupleSeq
  <2>2. CASE ~precast
    BY <2>2, TupleSeq
  <2> QED BY <2>1, <2>2
<1> HIDE DEF Part1, Part2, Part3, parts, cells
<1>10. \A i \in DOMAIN Part1 : Good(Part1[i])
  BY <1>3, <1>8
<1>11. \A i \in DOMAIN Part2 : Good(Part2[i])
  BY <1>4, <1>9
<1> HIDE DEF Good
<1>12. IsSeq(Part1 \o Part2) /\ \A i \in DOMAIN (Part1 \o Part2) : Good((Part1 \o Part2)[i])
  BY <1>8, <1>9, <1>10, <1>11, ConcatSeq, ConcatCases
<1>13. (Part1 \o Part2)[1] = Part1[1] /\ Len(Part1 \o Part2) \in Nat \ {0}
  BY <1>8, <1>9, <1>12, ConcatSeq
<1> DEFINE sq == Part1 \o Part2 \o Part3
<1>14. IsSeq(sq) /\ \A i \in DOMAIN sq : Good(sq[i])
  BY <1>6, <1>7, <1>12, ConcatSeq, ConcatCases
<1>15. sq[1] = GrowScratch(cells, Part, t * K(w)) /\ sq # << >>
  <2>1. sq[1] = (Part1 \o Part2)[1]
    BY <1>7, <1>12, <1>13, ConcatSeq
  <2>2. 1 \in DOMAIN sq
    BY <1>7, <1>12, <1>13, ConcatSeq
  <2> QED BY <1>8, <1>13, <2>1, <2>2
<1> HIDE DEF sq
<1>16. Calm(sq)
  BY <1>2, <1>14, <1>15, GrownCalm DEF Good
<1> QED BY <1>1, <1>16 DEF sq

LEMMA CastActivationCalm ==
    ASSUME NEW w, w[2] \in DOMAIN Shape, NEW x, NEW t, Held(t, x)
    PROVE  Calm(CastActivationBf16(w, x, t))
<1> DEFINE c == t * K(w)
           A == GrowScratch(0, {"hi"}, c)
           B == F32ToBf16(x, t, K(w))
           sq == <<A, B>>
<1>1. K(w) \in Nat /\ c \in Nat
  BY ShapeIsNat DEF Held
<1>2. Quiet(A) /\ Within(A, 0, {"hi"}, c)
  BY <1>1, QuietGrow
<1>3. Quiet(B) /\ Within(B, 0, {"hi"}, c)
  BY <1>1, QuietCast DEF F32ToBf16, Part
<1>4. sq = CastActivationBf16(w, x, t)
  BY DEF CastActivationBf16
<1>5. sq \in Seq({A, B}) /\ sq # << >> /\ DOMAIN sq = 1 .. 2 /\ sq[1] = A /\ sq[2] = B
  OBVIOUS
<1> HIDE DEF sq, B, c
<1>6. \A i \in DOMAIN sq : Quiet(sq[i]) /\ Within(sq[i], 0, {"hi"}, c)
  BY <1>2, <1>3, <1>5
<1>7. Calm(sq)
  BY <1>1, <1>5, <1>6, GrownCalm DEF IsSeq
<1> QED BY <1>4, <1>7

LEMMA PrefillCalm ==
    ASSUME NEW w, w[2] \in DOMAIN Shape, NEW x, NEW y, NEW t, Held(t, x), Held(t, y),
           env \in Environments
    PROVE  Calm(ForwardPrefill(w, x, y, t))
BY ForwardCalm, GemmFp32Calm, TensorCoreCalm DEF ForwardPrefill

LEMMA CalmStreamsTwo ==
    ASSUME NEW a, NEW b, Calm(a), Calm(b)
    PROVE  Calm(FlattenSeq(<<a, b>>))
<1>1. Calm(a \o b)
  BY ConcatCalm
<1> QED BY <1>1, FlattenTwo

LEMMA CalmStreamsThree ==
    ASSUME NEW a, NEW b, NEW c, Calm(a), Calm(b), Calm(c)
    PROVE  Calm(FlattenSeq(<<a, b, c>>))
<1>1. PICK ab, abc : ab = a \o b /\ abc = ab \o c
  OBVIOUS
<1>2. Calm(ab)
  BY <1>1, ConcatCalm
<1>3. Calm(abc)
  BY <1>1, <1>2, ConcatCalm
<1>4. FlattenSeq(<<a, b, c>>) = abc
  BY <1>1, FlattenThree
<1> QED BY <1>3, <1>4

LEMMA CalmStreamsFour ==
    ASSUME NEW a, NEW b, NEW c, NEW d, Calm(a), Calm(b), Calm(c), Calm(d)
    PROVE  Calm(FlattenSeq(<<a, b, c, d>>))
<1>1. PICK ab, abc, abcd : ab = a \o b /\ abc = ab \o c /\ abcd = abc \o d
  OBVIOUS
<1>2. Calm(ab)
  BY <1>1, ConcatCalm
<1>3. Calm(abc)
  BY <1>1, <1>2, ConcatCalm
<1>4. Calm(abcd)
  BY <1>1, <1>3, ConcatCalm
<1>5. FlattenSeq(<<a, b, c, d>>) = abcd
  BY <1>1, FlattenFour
<1> QED BY <1>4, <1>5

\* Two, three or four streams, one after the other.
LEMMA FlattenCalm ==
    ASSUME NEW n \in {2, 3, 4}, NEW seqs, seqs = [i \in 1 .. n |-> seqs[i]],
           \A i \in 1 .. n : Calm(seqs[i])
    PROVE  Calm(FlattenSeq(seqs))
<1>1. CASE n = 2
  <2>1. seqs = <<seqs[1], seqs[2]>>
    BY <1>1
  <2>2. Calm(seqs[1]) /\ Calm(seqs[2])
    BY <1>1
  <2>3. Calm(FlattenSeq(<<seqs[1], seqs[2]>>))
    BY <2>2, CalmStreamsTwo
  <2> QED BY <2>1, <2>3, Zenon
<1>2. CASE n = 3
  <2>1. seqs = <<seqs[1], seqs[2], seqs[3]>>
    BY <1>2
  <2>2. Calm(seqs[1]) /\ Calm(seqs[2]) /\ Calm(seqs[3])
    BY <1>2
  <2>3. Calm(FlattenSeq(<<seqs[1], seqs[2], seqs[3]>>))
    BY <2>2, CalmStreamsThree
  <2> QED BY <2>1, <2>3, Zenon
<1>3. CASE n = 4
  <2>1. seqs = <<seqs[1], seqs[2], seqs[3], seqs[4]>>
    BY <1>3
  <2>2. Calm(seqs[1]) /\ Calm(seqs[2]) /\ Calm(seqs[3]) /\ Calm(seqs[4])
    BY <1>3
  <2>3. Calm(FlattenSeq(<<seqs[1], seqs[2], seqs[3], seqs[4]>>))
    BY <2>2, CalmStreamsFour
  <2> QED BY <2>1, <2>3, Zenon
<1> QED BY <1>1, <1>2, <1>3

\* The decode path of several projections of one input.
LEMMA ForwardsCalm ==
    ASSUME NEW n \in {2, 3, 4}, NEW l, NEW names, NEW x, NEW outs, NEW t, Held(t, x),
           \A i \in 1 .. n : Held(t, outs[i])
    PROVE  Calm(FlattenSeq([i \in 1 .. n |-> Forward(W(l, names[i]), x, outs[i], t)]))
<1> DEFINE seqs == [i \in 1 .. n |-> Forward(W(l, names[i]), x, outs[i], t)]
<1>1. \A i \in 1 .. n : Calm(seqs[i])
  BY ForwardCalm
<1>2. seqs = [i \in 1 .. n |-> seqs[i]]
  OBVIOUS
<1> HIDE DEF seqs
<1>3. Calm(FlattenSeq(seqs))
  BY <1>1, <1>2, FlattenCalm
<1> QED BY <1>3 DEF seqs

\* The prefill path, with and without a shared cast.
LEMMA SharedCalm ==
    ASSUME NEW n \in {2, 3, 4}, NEW ws, DOMAIN ws = 1 .. n,
           \A i \in 1 .. n : ws[i][2] \in DOMAIN Shape,
           NEW x, NEW ys, NEW t, Held(t, x), \A i \in 1 .. n : Held(t, ys[i]),
           env \in Environments
    PROVE  Calm(ForwardPrefillSharedInput(ws, x, ys, t))
<1> DEFINE shared == [i \in DOMAIN ws |-> ForwardPrefillTensorCore(ws[i], x, ys[i], t, TRUE)]
           apart == [i \in DOMAIN ws |-> ForwardPrefill(ws[i], x, ys[i], t)]
<1>1. Calm(FlattenSeq(shared))
  <2>1. \A i \in 1 .. n : Calm(shared[i])
    BY TensorCoreCalm
  <2>2. shared = [i \in 1 .. n |-> shared[i]]
    OBVIOUS
  <2> HIDE DEF shared
  <2> QED BY <2>1, <2>2, FlattenCalm
<1>2. Calm(FlattenSeq(apart))
  <2>1. \A i \in 1 .. n : Calm(apart[i])
    BY PrefillCalm
  <2>2. apart = [i \in 1 .. n |-> apart[i]]
    OBVIOUS
  <2> HIDE DEF apart
  <2> QED BY <2>1, <2>2, FlattenCalm
<1>3. Calm(CastActivationBf16(ws[1], x, t))
  BY CastActivationCalm
<1>4. Calm(CastActivationBf16(ws[1], x, t) \o FlattenSeq(shared))
  BY <1>1, <1>3, ConcatCalm
<1> QED BY <1>2, <1>4 DEF ForwardPrefillSharedInput

LEMMA WsNamed ==
    ASSUME NEW l, NEW names, \A i \in DOMAIN names : names[i] \in DOMAIN Shape
    PROVE  DOMAIN Ws(l, names) = DOMAIN names
           /\ \A i \in DOMAIN names : Ws(l, names)[i][2] \in DOMAIN Shape
BY DEF Ws, W

-----------------------------------------------------------------------------
(* The layers.                                                               *)

ProjectionNames ==
    {"in_proj_qkv", "in_proj_z", "in_proj_a", "in_proj_b", "out_proj", "q_proj", "k_proj",
     "v_proj", "o_proj", "gate", "up", "down", "lm_head"}

LEMMA NamesLoaded ==
    ASSUME NEW l, NEW name \in ProjectionNames
    PROVE  name \in DOMAIN Shape /\ W(l, name)[2] \in DOMAIN Shape
BY ProjectionAssumption DEF ProjectionNames, W

LEMMA ScratchHeld ==
    ASSUME NEW t \in 1 .. ScratchRows
    PROVE  \A b \in Wide : Held(t, b)
BY WideHeld

LEMMA MlpForwardCalm ==
    ASSUME NEW l, NEW t \in 1 .. ScratchRows
    PROVE  Calm(MlpForward(l, t))
<1> DEFINE A == Forward(W(l, "gate"), "mlp_in", "inter", t)
           B == Forward(W(l, "up"), "mlp_in", "inter2", t)
           C == <<SwigluInplace("inter", "inter2", t)>>
           D == Forward(W(l, "down"), "inter", "down", t)
<1>1. {"mlp_in", "inter", "inter2", "down"} \subseteq Wide
  BY DEF Wide, ScratchBuffer
<1>2. Held(t, "mlp_in") /\ Held(t, "inter") /\ Held(t, "inter2") /\ Held(t, "down")
  BY <1>1, ScratchHeld
<1>3. Calm(A) /\ Calm(B) /\ Calm(D)
  BY <1>2, ForwardCalm
<1>4. Calm(C)
  BY <1>2, QuietStoreTwo, CalmOne DEF SwigluInplace
<1>5. MlpForward(l, t) = A \o B \o C \o D
  BY DEF MlpForward
<1> HIDE DEF A, B, C, D
<1>6. Calm(A \o B)
  BY <1>3, ConcatCalm
<1>7. Calm(A \o B \o C)
  BY <1>4, <1>6, ConcatCalm
<1>8. Calm(A \o B \o C \o D)
  BY <1>3, <1>7, ConcatCalm
<1> QED BY <1>5, <1>8

LEMMA MlpForwardPrefillCalm ==
    ASSUME NEW l, NEW t \in 1 .. ScratchRows, env \in Environments
    PROVE  Calm(MlpForwardPrefill(l, t))
<1> DEFINE names == <<"gate", "up">>
           outs == <<"inter", "inter2">>
           A == ForwardPrefillSharedInput(Ws(l, names), "mlp_in", outs, t)
           C == <<SwigluInplace("inter", "inter2", t)>>
           D == ForwardPrefill(W(l, "down"), "inter", "down", t)
<1>1. {"mlp_in", "inter", "inter2", "down"} \subseteq Wide
  BY DEF Wide, ScratchBuffer
<1>2. Held(t, "mlp_in") /\ Held(t, "inter") /\ Held(t, "inter2") /\ Held(t, "down")
  BY <1>1, ScratchHeld
<1>3. DOMAIN names = 1 .. 2 /\ \A i \in 1 .. 2 : names[i] \in DOMAIN Shape
  BY NamesLoaded DEF ProjectionNames
<1>4. \A i \in 1 .. 2 : Held(t, outs[i])
  BY <1>2
<1>5. MlpForwardPrefill(l, t) = A \o C \o D
  BY DEF MlpForwardPrefill
<1>6. Calm(A)
  <2> HIDE DEF names, outs
  <2>1. DOMAIN Ws(l, names) = 1 .. 2 /\ \A i \in 1 .. 2 : Ws(l, names)[i][2] \in DOMAIN Shape
    BY <1>3, WsNamed
  <2> QED BY <1>2, <1>4, <2>1, SharedCalm
<1>7. Calm(C)
  BY <1>2, QuietStoreTwo, CalmOne DEF SwigluInplace
<1>8. Calm(D)
  BY <1>2, PrefillCalm, NamesLoaded DEF ProjectionNames
<1> HIDE DEF A, C, D
<1>9. Calm(A \o C)
  BY <1>6, <1>7, ConcatCalm
<1>10. Calm(A \o C \o D)
  BY <1>8, <1>9, ConcatCalm
<1> QED BY <1>5, <1>10

LEMMA ResidualCalm ==
    ASSUME NEW l, NEW t \in 1 .. ScratchRows, NEW mlp, Calm(mlp)
    PROVE  Calm(Residual(l, t, mlp))
<1> DEFINE A == <<Add("a", "proj", "res", t), RmsnormZeroCentered("res", W(l, "post_ln"), "mlp_in", t)>>
           C == <<Add("res", "down", "b", t)>>
<1>1. {"a", "b", "proj", "res", "mlp_in", "down"} \subseteq Wide
  BY DEF Wide, ScratchBuffer
<1>2. /\ Held(t, "a") /\ Held(t, "b") /\ Held(t, "proj") /\ Held(t, "res")
      /\ Held(t, "mlp_in") /\ Held(t, "down")
  BY <1>1, ScratchHeld
<1>3. Calm(A)
  BY <1>2, QuietStoreOne, QuietStoreTwo, CalmTwo DEF Add, RmsnormZeroCentered
<1>4. Calm(C)
  BY <1>2, QuietStoreTwo, CalmOne DEF Add
<1>5. Residual(l, t, mlp) = A \o mlp \o C
  BY DEF Residual
<1> HIDE DEF A, C
<1>6. Calm(A \o mlp)
  BY <1>3, ConcatCalm
<1>7. Calm(A \o mlp \o C)
  BY <1>4, <1>6, ConcatCalm
<1> QED BY <1>5, <1>7

LEMMA NormsCalm ==
    ASSUME NEW l, NEW t \in 1 .. ScratchRows
    PROVE  Calm(InNorm(l, t)) /\ Calm(GatedNorm(l, t)) /\ Calm(HeadNorms(l, t))
<1>1. {"a", "hidden", "attn", "z", "gnorm", "q", "kb", "kb_ln"} \subseteq Wide
  BY DEF Wide, ScratchBuffer
<1>2. /\ Held(t, "a") /\ Held(t, "hidden") /\ Held(t, "attn") /\ Held(t, "z")
      /\ Held(t, "gnorm") /\ Held(t, "q") /\ Held(t, "kb") /\ Held(t, "kb_ln")
  BY <1>1, ScratchHeld
<1>3. Calm(InNorm(l, t))
  BY <1>2, QuietStoreOne, CalmOne DEF InNorm, RmsnormZeroCentered
<1>4. Calm(GatedNorm(l, t))
  BY <1>2, QuietStoreTwo, CalmOne DEF GatedNorm, RmsnormGated
<1>5. Calm(HeadNorms(l, t))
  BY <1>2, QuietStoreOne, CalmTwo DEF HeadNorms, RmsnormZeroCentered, RmsnormZeroCenteredInplace
<1> QED BY <1>3, <1>4, <1>5

LEMMA GateAndProjectCalm ==
    ASSUME NEW l, NEW t \in 1 .. ScratchRows, NEW project, Calm(project)
    PROVE  Calm(GateAndProject(l, t, project))
<1>1. {"attn", "gate"} \subseteq Wide
  BY DEF Wide, ScratchBuffer
<1>2. Held(t, "attn") /\ Held(t, "gate")
  BY <1>1, ScratchHeld
<1>3. Calm(<<SigmoidMul("attn", "gate", t)>>)
  BY <1>2, QuietStoreTwo, CalmOne DEF SigmoidMul
<1> QED BY <1>3, ConcatCalm DEF GateAndProject

LEMMA OneRow == 1 \in 1 .. ScratchRows /\ 1 \in 1 .. NSeq /\ 1 .. NSeq \subseteq 1 .. ScratchRows
BY SizesAreNat

\* The row-wise kernels of the recurrent mixer.
LEMMA DeltaRowsQuiet ==
    ASSUME NEW l, NEW t \in 1 .. ScratchRows, NEW section, NEW checked
    PROVE  /\ Quiet(CopyLive("conv", "conv_ln", t)) /\ Unstaged(CopyLive("conv", "conv_ln", t))
           /\ LET L == Rows({Store("conv_ln", "l2norm", section, <<"conv_ln">>)}, t, checked)
              IN Quiet(L) /\ Unstaged(L)
           /\ LET L == Rows(DeltaGateStores(l), t, checked) IN Quiet(L) /\ Unstaged(L)
<1>1. {"conv", "conv_ln", "decay", "beta", "a_proj", "b_proj"} \subseteq Wide
  BY DEF Wide, ScratchBuffer
<1>2. /\ Held(t, "conv") /\ Held(t, "conv_ln") /\ Held(t, "decay") /\ Held(t, "beta")
      /\ Held(t, "a_proj") /\ Held(t, "b_proj")
  BY <1>1, ScratchHeld
<1>3. (IF t < Capacity("conv_ln") THEN t ELSE Capacity("conv_ln")) = t
  BY <1>2 DEF Held
<1>4. CopyLive("conv", "conv_ln", t) = Copy("conv", "conv_ln", 0, t, Sizes)
  BY <1>3 DEF CopyLive
<1>5. Quiet(CopyLive("conv", "conv_ln", t)) /\ Unstaged(CopyLive("conv", "conv_ln", t))
  BY <1>2, <1>4, QuietCopy
<1>6. \A w \in DeltaGateStores(l) : Held(t, w.out) /\ \A i \in DOMAIN w.ins : Held(t, w.ins[i])
  BY <1>2 DEF DeltaGateStores, Store
<1> QED BY <1>2, <1>5, <1>6, QuietStoreOne, QuietRows

LEMMA DeltaInsHeld ==
    ASSUME NEW t \in 1 .. ScratchRows
    PROVE  /\ DOMAIN DeltaIns = 1 .. 4 /\ Held(t, "hidden") /\ Held(t, "gnorm") /\ Held(t, "proj")
           /\ \A i \in 1 .. 4 : DeltaIns[i] \in DOMAIN Shape /\ Held(t, DeltaOuts[i])
<1>1. {"hidden", "qkv", "z", "a_proj", "b_proj", "gnorm", "proj"} \subseteq Wide
  BY DEF Wide, ScratchBuffer
<1>2. /\ Held(t, "hidden") /\ Held(t, "qkv") /\ Held(t, "z") /\ Held(t, "a_proj")
      /\ Held(t, "b_proj") /\ Held(t, "gnorm") /\ Held(t, "proj")
  BY <1>1, ScratchHeld
<1>3. \A i \in 1 .. 4 : DeltaIns[i] \in ProjectionNames
  BY DEF DeltaIns, ProjectionNames
<1>4. \A i \in 1 .. 4 : DeltaIns[i] \in DOMAIN Shape
  BY <1>3, NamesLoaded
<1>5. \A i \in 1 .. 4 : Held(t, DeltaOuts[i])
  BY <1>2 DEF DeltaOuts
<1>6. DOMAIN DeltaIns = 1 .. 4
  BY DEF DeltaIns
<1> QED BY <1>2, <1>4, <1>5, <1>6

\* The parts of a recurrent layer, put together.
LEMMA DeltaLayerCalm ==
    ASSUME NEW l, NEW t \in 1 .. ScratchRows, NEW ins, NEW six, NEW out, NEW mlp,
           Calm(ins), Calm(six), Calm(out), Calm(mlp)
    PROVE  Calm(InNorm(l, t) \o ins \o six \o GatedNorm(l, t) \o out \o Residual(l, t, mlp))
<1> DEFINE A == InNorm(l, t)
           D == GatedNorm(l, t)
           F == Residual(l, t, mlp)
<1>1. Calm(A) /\ Calm(D) /\ Calm(F)
  BY NormsCalm, ResidualCalm
<1> HIDE DEF A, D, F
<1>2. Calm(A \o ins)
  BY <1>1, ConcatCalm
<1>3. Calm(A \o ins \o six)
  BY <1>2, ConcatCalm
<1>4. Calm(A \o ins \o six \o D)
  BY <1>1, <1>3, ConcatCalm
<1>5. Calm(A \o ins \o six \o D \o out)
  BY <1>4, ConcatCalm
<1>6. Calm(A \o ins \o six \o D \o out \o F)
  BY <1>1, <1>5, ConcatCalm
<1> QED BY <1>6 DEF A, D, F

LEMMA DeltaForwardCalm ==
    ASSUME NEW l
    PROVE  Calm(DeltaForward(l))
<1> DEFINE ins == FlattenSeq([i \in 1 .. 4 |-> Forward(W(l, DeltaIns[i]), "hidden", DeltaOuts[i], 1)])
           six == <<Conv1dStepSilu(l), CopyLive("conv", "conv_ln", 1), L2normScale("q"),
                    L2normScale("k"), DeltaGate(l), GatedDeltaRuleStep(l)>>
           out == Forward(W(l, "out_proj"), "gnorm", "proj", 1)
           mlp == MlpForward(l, 1)
<1>1. Calm(ins)
  BY OneRow, DeltaInsHeld, ForwardsCalm
<1>2. Calm(out) /\ Calm(mlp)
  BY OneRow, DeltaInsHeld, ForwardCalm, MlpForwardCalm
<1>3. /\ Quiet(Conv1dStepSilu(l)) /\ Unstaged(Conv1dStepSilu(l))
      /\ Quiet(GatedDeltaRuleStep(l)) /\ Unstaged(GatedDeltaRuleStep(l))
  BY OneRow, QuietRecurrence DEF Conv1dStepSilu, GatedDeltaRuleStep
<1>4. /\ \A s : Quiet(L2normScale(s)) /\ Unstaged(L2normScale(s))
      /\ Quiet(DeltaGate(l)) /\ Unstaged(DeltaGate(l))
      /\ Quiet(CopyLive("conv", "conv_ln", 1)) /\ Unstaged(CopyLive("conv", "conv_ln", 1))
  BY OneRow, DeltaRowsQuiet DEF L2normScale, DeltaGate
<1>5. Calm(six)
  BY <1>3, <1>4, CalmSix
<1>6. DeltaForward(l) = InNorm(l, 1) \o ins \o six \o GatedNorm(l, 1) \o out \o Residual(l, 1, mlp)
  BY DEF DeltaForward
<1> HIDE DEF ins, six, out, mlp
<1> QED BY <1>1, <1>2, <1>5, <1>6, OneRow, DeltaLayerCalm

LEMMA DeltaForwardBatchCalm ==
    ASSUME NEW l, NEW n \in 1 .. NSeq
    PROVE  Calm(DeltaForwardBatch(l, n))
<1> DEFINE ins == FlattenSeq([i \in 1 .. 4 |-> Forward(W(l, DeltaIns[i]), "hidden", DeltaOuts[i], n)])
           six == <<Conv1dStepSiluMulti(l, n), CopyLive("conv", "conv_ln", n),
                    L2normScaleBatched("q", n), L2normScaleBatched("k", n),
                    DeltaGateBatched(l, n), GatedDeltaRuleStepMulti(l, n)>>
           out == Forward(W(l, "out_proj"), "gnorm", "proj", n)
           mlp == MlpForward(l, n)
<1>0. n \in 1 .. ScratchRows
  BY OneRow
<1>1. Calm(ins)
  BY <1>0, DeltaInsHeld, ForwardsCalm
<1>2. Calm(out) /\ Calm(mlp)
  BY <1>0, DeltaInsHeld, ForwardCalm, MlpForwardCalm
<1>3. /\ Quiet(Conv1dStepSiluMulti(l, n)) /\ Unstaged(Conv1dStepSiluMulti(l, n))
      /\ Quiet(GatedDeltaRuleStepMulti(l, n)) /\ Unstaged(GatedDeltaRuleStepMulti(l, n))
  BY OneRow, QuietRecurrence DEF Conv1dStepSiluMulti, GatedDeltaRuleStepMulti
<1>4. /\ \A s : Quiet(L2normScaleBatched(s, n)) /\ Unstaged(L2normScaleBatched(s, n))
      /\ Quiet(DeltaGateBatched(l, n)) /\ Unstaged(DeltaGateBatched(l, n))
      /\ Quiet(CopyLive("conv", "conv_ln", n)) /\ Unstaged(CopyLive("conv", "conv_ln", n))
  BY <1>0, DeltaRowsQuiet DEF L2normScaleBatched, DeltaGateBatched
<1>5. Calm(six)
  BY <1>3, <1>4, CalmSix
<1>6. DeltaForwardBatch(l, n)
        = InNorm(l, n) \o ins \o six \o GatedNorm(l, n) \o out \o Residual(l, n, mlp)
  BY DEF DeltaForwardBatch
<1> HIDE DEF ins, six, out, mlp
<1> QED BY <1>0, <1>1, <1>2, <1>5, <1>6, DeltaLayerCalm

LEMMA DeltaForwardPrefillCalm ==
    ASSUME NEW l, NEW s \in Seqs, NEW t \in 1 .. ScratchRows, env \in Environments
    PROVE  Calm(DeltaForwardPrefill(l, s, t))
<1> DEFINE ins == ForwardPrefillSharedInput(Ws(l, DeltaIns), "hidden", DeltaOuts, t)
           six == <<Conv1dPrefillSilu(l, s, t), CopyLive("conv", "conv_ln", t),
                    L2normScaleBatched("q", t), L2normScaleBatched("k", t),
                    DeltaGateBatched(l, t), GatedDeltaRuleChunk(l, s, t)>>
           out == ForwardPrefill(W(l, "out_proj"), "gnorm", "proj", t)
           mlp == MlpForwardPrefill(l, t)
<1>1. Calm(ins)
  <2>1. DOMAIN Ws(l, DeltaIns) = 1 .. 4 /\ \A i \in 1 .. 4 : Ws(l, DeltaIns)[i][2] \in DOMAIN Shape
    BY DeltaInsHeld, WsNamed
  <2> QED BY <2>1, DeltaInsHeld, SharedCalm
<1>2. Calm(out) /\ Calm(mlp)
  BY DeltaInsHeld, PrefillCalm, NamesLoaded, MlpForwardPrefillCalm DEF ProjectionNames
<1>3. /\ Quiet(Conv1dPrefillSilu(l, s, t)) /\ Unstaged(Conv1dPrefillSilu(l, s, t))
      /\ Quiet(GatedDeltaRuleChunk(l, s, t)) /\ Unstaged(GatedDeltaRuleChunk(l, s, t))
  BY OneRow, QuietRecurrence DEF Conv1dPrefillSilu, GatedDeltaRuleChunk
<1>4. /\ \A x : Quiet(L2normScaleBatched(x, t)) /\ Unstaged(L2normScaleBatched(x, t))
      /\ Quiet(DeltaGateBatched(l, t)) /\ Unstaged(DeltaGateBatched(l, t))
      /\ Quiet(CopyLive("conv", "conv_ln", t)) /\ Unstaged(CopyLive("conv", "conv_ln", t))
  BY DeltaRowsQuiet DEF L2normScaleBatched, DeltaGateBatched
<1>5. Calm(six)
  BY <1>3, <1>4, CalmSix
<1>6. DeltaForwardPrefill(l, s, t)
        = InNorm(l, t) \o ins \o six \o GatedNorm(l, t) \o out \o Residual(l, t, mlp)
  BY DEF DeltaForwardPrefill
<1> HIDE DEF ins, six, out, mlp
<1> QED BY <1>1, <1>2, <1>5, <1>6, DeltaLayerCalm

LEMMA RopeTablesCalm ==
    ASSUME NEW t \in 1 .. ScratchRows, NEW ps, DOMAIN ps = 1 .. t
    PROVE  Calm(RopeTables(ps))
<1> DEFINE c == [i \in DOMAIN ps |-> Angle("cos", ps[i])]
           d == [i \in DOMAIN ps |-> Angle("sin", ps[i])]
<1>1. {"cos", "sin"} \subseteq Wide
  BY DEF Wide, ScratchBuffer
<1>2. Held(t, "cos") /\ Held(t, "sin")
  BY <1>1, ScratchHeld
<1>3. Len(c) = t /\ Len(d) = t
  BY SizesAreNat
<1>4. RopeTables(ps) = <<Upload("cos", c, Sizes), Upload("sin", d, Sizes)>>
  BY DEF RopeTables
<1> HIDE DEF c, d
<1> QED BY <1>2, <1>3, <1>4, QuietUpload, CalmTwo

\* The row-wise kernels of the attention mixer.
LEMMA HeadRowsQuiet ==
    ASSUME NEW t \in 1 .. ScratchRows, NEW half, NEW checked
    PROVE  /\ LET L == Rows(HeadStores("q", half), t, checked) IN Quiet(L) /\ Unstaged(L)
           /\ LET L == Rows(HeadStores("gate", half), t, checked) IN Quiet(L) /\ Unstaged(L)
           /\ LET L == Rows(RopeStores, t, checked) IN Quiet(L) /\ Unstaged(L)
<1>1. {"q", "gate", "fused", "kb_ln", "cos", "sin"} \subseteq Wide
  BY DEF Wide, ScratchBuffer
<1>2. /\ Held(t, "q") /\ Held(t, "gate") /\ Held(t, "fused") /\ Held(t, "kb_ln")
      /\ Held(t, "cos") /\ Held(t, "sin")
  BY <1>1, ScratchHeld
<1>3. \A w \in RopeStores : Held(t, w.out) /\ \A i \in DOMAIN w.ins : Held(t, w.ins[i])
  <2>1. RopeStores = {Store("q", "rope", "none", <<"q", "cos", "sin">>),
                      Store("kb_ln", "rope", "none", <<"kb_ln", "cos", "sin">>)}
    BY DEF RopeStores
  <2>2. \A b \in {"q", "kb_ln"} : LET w == Store(b, "rope", "none", <<b, "cos", "sin">>)
          IN Held(t, w.out) /\ \A i \in DOMAIN w.ins : Held(t, w.ins[i])
    BY <1>2 DEF Store
  <2> QED BY <2>1, <2>2
<1>4. LET L == Rows(RopeStores, t, checked) IN Quiet(L) /\ Unstaged(L)
  BY <1>3, QuietRows
<1>5. \A b \in {"q", "gate"} :
        LET L == Rows(HeadStores(b, half), t, checked) IN Quiet(L) /\ Unstaged(L)
  BY <1>2, QuietStoreOne DEF HeadStores
<1> QED BY <1>4, <1>5

LEMMA AttnInsHeld ==
    ASSUME NEW t \in 1 .. ScratchRows
    PROVE  /\ DOMAIN AttnIns = 1 .. 3 /\ Held(t, "hidden") /\ Held(t, "attn") /\ Held(t, "proj")
           /\ \A i \in 1 .. 3 : AttnIns[i] \in DOMAIN Shape /\ Held(t, AttnOuts[i])
<1>1. {"hidden", "fused", "kb", "vb", "attn", "proj"} \subseteq Wide
  BY DEF Wide, ScratchBuffer
<1>2. /\ Held(t, "hidden") /\ Held(t, "fused") /\ Held(t, "kb") /\ Held(t, "vb")
      /\ Held(t, "attn") /\ Held(t, "proj")
  BY <1>1, ScratchHeld
<1>3. \A i \in 1 .. 3 : AttnIns[i] \in ProjectionNames
  BY DEF AttnIns, ProjectionNames
<1>4. \A i \in 1 .. 3 : AttnIns[i] \in DOMAIN Shape
  BY <1>3, NamesLoaded
<1>5. \A i \in 1 .. 3 : Held(t, AttnOuts[i])
  BY <1>2 DEF AttnOuts
<1>6. DOMAIN AttnIns = 1 .. 3
  BY DEF AttnIns
<1> QED BY <1>2, <1>4, <1>5, <1>6

\* What an attention layer launches before it touches the cache.
LEMMA AttnHeadCalm ==
    ASSUME NEW l, NEW t \in 1 .. ScratchRows, NEW ins, NEW halves, NEW ps,
           Calm(ins), Calm(halves), DOMAIN ps = 1 .. t
    PROVE  Calm(InNorm(l, t) \o ins \o halves \o HeadNorms(l, t) \o RopeTables(ps))
<1> DEFINE A == InNorm(l, t)
           D == HeadNorms(l, t)
           F == RopeTables(ps)
<1>1. Calm(A) /\ Calm(D) /\ Calm(F)
  BY NormsCalm, RopeTablesCalm
<1> HIDE DEF A, D, F
<1>2. Calm(A \o ins)
  BY <1>1, ConcatCalm
<1>3. Calm(A \o ins \o halves)
  BY <1>2, ConcatCalm
<1>4. Calm(A \o ins \o halves \o D)
  BY <1>1, <1>3, ConcatCalm
<1>5. Calm(A \o ins \o halves \o D \o F)
  BY <1>1, <1>4, ConcatCalm
<1> QED BY <1>5 DEF A, D, F

LEMMA ReadyFour ==
    ASSUME NEW l, NEW L, NEW M, NEW C, NEW Q, Quiet(L), Unstaged(L), Quiet(M), Unstaged(M),
           Sound(C, l), C.kind = "keys", Quiet(Q), Unstaged(Q)
    PROVE  Ready(<<L, M, C, Q>>, l)
<1> DEFINE sq == <<L, M, C, Q>>
<1>1. sq \in Seq({L, M, C, Q}) /\ DOMAIN sq = 1 .. 4
  OBVIOUS
<1>2. sq[1] = L /\ sq[2] = M /\ sq[3] = C /\ sq[4] = Q
  OBVIOUS
<1> HIDE DEF sq
<1>3. \A i \in DOMAIN sq : Sound(sq[i], l) /\ Unstaged(sq[i])
  BY <1>1, <1>2 DEF Sound, Unstaged
<1>4. Ready(sq, l)
  BY <1>1, <1>3 DEF Ready, IsSeq, Covered, StagedFor, Unstaged
<1> QED BY <1>4 DEF sq

\* An attention layer whose kernels are given their positions.
LEMMA AttnLayerReady ==
    ASSUME NEW l, NEW head, NEW core, NEW gate, NEW rest,
           Calm(head), Ready(core, l), Calm(gate), Calm(rest)
    PROVE  Ready(head \o core \o gate \o rest, l)
<1>1. Ready(head \o core, l)
  BY CalmReady, ConcatReady
<1>2. Ready(head \o core \o gate, l)
  BY <1>1, CalmReady, ConcatReady
<1> QED BY <1>2, CalmReady, ConcatReady

Counts == [Layer -> [Seqs -> 0 .. Limit]]

LEMMA LimitIsNat ==
    ASSUME passes \in Nat
    PROVE  Limit \in Nat /\ 0 \in 0 .. Limit
BY SizesAreNat DEF Limit

LEMMA SetKeysSound ==
    ASSUME NEW l \in Layer, NEW ks \in [Seqs -> 0 .. Limit]
    PROVE  Sound(SetKeys(l, ks), l) /\ SetKeys(l, ks).kind = "keys"
BY DEF Sound, SetKeys

LEMMA AttnForwardReady ==
    ASSUME NEW l \in AttnLayer, keys \in Counts, passes \in Nat,
           keys[l][0] + 1 <= Limit, Roomy => keys[l][0] + 1 <= NSeq * Ctx
    PROVE  Ready(AttnForward(l, keys[l]), l)
<1> DEFINE pos == keys[l][0]
           ins == FlattenSeq([i \in 1 .. 3 |-> Forward(W(l, AttnIns[i]), "hidden", AttnOuts[i], 1)])
           halves == <<DeinterleaveHeads("q", "query"), DeinterleaveHeads("gate", "gate")>>
           head == InNorm(l, 1) \o ins \o halves \o HeadNorms(l, 1) \o RopeTables(<<pos>>)
           core == <<RopeNeox, KvCacheAppend(l, pos), SetKeys(l, [keys[l] EXCEPT ![0] = pos + 1]),
                     AttnDecode(l, pos + 1)>>
           project == Forward(W(l, "o_proj"), "attn", "proj", 1)
           gate == GateAndProject(l, 1, project)
           rest == Residual(l, 1, MlpForward(l, 1))
<1>1. Calm(ins)
  BY OneRow, AttnInsHeld, ForwardsCalm
<1>2. Calm(halves)
  BY OneRow, HeadRowsQuiet, CalmTwo DEF DeinterleaveHeads
<1>3. Calm(head)
  <2>1. DOMAIN <<pos>> = 1 .. 1
    OBVIOUS
  <2> HIDE DEF pos, ins, halves
  <2> QED BY <1>1, <1>2, <2>1, OneRow, AttnHeadCalm
<1>4. Calm(gate) /\ Calm(rest)
  BY OneRow, AttnInsHeld, ForwardCalm, MlpForwardCalm, GateAndProjectCalm, ResidualCalm
<1>5. l \in Layer /\ 0 \in Seqs /\ pos \in Nat /\ keys[l] \in [Seqs -> 0 .. Limit]
  BY SizesAreNat DEF AttnLayer, Seqs, Counts
<1>6. pos + 1 \in 0 .. Limit /\ (Roomy => pos + 1 \in 0 .. NSeq * Ctx)
  BY <1>5, SizesAreNat, LimitIsNat
<1>7. [keys[l] EXCEPT ![0] = pos + 1] \in [Seqs -> 0 .. Limit]
  <2> HIDE DEF pos
  <2> QED BY <1>5, <1>6
<1>8. (Roomy => 0 * Ctx + pos + 1 - 1 \in 0 .. NSeq * Ctx - 1) /\ (pos + 1) - 1 = pos
  <2> HIDE DEF pos
  <2> QED BY <1>5, <1>6, SizesAreNat
<1>9. /\ Quiet(KvCacheAppend(l, pos)) /\ Unstaged(KvCacheAppend(l, pos))
      /\ Quiet(AttnDecode(l, pos + 1)) /\ Unstaged(AttnDecode(l, pos + 1))
  <2>2. pos \in Int
    BY <1>5
  <2> HIDE DEF pos
  <2>1. KvCacheAppend(l, pos) = Stateful("append", l, OneLane(0, 1), pos, FALSE, Sizes)
    BY DEF KvCacheAppend
  <2>4. AttnDecode(l, pos + 1) = Stateful("attend", l, OneLane(0, 1), (pos + 1) - 1, FALSE, {"cache"})
    BY DEF AttnDecode
  <2>5. AttnDecode(l, pos + 1) = Stateful("attend", l, OneLane(0, 1), pos, FALSE, {"cache"})
    BY <1>8, <2>4
  <2>3. \A kind \in {"append", "attend"} : \A checked :
          LET L == Stateful(kind, l, OneLane(0, 1), pos, FALSE, checked) IN Quiet(L) /\ Unstaged(L)
    BY <1>5, <1>8, <2>2, OneRow, QuietCache
  <2> QED BY <2>1, <2>3, <2>5
<1>10. Quiet(RopeNeox) /\ Unstaged(RopeNeox)
  BY OneRow, HeadRowsQuiet DEF RopeNeox
<1>11. Ready(core, l)
  <2> HIDE DEF pos
  <2> QED BY <1>5, <1>7, <1>9, <1>10, SetKeysSound, ReadyFour
<1>12. AttnForward(l, keys[l]) = head \o core \o gate \o rest
  BY DEF AttnForward
<1> HIDE DEF head, core, gate, rest
<1> QED BY <1>3, <1>4, <1>11, <1>12, AttnLayerReady

LEMMA AttnForwardPrefillReady ==
    ASSUME NEW l \in AttnLayer, NEW s \in Seqs, NEW t \in 1 .. ScratchRows, keys \in Counts,
           passes \in Nat, keys[l][s] + t <= Limit,
           Roomy => s * Ctx + keys[l][s] + t <= NSeq * Ctx, env \in Environments
    PROVE  Ready(AttnForwardPrefill(l, keys[l], s, t), l)
<1> DEFINE pos == keys[l][s]
           ps == [i \in 1 .. t |-> pos + i - 1]
           ins == ForwardPrefillSharedInput(Ws(l, AttnIns), "hidden", AttnOuts, t)
           halves == <<DeinterleaveHeadsBatched("q", "query", t),
                       DeinterleaveHeadsBatched("gate", "gate", t)>>
           head == InNorm(l, t) \o ins \o halves \o HeadNorms(l, t) \o RopeTables(ps)
           core == <<RopeNeoxBatched(t), KvCacheAppendBatched(l, s, pos, t),
                     SetKeys(l, [keys[l] EXCEPT ![s] = pos + t]), AttnPrefill(l, s, pos, t)>>
           project == ForwardPrefill(W(l, "o_proj"), "attn", "proj", t)
           gate == GateAndProject(l, t, project)
           rest == Residual(l, t, MlpForwardPrefill(l, t))
<1>1. Calm(ins)
  <2>1. DOMAIN Ws(l, AttnIns) = 1 .. 3 /\ \A i \in 1 .. 3 : Ws(l, AttnIns)[i][2] \in DOMAIN Shape
    BY AttnInsHeld, WsNamed
  <2> QED BY <2>1, AttnInsHeld, SharedCalm
<1>2. Calm(halves)
  BY HeadRowsQuiet, CalmTwo DEF DeinterleaveHeadsBatched
<1>3. Calm(head)
  <2>1. DOMAIN ps = 1 .. t
    OBVIOUS
  <2> HIDE DEF ps, ins, halves
  <2> QED BY <1>1, <1>2, <2>1, AttnHeadCalm
<1>4. Calm(gate) /\ Calm(rest)
  BY AttnInsHeld, NamesLoaded, PrefillCalm, MlpForwardPrefillCalm, GateAndProjectCalm, ResidualCalm
     DEF ProjectionNames
<1>5. l \in Layer /\ pos \in Nat /\ keys[l] \in [Seqs -> 0 .. Limit]
  BY SizesAreNat DEF AttnLayer, Seqs, Counts
<1>6. s \in Nat /\ t \in Nat \ {0} /\ s * Ctx \in Nat /\ NSeq * Ctx \in Nat
  BY SizesAreNat DEF Seqs
<1>7. pos + t \in 0 .. Limit /\ (Roomy => s * Ctx + pos + t - 1 \in 0 .. NSeq * Ctx - 1)
  BY <1>5, <1>6, LimitIsNat
<1>8. [keys[l] EXCEPT ![s] = pos + t] \in [Seqs -> 0 .. Limit]
  <2> HIDE DEF pos
  <2> QED BY <1>5, <1>7
<1>9. /\ Quiet(KvCacheAppendBatched(l, s, pos, t)) /\ Unstaged(KvCacheAppendBatched(l, s, pos, t))
      /\ Quiet(AttnPrefill(l, s, pos, t)) /\ Unstaged(AttnPrefill(l, s, pos, t))
  <2>1. pos \in Int
    BY <1>5
  <2> HIDE DEF pos
  <2> QED BY <1>7, <2>1, QuietCache DEF KvCacheAppendBatched, AttnPrefill, AttnPrefillTiled
<1>10. Quiet(RopeNeoxBatched(t)) /\ Unstaged(RopeNeoxBatched(t))
  BY HeadRowsQuiet DEF RopeNeoxBatched
<1>11. Ready(core, l)
  <2> HIDE DEF pos
  <2> QED BY <1>5, <1>8, <1>9, <1>10, SetKeysSound, ReadyFour
<1>12. AttnForwardPrefill(l, keys[l], s, t) = head \o core \o gate \o rest
  BY DEF AttnForwardPrefill
<1> HIDE DEF head, core, gate, rest
<1> QED BY <1>3, <1>4, <1>11, <1>12, AttnLayerReady

-----------------------------------------------------------------------------
(* The batched attention layer, whose kernels read their positions from the  *)
(* device.                                                                   *)

\* In a pass with room, every sequence has a row to append to, or has appended one.
AppendRoom(f) == Roomy => \A s \in Seqs : s * Ctx + f[s] < NSeq * Ctx
AttendRoom(f) == Roomy => \A s \in Seqs : f[s] >= 1 /\ s * Ctx + f[s] <= NSeq * Ctx

\* From index a on, the launches that copy the counts to the device, append, count and
\* attend; a falls below 1 as they run.  All others are quiet.
Queue(sq, l, a) ==
    /\ IsSeq(sq) /\ Covered(sq)
    /\ \A i \in DOMAIN sq :
         /\ i \in {a, a + 3} => sq[i] = SyncPositions(l)
         /\ i = a + 1 => sq[i] = KvCacheAppendMulti(l)
         /\ i = a + 2 => /\ sq[i].kind = "keys" /\ sq[i].layer = l
                         /\ sq[i].keys \in [Seqs -> 0 .. Limit] /\ AttendRoom(sq[i].keys)
         /\ i = a + 4 => sq[i] = AttnDecodeMulti(l)
         /\ i \notin a .. a + 4 => Quiet(sq[i])

LEMMA QueueAfter ==
    ASSUME NEW s, NEW t, NEW l, NEW a \in Nat \ {0}, Calm(s), Queue(t, l, a)
    PROVE  Queue(s \o t, l, Len(s) + a)
<1> DEFINE st == s \o t
           b == Len(s) + a
<1>1. IsSeq(s) /\ IsSeq(t) /\ IsSeq(st) /\ Covered(st) /\ Len(s) \in Nat
  BY ConcatSeq, ConcatCovered DEF Calm, Queue
<1>2. \A i \in DOMAIN st : \/ i \in DOMAIN s /\ st[i] = s[i]
                          \/ \E j \in DOMAIN t : i = Len(s) + j /\ st[i] = t[j]
  BY <1>1, ConcatCases
<1>3. DOMAIN s = 1 .. Len(s) /\ DOMAIN t = 1 .. Len(t) /\ Len(t) \in Nat
  BY <1>1, ConcatSeq
<1> HIDE DEF st
<1>4. ASSUME NEW i \in DOMAIN s, st[i] = s[i]
      PROVE  Quiet(st[i]) /\ i \notin b .. b + 4 /\ i \notin {b, b + 1, b + 2, b + 3, b + 4}
  BY <1>1, <1>3, <1>4 DEF Calm
<1>5. ASSUME NEW i \in DOMAIN st, NEW j \in DOMAIN t, i = Len(s) + j, st[i] = t[j]
      PROVE  /\ i \in {b, b + 3} <=> j \in {a, a + 3}
             /\ i = b + 1 <=> j = a + 1
             /\ i = b + 2 <=> j = a + 2
             /\ i = b + 4 <=> j = a + 4
             /\ i \in b .. b + 4 <=> j \in a .. a + 4
  BY <1>1, <1>3, <1>5
<1>6. ASSUME NEW i \in DOMAIN st
      PROVE  /\ i \in {b, b + 3} => st[i] = SyncPositions(l)
             /\ i = b + 1 => st[i] = KvCacheAppendMulti(l)
             /\ i = b + 2 => /\ st[i].kind = "keys" /\ st[i].layer = l
                             /\ st[i].keys \in [Seqs -> 0 .. Limit] /\ AttendRoom(st[i].keys)
             /\ i = b + 4 => st[i] = AttnDecodeMulti(l)
             /\ i \notin b .. b + 4 => Quiet(st[i])
  <2>1. CASE i \in DOMAIN s /\ st[i] = s[i]
    BY <1>4, <2>1
  <2>2. ASSUME NEW j \in DOMAIN t, i = Len(s) + j, st[i] = t[j]
        PROVE  /\ i \in {b, b + 3} => st[i] = SyncPositions(l)
               /\ i = b + 1 => st[i] = KvCacheAppendMulti(l)
               /\ i = b + 2 => /\ st[i].kind = "keys" /\ st[i].layer = l
                               /\ st[i].keys \in [Seqs -> 0 .. Limit] /\ AttendRoom(st[i].keys)
               /\ i = b + 4 => st[i] = AttnDecodeMulti(l)
               /\ i \notin b .. b + 4 => Quiet(st[i])
    <3> HIDE DEF b
    <3> QED BY <1>5, <2>2 DEF Queue
  <2> QED BY <1>2, <2>1, <2>2
<1>7. Queue(st, l, b)
  BY <1>1, <1>6 DEF Queue
<1> QED BY <1>7 DEF st

LEMMA QueueBefore ==
    ASSUME NEW s, NEW t, NEW l, NEW a \in Nat \ {0}, Queue(s, l, a), a + 4 <= Len(s), Calm(t)
    PROVE  Queue(s \o t, l, a) /\ a + 4 <= Len(s \o t)
<1> DEFINE st == s \o t
<1>1. /\ IsSeq(s) /\ IsSeq(t) /\ IsSeq(st) /\ Covered(st)
      /\ Len(s) \in Nat /\ Len(t) \in Nat /\ DOMAIN t = 1 .. Len(t)
  BY ConcatSeq, ConcatCovered DEF Calm, Queue
<1>2. \A i \in DOMAIN st : \/ i \in DOMAIN s /\ st[i] = s[i]
                          \/ \E j \in DOMAIN t : i = Len(s) + j /\ st[i] = t[j]
  BY <1>1, ConcatCases
<1>3. Len(st) = Len(s) + Len(t)
  <2>1. DOMAIN st = 1 .. Len(s) + Len(t)
    BY <1>1, ConcatSeq
  <2> HIDE DEF st
  <2> QED BY <1>1, <2>1 DEF IsSeq
<1> HIDE DEF st
<1>4. \A j \in DOMAIN t : Quiet(t[j]) /\ Len(s) + j \notin a .. a + 4
        /\ Len(s) + j \notin {a, a + 1, a + 2, a + 3, a + 4}
  BY <1>1 DEF Calm
<1>5. Queue(st, l, a)
  BY <1>1, <1>2, <1>4 DEF Queue
<1> QED BY <1>1, <1>3, <1>5 DEF st

LEMMA CoreQueue ==
    ASSUME NEW l, NEW L, Quiet(L), Unstaged(L), NEW ks \in [Seqs -> 0 .. Limit],
           AttendRoom(ks)
    PROVE  LET sq == <<L, SyncPositions(l), KvCacheAppendMulti(l), SetKeys(l, ks),
                       SyncPositions(l), AttnDecodeMulti(l)>>
           IN Queue(sq, l, 2) /\ Len(sq) = 6
<1> DEFINE M == SyncPositions(l)
           A == KvCacheAppendMulti(l)
           C == SetKeys(l, ks)
           D == AttnDecodeMulti(l)
           sq == <<L, M, A, C, M, D>>
<1>1. sq \in Seq({L, M, A, C, D}) /\ DOMAIN sq = 1 .. 6 /\ Len(sq) = 6
  OBVIOUS
<1>2. sq[1] = L /\ sq[2] = M /\ sq[3] = A /\ sq[4] = C /\ sq[5] = M /\ sq[6] = D
  OBVIOUS
<1>3. M.kind = "sync" /\ A.kind = "append" /\ C.kind = "keys" /\ D.kind = "attend"
      /\ C.layer = l /\ C.keys = ks
  BY DEF SyncPositions, KvCacheAppendMulti, SetKeys, AttnDecodeMulti, Stateful
<1> HIDE DEF sq, M, A, C, D
<1>4. \A i \in DOMAIN sq : Unstaged(sq[i])
  BY <1>1, <1>2, <1>3 DEF Unstaged
<1>5. Covered(sq)
  BY <1>4 DEF Covered, StagedFor, Unstaged
<1>6. ASSUME NEW i \in 1 .. 6
      PROVE  /\ i \in {2, 5} => sq[i] = M
             /\ i = 3 => sq[i] = A
             /\ i = 4 => sq[i] = C
             /\ i = 6 => sq[i] = D
             /\ i \notin 2 .. 6 => sq[i] = L
  BY <1>2
<1>7. Queue(sq, l, 2)
  BY <1>1, <1>3, <1>5, <1>6 DEF Queue, IsSeq, M, A, D
<1> QED BY <1>1, <1>7 DEF sq, M, A, C, D

LEMMA AttnForwardBatchQueue ==
    ASSUME NEW l \in AttnLayer, NEW n \in 1 .. NSeq, keys \in Counts, AppendRoom(keys[l]),
           passes \in Nat, \A s \in Seqs : keys[l][s] + 1 <= Limit
    PROVE  \E a \in Nat \ {0} : Queue(AttnForwardBatch(l, keys[l], n), l, a)
<1> DEFINE ps == [i \in 1 .. n |-> keys[l][i - 1]]
           ks == [s \in Seqs |-> keys[l][s] + 1]
           ins == FlattenSeq([i \in 1 .. 3 |-> Forward(W(l, AttnIns[i]), "hidden", AttnOuts[i], n)])
           halves == <<DeinterleaveHeadsBatched("q", "query", n),
                       DeinterleaveHeadsBatched("gate", "gate", n)>>
           head == InNorm(l, n) \o ins \o halves \o HeadNorms(l, n) \o RopeTables(ps)
           core == <<RopeNeoxBatched(n), SyncPositions(l), KvCacheAppendMulti(l),
                     SetKeys(l, ks), SyncPositions(l), AttnDecodeMulti(l)>>
           project == Forward(W(l, "o_proj"), "attn", "proj", n)
           gate == GateAndProject(l, n, project)
           rest == Residual(l, n, MlpForward(l, n))
<1>0. n \in 1 .. ScratchRows
  BY OneRow
<1>1. Calm(ins)
  BY <1>0, AttnInsHeld, ForwardsCalm
<1>2. Calm(halves)
  BY <1>0, HeadRowsQuiet, CalmTwo DEF DeinterleaveHeadsBatched
<1>3. Calm(head)
  <2>1. DOMAIN ps = 1 .. n
    OBVIOUS
  <2> HIDE DEF ps, ins, halves
  <2> QED BY <1>0, <1>1, <1>2, <2>1, AttnHeadCalm
<1>4. Calm(gate) /\ Calm(rest)
  BY <1>0, AttnInsHeld, ForwardCalm, MlpForwardCalm, GateAndProjectCalm, ResidualCalm
<1>5. keys[l] \in [Seqs -> 0 .. Limit]
  BY DEF AttnLayer, Counts
<1>6. \A s \in Seqs : /\ keys[l][s] + 1 \in 0 .. Limit /\ keys[l][s] + 1 >= 1
                      /\ Roomy => s * Ctx + (keys[l][s] + 1) <= NSeq * Ctx
  <2> SUFFICES ASSUME NEW s \in Seqs
               PROVE  /\ keys[l][s] + 1 \in 0 .. Limit /\ keys[l][s] + 1 >= 1
                      /\ Roomy => s * Ctx + (keys[l][s] + 1) <= NSeq * Ctx
    OBVIOUS
  <2>1. keys[l][s] \in Nat /\ (Roomy => s * Ctx + keys[l][s] < NSeq * Ctx)
    BY <1>5, LimitIsNat DEF AppendRoom
  <2>2. s * Ctx \in Nat /\ NSeq * Ctx \in Nat /\ keys[l][s] + 1 <= Limit
    BY SizesAreNat DEF Seqs
  <2> QED BY <2>1, <2>2, LimitIsNat
<1>7. ks \in [Seqs -> 0 .. Limit] /\ AttendRoom(ks)
  BY <1>6 DEF AttendRoom
<1>8. Quiet(RopeNeoxBatched(n)) /\ Unstaged(RopeNeoxBatched(n))
  BY <1>0, HeadRowsQuiet DEF RopeNeoxBatched
<1>9. Queue(core, l, 2) /\ Len(core) = 6
  <2> HIDE DEF ks
  <2> QED BY <1>7, <1>8, CoreQueue
<1>10. AttnForwardBatch(l, keys[l], n) = head \o core \o gate \o rest
  BY DEF AttnForwardBatch
<1> HIDE DEF head, core, gate, rest
<1> DEFINE a == Len(head) + 2
<1>11. /\ IsSeq(head) /\ IsSeq(core) /\ Len(head) \in Nat
       /\ DOMAIN (head \o core) = 1 .. Len(head) + Len(core)
  BY <1>3, <1>9, ConcatSeq DEF Calm, Queue
<1>12. Queue(head \o core, l, a)
  BY <1>3, <1>9, QueueAfter
<1>13. a \in Nat \ {0} /\ a + 4 <= Len(head \o core)
  <2>1. Len(head \o core) = Len(head) + 6
    BY <1>9, <1>11, <1>12 DEF Queue, IsSeq
  <2> QED BY <1>11, <2>1
<1> HIDE DEF a
<1>14. Queue(head \o core \o gate, l, a) /\ a + 4 <= Len(head \o core \o gate)
  BY <1>4, <1>12, <1>13, QueueBefore
<1>15. Queue(head \o core \o gate \o rest, l, a)
  BY <1>4, <1>13, <1>14, QueueBefore
<1> QED BY <1>10, <1>13, <1>15

-----------------------------------------------------------------------------
(* What running a launch does to the shapes and to what is left to run.      *)

BufType == DOMAIN buf = Buffer /\ \A b \in Buffer : DOMAIN buf[b] = BufRow

CacheType ==
    /\ DOMAIN convHist = Layer /\ DOMAIN snapConv = Layer /\ DOMAIN cache = Layer
    /\ \A l \in Layer : /\ DOMAIN convHist[l] = 0 .. NSeq * ConvHist - 1
                        /\ DOMAIN snapConv[l] = 0 .. NSeq * ConvHist - 1
                        /\ DOMAIN cache[l] = 0 .. NSeq * Ctx - 1

CountType == keys \in Counts /\ positions \in Counts /\ snapKeys \in Counts

StagedType ==
    /\ DOMAIN staged = {"w", "act"} /\ DOMAIN staged.w = {"cells", "val"}
    /\ staged.w.cells \in Nat /\ DOMAIN staged.act = Part
    /\ \A p \in Part : DOMAIN staged.act[p] = {"cells", "rows"} /\ staged.act[p].cells \in Nat

TypeInv == BufType /\ CacheType /\ CountType /\ StagedType

\* The counts and their device copy where the launches of a batched attention layer stand.
PositionsFor(l, a) ==
    /\ a >= 1 => AppendRoom(keys[l])
    /\ a = 0 => AppendRoom(positions[l])
    /\ a = -2 => AttendRoom(keys[l])
    /\ a = -3 => AttendRoom(positions[l])

StreamReady(sq, l) ==
    \/ Ready(sq, l)
    \/ l \in Layer /\ \E a \in Int : a >= -3 /\ Queue(sq, l, a) /\ PositionsFor(l, a)

LEMMA BufKept ==
    ASSUME NEW L, BufType, Run(L)
    PROVE  BufType'
<1>1. CASE RunRows(L)
  BY <1>1 DEF RunRows, BufType
<1>2. CASE RunUpload(L) \/ RunCopy(L) \/ RunGemm(L)
  BY <1>2 DEF RunUpload, RunCopy, RunGemm, BufType
<1>3. CASE RunConv(L) \/ RunRule(L) \/ RunAttend(L)
  BY <1>3 DEF RunConv, RunRule, RunAttend, InLanes, BufType
<1>4. CASE RunAppend(L) \/ RunSync(L) \/ RunKeys(L) \/ RunGrow(L) \/ RunDequant(L) \/ RunCast(L)
  <2>1. UNCHANGED buf
    BY <1>4 DEF RunAppend, RunSync, RunKeys, RunGrow, RunDequant, RunCast
  <2> QED BY <2>1 DEF BufType
<1> QED BY <1>1, <1>2, <1>3, <1>4 DEF Run

LEMMA CacheKept ==
    ASSUME NEW L, CacheType, Run(L), UNCHANGED snapConv
    PROVE  CacheType'
<1>1. CASE RunConv(L)
  BY <1>1 DEF RunConv, CacheType
<1>2. CASE RunAppend(L)
  BY <1>2 DEF RunAppend, CacheType
<1>3. CASE ~(RunConv(L) \/ RunAppend(L))
  <2>1. UNCHANGED <<convHist, cache>>
    BY <1>3 DEF Run, RunRows, RunUpload, RunCopy, RunRule, RunAttend, RunSync, RunKeys, RunGrow,
       RunDequant, RunCast, RunGemm
  <2> QED BY <2>1 DEF CacheType
<1> QED BY <1>1, <1>2, <1>3

LEMMA CountsMoved ==
    ASSUME NEW L, Run(L)
    PROVE  /\ L.kind # "keys" => UNCHANGED keys
           /\ L.kind = "keys" => keys' = [keys EXCEPT ![L.layer] = L.keys]
           /\ L.kind # "sync" => UNCHANGED positions
           /\ L.kind = "sync" => positions' = [positions EXCEPT ![L.layer] = keys[L.layer]]
BY DEF Run, RunRows, RunUpload, RunCopy, RunConv, RunRule, RunAppend, RunAttend, RunSync, RunKeys,
   RunGrow, RunDequant, RunCast, RunGemm

\* The staging buffers only grow, to what a grow asks for at least.
LEMMA StagedGrows ==
    ASSUME NEW L, StagedType, Run(L), L.kind = "grow" => L.cells \in Nat /\ L.actCells \in Nat
    PROVE  /\ StagedType'
           /\ staged'.w.cells >= staged.w.cells
           /\ \A p \in Part : staged'.act[p].cells >= staged.act[p].cells
           /\ L.kind = "grow" => /\ staged'.w.cells >= L.cells
                                 /\ \A p \in Part \intersect L.parts :
                                      staged'.act[p].cells >= L.actCells
<1>1. CASE RunGrow(L)
  <2>1. L.kind = "grow" /\ L.cells \in Nat /\ L.actCells \in Nat
    BY <1>1 DEF RunGrow
  <2>2. /\ DOMAIN staged' = {"w", "act"} /\ DOMAIN staged'.act = Part
        /\ staged'.w = IF Outgrown(staged.w.cells, L.cells)
                       THEN [cells |-> L.cells, val |-> Stale] ELSE staged.w
        /\ \A p \in Part : staged'.act[p] =
             IF p \in L.parts /\ Outgrown(staged.act[p].cells, L.actCells)
             THEN [cells |-> L.actCells, rows |-> [r \in BufRow |-> Stale]] ELSE staged.act[p]
    BY <1>1 DEF RunGrow
  <2>3. /\ DOMAIN staged'.w = {"cells", "val"} /\ staged'.w.cells \in Nat
        /\ staged'.w.cells >= staged.w.cells /\ staged'.w.cells >= L.cells
    BY <2>1, <2>2 DEF Outgrown, StagedType
  <2>4. ASSUME NEW p \in Part
        PROVE  /\ DOMAIN staged'.act[p] = {"cells", "rows"} /\ staged'.act[p].cells \in Nat
               /\ staged'.act[p].cells >= staged.act[p].cells
               /\ p \in L.parts => staged'.act[p].cells >= L.actCells
    BY <2>1, <2>2 DEF Outgrown, StagedType
  <2> QED BY <2>1, <2>2, <2>3, <2>4 DEF StagedType
<1>2. CASE RunDequant(L)
  <2>1. L.kind = "dequant" /\ staged'.w.cells = staged.w.cells /\ staged'.act = staged.act
        /\ DOMAIN staged' = {"w", "act"} /\ DOMAIN staged'.w = {"cells", "val"}
    BY <1>2 DEF RunDequant, StagedType
  <2> QED BY <2>1 DEF StagedType
<1>3. CASE RunCast(L)
  <2>1. /\ L.kind = "cast" /\ staged'.w = staged.w
        /\ DOMAIN staged' = {"w", "act"} /\ DOMAIN staged'.act = Part
        /\ \A p \in Part : staged'.act[p].cells = staged.act[p].cells
                           /\ DOMAIN staged'.act[p] = {"cells", "rows"}
    BY <1>3 DEF RunCast, StagedType
  <2> QED BY <2>1 DEF StagedType
<1>4. CASE ~(RunGrow(L) \/ RunDequant(L) \/ RunCast(L))
  <2>1. UNCHANGED staged /\ L.kind # "grow"
    BY <1>4 DEF Run, RunRows, RunUpload, RunCopy, RunConv, RunRule, RunAppend, RunAttend, RunSync,
       RunKeys, RunGemm
  <2> QED BY <2>1 DEF StagedType
<1> QED BY <1>1, <1>2, <1>3, <1>4

LEMMA TailIsSeq ==
    ASSUME NEW sq, IsSeq(sq), sq # << >>
    PROVE  /\ IsSeq(Tail(sq)) /\ Len(sq) \in Nat \ {0} /\ 1 \in DOMAIN sq /\ Head(sq) = sq[1]
           /\ \A i \in DOMAIN Tail(sq) : i \in Nat \ {0} /\ i + 1 \in DOMAIN sq /\ Tail(sq)[i] = sq[i + 1]
<1>1. PICK S : sq \in Seq(S)
  BY DEF IsSeq
<1>2. Tail(sq) \in Seq(S) /\ Len(Tail(sq)) = Len(sq) - 1 /\ Len(sq) \in Nat \ {0}
  BY <1>1
<1>3. \A i \in 1 .. Len(sq) - 1 : Tail(sq)[i] = sq[i + 1]
  BY <1>1
<1>4. DOMAIN Tail(sq) = 1 .. Len(sq) - 1 /\ DOMAIN sq = 1 .. Len(sq) /\ Head(sq) = sq[1]
  BY <1>1, <1>2
<1>5. IsSeq(Tail(sq))
  BY <1>2 DEF IsSeq
<1> QED BY <1>2, <1>3, <1>4, <1>5

\* What has been grown stays grown, so the rest of the stream finds its room.
LEMMA TailCovered ==
    ASSUME NEW sq, IsSeq(sq), sq # << >>, Covered(sq), StagedType, Run(sq[1]),
           sq[1].kind = "grow" => sq[1].cells \in Nat /\ sq[1].actCells \in Nat,
           \A i \in DOMAIN sq : Fitting(sq[i]) \/ sq[i].kind \notin {"dequant", "cast", "gemm"}
    PROVE  Covered(Tail(sq))'
<1> DEFINE L == sq[1]
           tl == Tail(sq)
<1>1. /\ StagedType'
      /\ staged'.w.cells >= staged.w.cells
      /\ \A p \in Part : staged'.act[p].cells >= staged.act[p].cells
      /\ L.kind = "grow" => /\ staged'.w.cells >= L.cells
                            /\ \A p \in Part \intersect L.parts :
                                 staged'.act[p].cells >= L.actCells
  BY StagedGrows
<1>2. \A i \in DOMAIN tl : i \in Nat \ {0} /\ i + 1 \in DOMAIN sq /\ tl[i] = sq[i + 1]
  BY TailIsSeq
<1>3. DOMAIN tl = 1 .. Len(sq) - 1 /\ Len(sq) \in Nat \ {0}
  BY DEF IsSeq
<1> HIDE DEF tl
<1>4. ASSUME NEW i \in DOMAIN tl, NEW c \in Nat, WeightHeld(sq, i + 1, c)
      PROVE  WeightHeld(tl, i, c)'
  <2>1. CASE staged.w.cells >= c
    BY <1>1, <2>1 DEF WeightHeld, StagedType
  <2>2. ASSUME NEW j \in 1 .. (i + 1) - 1, sq[j].kind = "grow", sq[j].cells >= c
        PROVE  WeightHeld(tl, i, c)'
    <3>1. CASE j = 1
      <4>1. L.cells \in Nat /\ L.cells >= c /\ staged'.w.cells >= L.cells
        BY <1>1, <2>2, <3>1
      <4>2. staged'.w.cells >= c
        BY <1>1, <4>1 DEF StagedType
      <4> QED BY <4>2 DEF WeightHeld
    <3>2. CASE j # 1
      <4>1. j - 1 \in 1 .. i - 1 /\ j - 1 \in DOMAIN tl /\ (j - 1) + 1 = j
        BY <1>2, <1>3, <2>2, <3>2
      <4>2. tl[j - 1] = sq[j]
        BY <1>2, <4>1
      <4> QED BY <2>2, <4>1, <4>2 DEF WeightHeld
    <3> QED BY <3>1, <3>2
  <2> QED BY <1>4, <2>1, <2>2 DEF WeightHeld
<1>5. ASSUME NEW i \in DOMAIN tl, NEW p \in Part, NEW c \in Nat, PartHeld(sq, i + 1, p, c)
      PROVE  PartHeld(tl, i, p, c)'
  <2>1. CASE staged.act[p].cells >= c
    BY <1>1, <2>1 DEF PartHeld, StagedType
  <2>2. ASSUME NEW j \in 1 .. (i + 1) - 1, sq[j].kind = "grow", p \in sq[j].parts,
               sq[j].actCells >= c
        PROVE  PartHeld(tl, i, p, c)'
    <3>1. CASE j = 1
      <4>1. L.actCells \in Nat /\ L.actCells >= c /\ staged'.act[p].cells >= L.actCells
        BY <1>1, <2>2, <3>1
      <4>2. staged'.act[p].cells >= c
        BY <1>1, <4>1 DEF StagedType
      <4> QED BY <4>2 DEF PartHeld
    <3>2. CASE j # 1
      <4>1. j - 1 \in 1 .. i - 1 /\ j - 1 \in DOMAIN tl /\ (j - 1) + 1 = j
        BY <1>2, <1>3, <2>2, <3>2
      <4>2. tl[j - 1] = sq[j]
        BY <1>2, <4>1
      <4> QED BY <2>2, <4>1, <4>2 DEF PartHeld
    <3> QED BY <3>1, <3>2
  <2> QED BY <1>5, <2>1, <2>2 DEF PartHeld
<1>6. ASSUME NEW i \in DOMAIN tl
      PROVE  StagedFor(tl, i)'
  <2>1. i + 1 \in DOMAIN sq /\ tl[i] = sq[i + 1] /\ StagedFor(sq, i + 1)
    BY <1>2 DEF Covered
  <2>2. /\ tl[i].kind \in {"dequant", "gemm"} => tl[i].cells \in Nat
        /\ tl[i].kind = "cast" => tl[i].rows * tl[i].k \in Nat /\ tl[i].parts \subseteq Part
        /\ tl[i].kind = "gemm" => tl[i].rows * tl[i].k \in Nat /\ tl[i].part \in Part
    BY <2>1 DEF Fitting
  <2>3. tl[i].kind \in {"dequant", "gemm"} => WeightHeld(tl, i, tl[i].cells)'
    BY <1>4, <2>1, <2>2 DEF StagedFor
  <2>4. tl[i].kind = "cast" => \A p \in tl[i].parts : PartHeld(tl, i, p, tl[i].rows * tl[i].k)'
    BY <1>5, <2>1, <2>2 DEF StagedFor
  <2>5. tl[i].kind = "gemm" => PartHeld(tl, i, tl[i].part, tl[i].rows * tl[i].k)'
    BY <1>5, <2>1, <2>2 DEF StagedFor
  <2> QED BY <2>3, <2>4, <2>5 DEF StagedFor
<1> QED BY <1>6 DEF Covered, tl

\* The launch about to run finds its operands staged.
LEMMA HeadStaged ==
    ASSUME NEW sq, IsSeq(sq), sq # << >>, Covered(sq)
    PROVE  /\ sq[1].kind \in {"dequant", "gemm"} => staged.w.cells >= sq[1].cells
           /\ sq[1].kind = "cast" =>
                \A p \in sq[1].parts : staged.act[p].cells >= sq[1].rows * sq[1].k
           /\ sq[1].kind = "gemm" => staged.act[sq[1].part].cells >= sq[1].rows * sq[1].k
<1>1. 1 \in DOMAIN sq /\ 1 .. 1 - 1 = {}
  BY TailIsSeq
<1>2. StagedFor(sq, 1)
  BY <1>1 DEF Covered
<1> QED BY <1>1, <1>2 DEF StagedFor, WeightHeld, PartHeld

\* A launch that fits every size there is, its cache rows in a pass with room.
Safe(L) ==
    /\ \A b \in Touched(L) : LastRow(L) < Capacity(b)
    /\ InStaging(L)
    /\ Roomy => InCache(L)

LEMMA SafeFits ==
    ASSUME NEW L, Safe(L), ~PastCache(L)
    PROVE  \A compared : Fits(L, compared)
<1>1. InCache(L)
  BY DEF Safe, PastCache, InCache, Roomy
<1> QED BY <1>1 DEF Safe, Fits

LEMMA QuietFits ==
    ASSUME NEW L, Quiet(L),
           L.kind \in {"dequant", "gemm"} => staged.w.cells >= L.cells,
           L.kind = "cast" => \A p \in L.parts : staged.act[p].cells >= L.rows * L.k,
           L.kind = "gemm" => staged.act[L.part].cells >= L.rows * L.k
    PROVE  Safe(L)
<1>1. L.kind \in {"append", "attend"} /\ Roomy =>
        \A lane \in L.lanes : KvRowOf(L, lane, Len(lane.rows)) \in 0 .. NSeq * Ctx - 1
  BY DEF Quiet, GivenRows, KvRowOf, PosOf
<1>2. Roomy => InCache(L)
  BY <1>1 DEF InCache
<1>3. InStaging(L)
  BY DEF InStaging, Quiet, Fitting
<1> QED BY <1>2, <1>3 DEF Safe, Quiet, Fitting

\* The launches of the batched attention layer that read their positions from the device.
LEMMA ReadingFits ==
    ASSUME NEW l \in Layer, positions \in Counts, passes \in Nat, NEW L,
           \/ L = KvCacheAppendMulti(l) /\ AppendRoom(positions[l])
           \/ L = AttnDecodeMulti(l) /\ AttendRoom(positions[l])
    PROVE  Safe(L) /\ Fitting(L) /\ Unstaged(L)
<1>1. /\ L.kind \in {"append", "attend"} /\ L.lanes = LanePerSeq(NSeq) /\ L.layer = l
      /\ L.fromDevice = TRUE
      /\ \/ L.pos = 0 /\ AppendRoom(positions[l])
         \/ L.pos = -1 /\ AttendRoom(positions[l])
  BY DEF KvCacheAppendMulti, AttnDecodeMulti, Stateful
<1>2. NSeq \in 1 .. NSeq /\ NSeq \in 1 .. ScratchRows
  BY SizesAreNat
<1>3. LastRow(L) = NSeq - 1 /\ \A lane \in L.lanes : lane.seq \in Seqs /\ Len(lane.rows) = 1
  BY <1>1, <1>2, LanePerSeqLast
<1>4. Fitting(L) /\ Unstaged(L)
  BY <1>1, <1>2, <1>3, LanesFit
<1>5. ASSUME Roomy, NEW lane \in L.lanes
      PROVE  KvRowOf(L, lane, Len(lane.rows)) \in 0 .. NSeq * Ctx - 1
  <2> DEFINE s == lane.seq
             p == positions[l][s]
  <2>1. KvRowOf(L, lane, Len(lane.rows)) = s * Ctx + (L.pos + p) + 1 - 1
    BY <1>1, <1>3 DEF KvRowOf, PosOf, KvStride
  <2>2. s \in Seqs /\ p \in Nat
    BY <1>3, LimitIsNat DEF Counts
  <2>3. /\ L.pos \in {0, -1}
        /\ L.pos = 0 => s * Ctx + p < NSeq * Ctx
        /\ L.pos = -1 => p >= 1 /\ s * Ctx + p <= NSeq * Ctx
    BY <1>1, <1>5, <2>2 DEF AppendRoom, AttendRoom
  <2>4. s * Ctx \in Nat /\ NSeq * Ctx \in Nat
    BY <2>2, SizesAreNat DEF Seqs
  <2> HIDE DEF s, p
  <2>5. s * Ctx + (L.pos + p) + 1 - 1 \in 0 .. NSeq * Ctx - 1
    BY <2>2, <2>3, <2>4
  <2> QED BY <2>1, <2>5
<1>6. Roomy => InCache(L)
  BY <1>5 DEF InCache
<1>7. InStaging(L)
  BY <1>1 DEF InStaging
<1> QED BY <1>4, <1>6, <1>7 DEF Safe, Fitting

LEMMA MovesFit ==
    ASSUME NEW L, L.kind \in {"sync", "keys"}
    PROVE  Safe(L) /\ Fitting(L) /\ Unstaged(L)
BY DEF Safe, InStaging, InCache, Fitting, Touched, Unstaged

\* So every launch of a stream stands when its turn comes.
LEMMA HeadFits ==
    ASSUME NEW l, NEW sq, sq # << >>, TypeInv, passes \in Nat, StreamReady(sq, l)
    PROVE  Safe(Head(sq))
<1>1. IsSeq(sq) /\ Covered(sq)
  BY DEF StreamReady, Ready, Queue
<1>2. Head(sq) = sq[1] /\ 1 \in DOMAIN sq
  BY <1>1, TailIsSeq
<1>3. CASE Quiet(sq[1])
  BY <1>1, <1>2, <1>3, HeadStaged, QuietFits
<1>4. CASE sq[1].kind \in {"sync", "keys"}
  BY <1>2, <1>4, MovesFit
<1>5. CASE Ready(sq, l)
  BY <1>2, <1>3, <1>4, <1>5 DEF Ready, Sound
<1>6. ASSUME l \in Layer, NEW a \in Int, a >= -3, Queue(sq, l, a), PositionsFor(l, a)
      PROVE  Safe(Head(sq))
  <2>1. /\ 1 \in {a, a + 3} => sq[1] = SyncPositions(l)
        /\ 1 = a + 1 => sq[1] = KvCacheAppendMulti(l)
        /\ 1 = a + 2 => sq[1].kind = "keys"
        /\ 1 = a + 4 => sq[1] = AttnDecodeMulti(l)
        /\ 1 \notin a .. a + 4 => Quiet(sq[1])
    BY <1>2, <1>6 DEF Queue
  <2>2. \/ 1 = a \/ 1 = a + 3 \/ 1 = a + 1 \/ 1 = a + 2 \/ 1 = a + 4 \/ 1 \notin a .. a + 4
    BY <1>6
  <2>3. CASE 1 = a \/ 1 = a + 3
    BY <1>4, <2>1, <2>3 DEF SyncPositions
  <2>4. CASE 1 = a + 1
    <3>1. AppendRoom(positions[l])
      BY <1>6, <2>4 DEF PositionsFor
    <3> QED BY <1>2, <1>6, <2>1, <2>4, <3>1, ReadingFits DEF TypeInv, CountType
  <2>5. CASE 1 = a + 2
    BY <1>4, <2>1, <2>5
  <2>6. CASE 1 = a + 4
    <3>1. AttendRoom(positions[l])
      BY <1>6, <2>6 DEF PositionsFor
    <3> QED BY <1>2, <1>6, <2>1, <2>6, <3>1, ReadingFits DEF TypeInv, CountType
  <2>7. CASE 1 \notin a .. a + 4
    BY <1>3, <2>1, <2>7
  <2> QED BY <2>2, <2>3, <2>4, <2>5, <2>6, <2>7
<1> QED BY <1>5, <1>6 DEF StreamReady

\* What every launch of a ready stream is, whichever of the two shapes it has.
LEMMA StreamLaunches ==
    ASSUME NEW l, NEW sq, StreamReady(sq, l)
    PROVE  /\ IsSeq(sq) /\ Covered(sq)
           /\ \A i \in DOMAIN sq :
                /\ Fitting(sq[i]) \/ sq[i].kind \notin {"dequant", "cast", "gemm"}
                /\ sq[i].kind = "grow" => sq[i].cells \in Nat /\ sq[i].actCells \in Nat
                /\ sq[i].kind = "keys" => /\ l \in Layer /\ sq[i].layer = l
                                          /\ sq[i].keys \in [Seqs -> 0 .. Limit]
                /\ sq[i].kind = "sync" => l \in Layer /\ sq[i].layer = l
<1>1. IsSeq(sq) /\ Covered(sq)
  BY DEF StreamReady, Ready, Queue
<1>2. ASSUME Ready(sq, l), NEW i \in DOMAIN sq
      PROVE  /\ Fitting(sq[i]) \/ sq[i].kind \notin {"dequant", "cast", "gemm"}
             /\ sq[i].kind = "grow" => sq[i].cells \in Nat /\ sq[i].actCells \in Nat
             /\ sq[i].kind = "keys" => /\ l \in Layer /\ sq[i].layer = l
                                       /\ sq[i].keys \in [Seqs -> 0 .. Limit]
             /\ sq[i].kind # "sync"
  <2>1. Sound(sq[i], l)
    BY <1>2 DEF Ready
  <2> QED BY <2>1 DEF Sound, Quiet, Fitting
<1>3. ASSUME l \in Layer, NEW a \in Int, Queue(sq, l, a), NEW i \in DOMAIN sq
      PROVE  /\ Fitting(sq[i]) \/ sq[i].kind \notin {"dequant", "cast", "gemm"}
             /\ sq[i].kind = "grow" => sq[i].cells \in Nat /\ sq[i].actCells \in Nat
             /\ sq[i].kind = "keys" => /\ l \in Layer /\ sq[i].layer = l
                                       /\ sq[i].keys \in [Seqs -> 0 .. Limit]
             /\ sq[i].kind = "sync" => l \in Layer /\ sq[i].layer = l
  <2>1. i \in Int
    BY <1>1, <1>3 DEF IsSeq
  <2>2. /\ i \in {a, a + 3} => sq[i].kind = "sync" /\ sq[i].layer = l
        /\ i = a + 1 => sq[i].kind = "append"
        /\ i = a + 2 => /\ sq[i].kind = "keys" /\ sq[i].layer = l
                        /\ sq[i].keys \in [Seqs -> 0 .. Limit]
        /\ i = a + 4 => sq[i].kind = "attend"
        /\ i \notin a .. a + 4 => Quiet(sq[i])
    BY <1>3 DEF Queue, SyncPositions, KvCacheAppendMulti, AttnDecodeMulti, Stateful
  <2>3. i \in {a, a + 3} \/ i = a + 1 \/ i = a + 2 \/ i = a + 4 \/ i \notin a .. a + 4
    BY <1>3, <2>1
  <2> QED BY <1>3, <2>2, <2>3 DEF Quiet, Fitting
<1> QED BY <1>1, <1>2, <1>3 DEF StreamReady

LEMMA RunKeepsTypes ==
    ASSUME NEW l, NEW sq, sq # << >>, TypeInv, StreamReady(sq, l), Run(Head(sq)),
           UNCHANGED <<snapConv, snapKeys, passes>>
    PROVE  TypeInv' /\ \A m \in Layer : m # l => keys'[m] = keys[m]
<1> DEFINE L == Head(sq)
<1>1. L = sq[1] /\ 1 \in DOMAIN sq
  BY StreamLaunches, TailIsSeq
<1>2. /\ L.kind = "grow" => L.cells \in Nat /\ L.actCells \in Nat
      /\ L.kind = "keys" => l \in Layer /\ L.layer = l /\ L.keys \in [Seqs -> 0 .. Limit]
      /\ L.kind = "sync" => l \in Layer /\ L.layer = l
  BY <1>1, StreamLaunches
<1> HIDE DEF L
<1>3. Run(L)
  BY DEF L
<1>4. BufType' /\ CacheType' /\ StagedType'
  BY <1>2, <1>3, BufKept, CacheKept, StagedGrows DEF TypeInv
<1>0. Counts' = Counts
  BY DEF Counts, Limit
<1>5. keys' \in Counts /\ \A m \in Layer : m # l => keys'[m] = keys[m]
  <2>1. keys \in [Layer -> [Seqs -> 0 .. Limit]]
    BY DEF TypeInv, CountType, Counts
  <2>2. CASE L.kind = "keys"
    <3>1. keys' = [keys EXCEPT ![l] = L.keys] /\ L.keys \in [Seqs -> 0 .. Limit]
      BY <1>2, <1>3, <2>2, CountsMoved
    <3> QED BY <2>1, <3>1 DEF Counts
  <2>3. CASE L.kind # "keys"
    BY <1>3, <2>1, <2>3, CountsMoved DEF Counts
  <2> QED BY <2>2, <2>3
<1>6. positions' \in Counts
  BY <1>2, <1>3, CountsMoved DEF TypeInv, CountType, Counts
<1>7. CountType'
  BY <1>0, <1>5, <1>6 DEF TypeInv, CountType
<1> QED BY <1>4, <1>5, <1>7 DEF TypeInv

\* What a launch rests on in the state stays: the room the pass began with, and the
\* bound on the counts.
SameRoom == (Roomy' <=> Roomy) /\ Limit' = Limit

LEMMA QuietKept ==
    ASSUME NEW L, Quiet(L), SameRoom \/ L.kind \notin {"append", "attend"}
    PROVE  Quiet(L)'
<1>1. CASE SameRoom
  BY <1>1 DEF SameRoom, Quiet, Fitting, GivenRows
<1>2. CASE L.kind \notin {"append", "attend"}
  BY <1>2 DEF Quiet, Fitting
<1> QED BY <1>1, <1>2

LEMMA RunKeepsReady ==
    ASSUME NEW l, NEW sq, sq # << >>, Ready(sq, l), Covered(Tail(sq))', SameRoom
    PROVE  Ready(Tail(sq), l)'
<1>1. /\ IsSeq(Tail(sq))
      /\ \A i \in DOMAIN Tail(sq) : i + 1 \in DOMAIN sq /\ Tail(sq)[i] = sq[i + 1]
  BY TailIsSeq DEF Ready
<1>2. \A i \in DOMAIN Tail(sq) : Sound(Tail(sq)[i], l)
  BY <1>1 DEF Ready
<1>3. \A i \in DOMAIN Tail(sq) : Sound(Tail(sq)[i], l)'
  BY <1>2, QuietKept DEF Sound, SameRoom
<1> QED BY <1>1, <1>3 DEF Ready

\* The launches of a batched attention layer move up by one, and the counts with them.
LEMMA RunKeepsQueue ==
    ASSUME NEW l \in Layer, NEW sq, sq # << >>, TypeInv, NEW a \in Int, a >= -3,
           Queue(sq, l, a), PositionsFor(l, a), Run(sq[1]), Covered(Tail(sq))',
           SameRoom
    PROVE  StreamReady(Tail(sq), l)'
<1> DEFINE tl == Tail(sq)
           L == sq[1]
<1>1. /\ IsSeq(tl) /\ 1 \in DOMAIN sq
      /\ \A i \in DOMAIN tl : i \in Nat \ {0} /\ i + 1 \in DOMAIN sq /\ tl[i] = sq[i + 1]
  BY TailIsSeq DEF Queue
<1>2. /\ 1 \in {a, a + 3} => L = SyncPositions(l)
      /\ 1 = a + 1 => L = KvCacheAppendMulti(l)
      /\ 1 = a + 2 => /\ L.kind = "keys" /\ L.layer = l
                      /\ L.keys \in [Seqs -> 0 .. Limit] /\ AttendRoom(L.keys)
      /\ 1 = a + 4 => L = AttnDecodeMulti(l)
      /\ 1 \notin a .. a + 4 => Quiet(L)
  BY <1>1 DEF Queue
<1>3. /\ 1 \in {a, a + 3} => L.kind = "sync" /\ L.layer = l
      /\ 1 = a + 1 => L.kind = "append"
      /\ 1 = a + 4 => L.kind = "attend"
  BY <1>2 DEF SyncPositions, KvCacheAppendMulti, AttnDecodeMulti, Stateful
<1>4. 1 \notin a .. a + 4 => L.kind \notin {"sync", "keys"}
  BY <1>2 DEF Quiet
<1>5. /\ L.kind # "keys" => UNCHANGED keys
      /\ L.kind = "keys" => keys' = [keys EXCEPT ![L.layer] = L.keys]
      /\ L.kind # "sync" => UNCHANGED positions
      /\ L.kind = "sync" => positions' = [positions EXCEPT ![L.layer] = keys[L.layer]]
  BY CountsMoved
<1>6. DOMAIN keys = Layer /\ DOMAIN positions = Layer
  BY DEF TypeInv, CountType, Counts
<1> HIDE DEF tl, L
<1>7. CASE a = -3
  <2>1. ASSUME NEW i \in DOMAIN tl PROVE Quiet(tl[i])
    <3>1. i + 1 \in DOMAIN sq /\ tl[i] = sq[i + 1] /\ i + 1 \notin -3 .. -3 + 4
      BY <1>1
    <3> QED BY <1>7, <3>1 DEF Queue
  <2>3. \A i \in DOMAIN tl : Quiet(tl[i])'
    BY <2>1, QuietKept
  <2>2. Ready(tl, l)'
    BY <1>1, <2>3 DEF Ready, Sound, tl
  <2> QED BY <2>2 DEF StreamReady, tl
<1>8. CASE a >= -2
  <2>1. PositionsFor(l, a - 1)'
    <3>1. CASE a >= 2
      <4>1. 1 \notin a .. a + 4
        BY <3>1
      <4>2. UNCHANGED keys
        BY <1>4, <1>5, <4>1
      <4>3. AppendRoom(keys[l])
        BY <3>1 DEF PositionsFor
      <4> QED BY <3>1, <4>2, <4>3 DEF PositionsFor, AppendRoom, SameRoom
    <3>2. CASE a = 1
      <4>1. positions'[l] = keys[l]
        BY <1>3, <1>5, <1>6, <3>2
      <4>2. AppendRoom(keys[l])
        BY <3>2 DEF PositionsFor
      <4> QED BY <3>2, <4>1, <4>2 DEF PositionsFor, AppendRoom, SameRoom
    <3>3. CASE a = 0
      BY <3>3 DEF PositionsFor
    <3>4. CASE a = -1
      <4>1. keys'[l] = L.keys /\ AttendRoom(L.keys)
        BY <1>2, <1>5, <1>6, <3>4
      <4> QED BY <3>4, <4>1 DEF PositionsFor, AttendRoom, SameRoom
    <3>5. CASE a = -2
      <4>1. positions'[l] = keys[l]
        BY <1>3, <1>5, <1>6, <3>5
      <4>2. AttendRoom(keys[l])
        BY <3>5 DEF PositionsFor
      <4> QED BY <3>5, <4>1, <4>2 DEF PositionsFor, AttendRoom, SameRoom
    <3> QED BY <1>8, <3>1, <3>2, <3>3, <3>4, <3>5
  <2>2. ASSUME NEW i \in DOMAIN tl
        PROVE  /\ i \in {a - 1, (a - 1) + 3} => tl[i] = SyncPositions(l)
               /\ i = (a - 1) + 1 => tl[i] = KvCacheAppendMulti(l)
               /\ i = (a - 1) + 2 =>
                    /\ tl[i].kind = "keys" /\ tl[i].layer = l
                    /\ tl[i].keys \in [Seqs -> 0 .. Limit] /\ AttendRoom(tl[i].keys)
               /\ i = (a - 1) + 4 => tl[i] = AttnDecodeMulti(l)
               /\ i \notin (a - 1) .. (a - 1) + 4 => Quiet(tl[i])
    <3>1. i \in Nat \ {0} /\ i + 1 \in DOMAIN sq /\ tl[i] = sq[i + 1]
      BY <1>1
    <3>2. /\ i \in {a - 1, (a - 1) + 3} => i + 1 \in {a, a + 3}
          /\ i = (a - 1) + 1 => i + 1 = a + 1
          /\ i = (a - 1) + 2 => i + 1 = a + 2
          /\ i = (a - 1) + 4 => i + 1 = a + 4
          /\ i \notin (a - 1) .. (a - 1) + 4 => i + 1 \notin a .. a + 4
      BY <3>1
    <3> QED BY <3>1, <3>2 DEF Queue
  <2>5. ASSUME NEW i \in DOMAIN tl
        PROVE  /\ Quiet(tl[i]) => Quiet(tl[i])'
               /\ tl[i].keys \in [Seqs -> 0 .. Limit] /\ AttendRoom(tl[i].keys)
                    => (tl[i].keys \in [Seqs -> 0 .. Limit] /\ AttendRoom(tl[i].keys))'
    BY QuietKept DEF SameRoom, AttendRoom
  <2>3. Queue(tl, l, a - 1)'
    BY <1>1, <2>2, <2>5 DEF Queue, SyncPositions, KvCacheAppendMulti, AttnDecodeMulti, Stateful, tl
  <2>4. a - 1 \in Int /\ a - 1 >= -3
    BY <1>8
  <2> QED BY <2>1, <2>3, <2>4 DEF StreamReady, tl
<1> QED BY <1>7, <1>8

LEMMA RunKeeps ==
    ASSUME NEW l, NEW sq, sq # << >>, TypeInv, StreamReady(sq, l), Run(Head(sq)), SameRoom
    PROVE  StreamReady(Tail(sq), l)'
<1>1. Head(sq) = sq[1] /\ 1 \in DOMAIN sq
  BY StreamLaunches, TailIsSeq
<1>2. Covered(Tail(sq))'
  BY <1>1, StreamLaunches, TailCovered DEF TypeInv
<1>3. CASE Ready(sq, l)
  BY <1>2, <1>3, RunKeepsReady DEF StreamReady
<1>4. CASE l \in Layer /\ \E a \in Int : a >= -3 /\ Queue(sq, l, a) /\ PositionsFor(l, a)
  BY <1>1, <1>2, <1>4, RunKeepsQueue
<1> QED BY <1>3, <1>4 DEF StreamReady

-----------------------------------------------------------------------------
(* A chunk longer than the scratch: the first launch of a layer is refused,  *)
(* whatever the ones behind it are.                                          *)

LEMMA ConcatIsSeq ==
    ASSUME NEW s, NEW t, IsSeq(s), IsSeq(t)
    PROVE  IsSeq(s \o t)
BY ConcatSeq

LEMMA HeadOfConcat ==
    ASSUME NEW s, NEW t, IsSeq(s), IsSeq(t), s # << >>
    PROVE  IsSeq(s \o t) /\ s \o t # << >> /\ Head(s \o t) = Head(s)
<1>1. IsSeq(s \o t)
  BY ConcatSeq
<1>2. 1 \in DOMAIN s /\ Head(s) = s[1] /\ DOMAIN s = 1 .. Len(s)
  BY TailIsSeq, ConcatSeq
<1>3. DOMAIN (s \o t) = 1 .. Len(s) + Len(t) /\ (s \o t)[1] = s[1] /\ Len(s) \in Nat /\ Len(t) \in Nat
  BY <1>2, ConcatSeq
<1> DEFINE st == s \o t
<1> HIDE DEF st
<1>4. 1 \in DOMAIN st
  BY <1>2, <1>3 DEF st
<1>5. st # << >>
  BY <1>4
<1>6. Head(st) = st[1]
  BY <1>1, <1>5, TailIsSeq DEF st
<1> QED BY <1>1, <1>2, <1>3, <1>5, <1>6 DEF st

LEMMA FlattenIsSeq ==
    ASSUME NEW n \in {2, 3, 4}, NEW seqs, seqs = [i \in 1 .. n |-> seqs[i]],
           \A i \in 1 .. n : IsSeq(seqs[i])
    PROVE  IsSeq(FlattenSeq(seqs))
<1>1. ASSUME NEW a, NEW b, IsSeq(a), IsSeq(b)
      PROVE  IsSeq(FlattenSeq(<<a, b>>))
  <2>1. IsSeq(a \o b)
    BY <1>1, ConcatIsSeq
  <2> QED BY <2>1, FlattenTwo
<1>2. ASSUME NEW a, NEW b, NEW c, IsSeq(a), IsSeq(b), IsSeq(c)
      PROVE  IsSeq(FlattenSeq(<<a, b, c>>))
  <2>1. PICK ab, abc : ab = a \o b /\ abc = ab \o c
    OBVIOUS
  <2>2. IsSeq(ab)
    BY <1>2, <2>1, ConcatIsSeq
  <2>3. IsSeq(abc)
    BY <1>2, <2>1, <2>2, ConcatIsSeq
  <2>4. FlattenSeq(<<a, b, c>>) = abc
    BY <2>1, FlattenThree
  <2> QED BY <2>3, <2>4
<1>3. ASSUME NEW a, NEW b, NEW c, NEW d, IsSeq(a), IsSeq(b), IsSeq(c), IsSeq(d)
      PROVE  IsSeq(FlattenSeq(<<a, b, c, d>>))
  <2>1. PICK ab, abc, abcd : ab = a \o b /\ abc = ab \o c /\ abcd = abc \o d
    OBVIOUS
  <2>2. IsSeq(ab)
    BY <1>3, <2>1, ConcatIsSeq
  <2>3. IsSeq(abc)
    BY <1>3, <2>1, <2>2, ConcatIsSeq
  <2>4. IsSeq(abcd)
    BY <1>3, <2>1, <2>3, ConcatIsSeq
  <2>5. FlattenSeq(<<a, b, c, d>>) = abcd
    BY <2>1, FlattenFour
  <2> QED BY <2>4, <2>5
<1>4. CASE n = 2
  <2>1. seqs = <<seqs[1], seqs[2]>>
    BY <1>4
  <2>2. IsSeq(seqs[1]) /\ IsSeq(seqs[2])
    BY <1>4
  <2>3. IsSeq(FlattenSeq(<<seqs[1], seqs[2]>>))
    BY <1>1, <2>2
  <2> QED BY <2>1, <2>3, Zenon
<1>5. CASE n = 3
  <2>1. seqs = <<seqs[1], seqs[2], seqs[3]>>
    BY <1>5
  <2>2. IsSeq(seqs[1]) /\ IsSeq(seqs[2]) /\ IsSeq(seqs[3])
    BY <1>5
  <2>3. IsSeq(FlattenSeq(<<seqs[1], seqs[2], seqs[3]>>))
    BY <1>2, <2>2
  <2> QED BY <2>1, <2>3, Zenon
<1>6. CASE n = 4
  <2>1. seqs = <<seqs[1], seqs[2], seqs[3], seqs[4]>>
    BY <1>6
  <2>2. IsSeq(seqs[1]) /\ IsSeq(seqs[2]) /\ IsSeq(seqs[3]) /\ IsSeq(seqs[4])
    BY <1>6
  <2>3. IsSeq(FlattenSeq(<<seqs[1], seqs[2], seqs[3], seqs[4]>>))
    BY <1>3, <2>2
  <2> QED BY <2>1, <2>3, Zenon
<1> QED BY <1>4, <1>5, <1>6

LEMMA ProjectionsAreSeqs ==
    ASSUME NEW w, NEW x, NEW y, NEW t, NEW precast \in BOOLEAN
    PROVE  /\ IsSeq(ForwardPrefillTensorCore(w, x, y, t, precast))
           /\ IsSeq(ForwardPrefill(w, x, y, t))
<1>1. ASSUME NEW pre \in BOOLEAN PROVE IsSeq(ForwardPrefillTensorCore(w, x, y, t, pre))
  <2> DEFINE parts == PartsOf(env.split)
             cells == N(w) * K(w)
             A == <<GrowScratch(cells, Part, t * K(w)), DequantOf(w)>>
             B == IF pre THEN << >> ELSE <<Cast(x, t, K(w))>>
             C == [i \in DOMAIN parts |->
                     CublasGemm(w, parts[i], Range(parts), x, y, IF i = 1 THEN 0 ELSE 1,
                                cells, t, K(w))]
  <2>1. IsSeq(A)
    BY TupleSeq
  <2>2. IsSeq(B)
    <3>1. CASE pre
      BY <3>1, TupleSeq
    <3>2. CASE ~pre
      BY <3>2, TupleSeq
    <3> QED BY <3>1, <3>2
  <2>3. IsSeq(C)
    <3>1. PICK n \in Nat : DOMAIN parts = 1 .. n
      BY PartsArePart DEF IsSeq
    <3> HIDE DEF parts
    <3>2. C = [i \in 1 .. n |-> C[i]]
      BY <3>1
    <3> HIDE DEF C
    <3> QED BY <3>2, FunctionIsSeq
  <2>4. ForwardPrefillTensorCore(w, x, y, t, pre) = A \o B \o C
    BY DEF ForwardPrefillTensorCore
  <2> HIDE DEF A, B, C
  <2>5. IsSeq(A \o B)
    BY <2>1, <2>2, ConcatIsSeq
  <2>6. IsSeq(A \o B \o C)
    BY <2>3, <2>5, ConcatIsSeq
  <2> QED BY <2>4, <2>6
<1>2. IsSeq(Forward(w, x, y, t)) /\ IsSeq(<<GemmFp32(w, x, y, t)>>)
  BY TupleSeq DEF Forward
<1> QED BY <1>1, <1>2 DEF ForwardPrefill

LEMMA SharedIsSeq ==
    ASSUME NEW n \in {2, 3, 4}, NEW ws, DOMAIN ws = 1 .. n, NEW x, NEW ys, NEW t
    PROVE  IsSeq(ForwardPrefillSharedInput(ws, x, ys, t))
<1> DEFINE shared == [i \in DOMAIN ws |-> ForwardPrefillTensorCore(ws[i], x, ys[i], t, TRUE)]
           apart == [i \in DOMAIN ws |-> ForwardPrefill(ws[i], x, ys[i], t)]
<1>1. IsSeq(FlattenSeq(shared))
  <2>1. \A i \in 1 .. n : IsSeq(shared[i])
    BY ProjectionsAreSeqs
  <2>2. shared = [i \in 1 .. n |-> shared[i]]
    OBVIOUS
  <2> HIDE DEF shared
  <2> QED BY <2>1, <2>2, FlattenIsSeq
<1>2. IsSeq(FlattenSeq(apart))
  <2>1. \A i \in 1 .. n : IsSeq(apart[i])
    BY ProjectionsAreSeqs
  <2>2. apart = [i \in 1 .. n |-> apart[i]]
    OBVIOUS
  <2> HIDE DEF apart
  <2> QED BY <2>1, <2>2, FlattenIsSeq
<1>3. IsSeq(CastActivationBf16(ws[1], x, t))
  BY TupleSeq DEF CastActivationBf16
<1>4. IsSeq(CastActivationBf16(ws[1], x, t) \o FlattenSeq(shared))
  BY <1>1, <1>3, ConcatIsSeq
<1> QED BY <1>2, <1>4 DEF ForwardPrefillSharedInput

\* The stream of a layer begins with the norm of its input.
Opens(sq, l, t) ==
    IsSeq(sq) /\ sq # << >> /\ Head(sq) = RmsnormZeroCentered("a", W(l, "input_ln"), "hidden", t)

LEMMA OpensOn ==
    ASSUME NEW s, NEW u, NEW l, NEW t, Opens(s, l, t), IsSeq(u)
    PROVE  Opens(s \o u, l, t)
BY HeadOfConcat DEF Opens

LEMMA InNormOpens ==
    ASSUME NEW l, NEW t
    PROVE  Opens(InNorm(l, t), l, t)
<1> DEFINE L == RmsnormZeroCentered("a", W(l, "input_ln"), "hidden", t)
<1>1. IsSeq(<<L>>)
  BY TupleSeq
<1>2. <<L>> # << >> /\ Head(<<L>>) = L
  <2> HIDE DEF L
  <2> QED OBVIOUS
<1> QED BY <1>1, <1>2 DEF Opens, InNorm

LEMMA LongTupleIsSeq ==
    /\ \A a, b, c, d : IsSeq(<<a, b, c, d>>)
    /\ \A a, b, c, d, e, f : IsSeq(<<a, b, c, d, e, f>>)
<1>1. ASSUME NEW a, NEW b, NEW c, NEW d PROVE <<a, b, c, d>> \in Seq({a, b, c, d})
  OBVIOUS
<1>2. ASSUME NEW a, NEW b, NEW c, NEW d, NEW e, NEW f
      PROVE  <<a, b, c, d, e, f>> \in Seq({a, b, c, d, e, f})
  OBVIOUS
<1> QED BY <1>1, <1>2 DEF IsSeq

LEMMA PrefillPartsAreSeqs ==
    ASSUME NEW l, NEW t
    PROVE  /\ IsSeq(Residual(l, t, MlpForwardPrefill(l, t)))
           /\ IsSeq(GatedNorm(l, t)) /\ IsSeq(HeadNorms(l, t))
           /\ \A ps : IsSeq(RopeTables(ps))
           /\ \A project : IsSeq(project) => IsSeq(GateAndProject(l, t, project))
<1>1. IsSeq(MlpForwardPrefill(l, t))
  <2> DEFINE ws == Ws(l, <<"gate", "up">>)
             A == ForwardPrefillSharedInput(ws, "mlp_in", <<"inter", "inter2">>, t)
             C == <<SwigluInplace("inter", "inter2", t)>>
             D == ForwardPrefill(W(l, "down"), "inter", "down", t)
  <2>1. DOMAIN ws = 1 .. 2
    BY DEF Ws
  <2>2. IsSeq(A)
    <3> HIDE DEF ws
    <3> QED BY <2>1, SharedIsSeq
  <2>3. IsSeq(C) /\ IsSeq(D)
    BY TupleSeq, ProjectionsAreSeqs
  <2>4. MlpForwardPrefill(l, t) = A \o C \o D
    BY DEF MlpForwardPrefill
  <2> HIDE DEF A, C, D
  <2>5. IsSeq(A \o C)
    BY <2>2, <2>3, ConcatIsSeq
  <2>6. IsSeq(A \o C \o D)
    BY <2>3, <2>5, ConcatIsSeq
  <2> QED BY <2>4, <2>6
<1>2. ASSUME NEW mlp, IsSeq(mlp) PROVE IsSeq(Residual(l, t, mlp))
  <2> DEFINE A == <<Add("a", "proj", "res", t), RmsnormZeroCentered("res", W(l, "post_ln"), "mlp_in", t)>>
             C == <<Add("res", "down", "b", t)>>
  <2>1. IsSeq(A) /\ IsSeq(C)
    BY TupleSeq
  <2>2. Residual(l, t, mlp) = A \o mlp \o C
    BY DEF Residual
  <2> HIDE DEF A, C
  <2>3. IsSeq(A \o mlp)
    BY <1>2, <2>1, ConcatIsSeq
  <2>4. IsSeq(A \o mlp \o C)
    BY <2>1, <2>3, ConcatIsSeq
  <2> QED BY <2>2, <2>4
<1>3. IsSeq(GatedNorm(l, t)) /\ IsSeq(HeadNorms(l, t)) /\ \A ps : IsSeq(RopeTables(ps))
  BY TupleSeq DEF GatedNorm, HeadNorms, RopeTables
<1>4. ASSUME NEW project, IsSeq(project) PROVE IsSeq(GateAndProject(l, t, project))
  <2>1. IsSeq(<<SigmoidMul("attn", "gate", t)>>)
    BY TupleSeq
  <2> QED BY <1>4, <2>1, ConcatIsSeq DEF GateAndProject
<1> QED BY <1>1, <1>2, <1>3, <1>4

LEMMA PrefillOpens ==
    ASSUME NEW l, NEW s, NEW t
    PROVE  Opens(DeltaForwardPrefill(l, s, t), l, t) /\ Opens(AttnForwardPrefill(l, keys[l], s, t), l, t)
<1> DEFINE A == InNorm(l, t)
           G == Residual(l, t, MlpForwardPrefill(l, t))
<1>1. Opens(A, l, t) /\ IsSeq(G)
  BY InNormOpens, PrefillPartsAreSeqs
<1>2. Opens(DeltaForwardPrefill(l, s, t), l, t)
  <2> DEFINE ws == Ws(l, DeltaIns)
             B == ForwardPrefillSharedInput(ws, "hidden", DeltaOuts, t)
             C == <<Conv1dPrefillSilu(l, s, t), CopyLive("conv", "conv_ln", t),
                    L2normScaleBatched("q", t), L2normScaleBatched("k", t),
                    DeltaGateBatched(l, t), GatedDeltaRuleChunk(l, s, t)>>
             D == GatedNorm(l, t)
             E == ForwardPrefill(W(l, "out_proj"), "gnorm", "proj", t)
  <2>1. DOMAIN ws = 1 .. 4
    BY DEF Ws, DeltaIns
  <2>2. IsSeq(B)
    <3> HIDE DEF ws
    <3> QED BY <2>1, SharedIsSeq
  <2>3. IsSeq(C) /\ IsSeq(D) /\ IsSeq(E)
    BY LongTupleIsSeq, PrefillPartsAreSeqs, ProjectionsAreSeqs
  <2>4. DeltaForwardPrefill(l, s, t) = A \o B \o C \o D \o E \o G
    BY DEF DeltaForwardPrefill
  <2> HIDE DEF A, B, C, D, E, G
  <2>5. Opens(A \o B, l, t)
    BY <1>1, <2>2, OpensOn
  <2>6. Opens(A \o B \o C, l, t)
    BY <2>3, <2>5, OpensOn
  <2>7. Opens(A \o B \o C \o D, l, t)
    BY <2>3, <2>6, OpensOn
  <2>8. Opens(A \o B \o C \o D \o E, l, t)
    BY <2>3, <2>7, OpensOn
  <2>9. Opens(A \o B \o C \o D \o E \o G, l, t)
    BY <1>1, <2>8, OpensOn
  <2> QED BY <2>4, <2>9
<1>3. Opens(AttnForwardPrefill(l, keys[l], s, t), l, t)
  <2> DEFINE pos == keys[l][s]
             ws == Ws(l, AttnIns)
             B == ForwardPrefillSharedInput(ws, "hidden", AttnOuts, t)
             C == <<DeinterleaveHeadsBatched("q", "query", t),
                    DeinterleaveHeadsBatched("gate", "gate", t)>>
             D == HeadNorms(l, t)
             E == RopeTables([i \in 1 .. t |-> pos + i - 1])
             F == <<RopeNeoxBatched(t), KvCacheAppendBatched(l, s, pos, t),
                    SetKeys(l, [keys[l] EXCEPT ![s] = pos + t]), AttnPrefill(l, s, pos, t)>>
             H == GateAndProject(l, t, ForwardPrefill(W(l, "o_proj"), "attn", "proj", t))
  <2>1. DOMAIN ws = 1 .. 3
    BY DEF Ws, AttnIns
  <2>2. IsSeq(B)
    <3> HIDE DEF ws
    <3> QED BY <2>1, SharedIsSeq
  <2>3. IsSeq(C) /\ IsSeq(D) /\ IsSeq(E) /\ IsSeq(F)
    BY TupleSeq, LongTupleIsSeq, PrefillPartsAreSeqs
  <2>4. IsSeq(H)
    BY PrefillPartsAreSeqs, ProjectionsAreSeqs
  <2>5. AttnForwardPrefill(l, keys[l], s, t) = A \o B \o C \o D \o E \o F \o H \o G
    BY DEF AttnForwardPrefill
  <2> HIDE DEF A, B, C, D, E, F, G, H
  <2>6. Opens(A \o B, l, t)
    BY <1>1, <2>2, OpensOn
  <2>7. Opens(A \o B \o C, l, t)
    BY <2>3, <2>6, OpensOn
  <2>8. Opens(A \o B \o C \o D, l, t)
    BY <2>3, <2>7, OpensOn
  <2>9. Opens(A \o B \o C \o D \o E, l, t)
    BY <2>3, <2>8, OpensOn
  <2>10. Opens(A \o B \o C \o D \o E \o F, l, t)
    BY <2>3, <2>9, OpensOn
  <2>11. Opens(A \o B \o C \o D \o E \o F \o H, l, t)
    BY <2>4, <2>10, OpensOn
  <2>12. Opens(A \o B \o C \o D \o E \o F \o H \o G, l, t)
    BY <1>1, <2>11, OpensOn
  <2> QED BY <2>5, <2>12
<1> QED BY <1>2, <1>3

\* A chunk the scratch cannot hold is refused at the norm.
LEMMA TooLongIsRefused ==
    ASSUME NEW l, NEW t \in Nat, t > ScratchRows, NEW sq, Opens(sq, l, t)
    PROVE  sq # << >> /\ Refused(Head(sq))
<1> DEFINE L == RmsnormZeroCentered("a", W(l, "input_ln"), "hidden", t)
<1>1. /\ L.kind = "rows" /\ L.rows = t /\ L.checked = Sizes
      /\ L.stores = {Store("hidden", "rmsnorm", W(l, "input_ln"), <<"a">>)}
  BY DEF RmsnormZeroCentered, Rows
<1>2. Store("hidden", "rmsnorm", W(l, "input_ln"), <<"a">>).out = "hidden"
  BY DEF Store
<1> HIDE DEF L
<1>3. "hidden" \in Touched(L)
  BY <1>1, <1>2 DEF Touched
<1>4. LastRow(L) = t - 1
  BY <1>1 DEF LastRow
<1>5. Capacity("hidden") = ScratchRows
  BY DEF Capacity, ScratchBuffer
<1>6. ~(LastRow(L) < Capacity("hidden"))
  BY <1>4, <1>5, SizesAreNat
<1>7. Refused(L)
  BY <1>1, <1>3, <1>6 DEF Refused, Fits, Sizes, Buffer, ScratchBuffer
<1> QED BY <1>7 DEF Opens, L
-----------------------------------------------------------------------------
(* What a pass puts on the stream.                                           *)

\* How many tokens an operation takes, and from which sequence.
TokensFit(p) ==
    /\ p.kind = "step" => Len(p.tokens) = 1 /\ p.seq = 0
    /\ p.kind = "step_batch" => Len(p.tokens) \in 1 .. NSeq
    /\ p.kind \in {"prefill_seq", "verify"} => Len(p.tokens) \in 1 .. Ctx
    /\ p.kind = "verify" => Len(p.tokens) <= VerifyMax

\* Attention layer l has yet to count what the pass appends to it; a pass with room has
\* the rows.
RoomIn(p, l) ==
    /\ \A s \in Seqs : keys[l][s] + Ctx <= Limit
    /\ IF p.kind = "step_batch" THEN AppendRoom(keys[l])
       ELSE Roomy => p.seq * Ctx + keys[l][p.seq] + Len(p.tokens) <= NSeq * Ctx

\* The pass stands at the layer that refuses its chunk.
Blocked(p) == p.layer \in Layer /\ Len(p.tokens) > ScratchRows

LEMMA EmbedCalm ==
    ASSUME NEW p, p.tokens \in Seq(Token), Len(p.tokens) \in 1 .. Ctx
    PROVE  Calm(Embed(p)) /\ \A i \in DOMAIN Embed(p) : Embed(p)[i].kind = "upload"
<1>1. ASSUME NEW values, NEW checked, Len(values) \in 1 .. Ctx
      PROVE  LET sq == <<Upload("a", values, checked)>>
             IN Calm(sq) /\ \A i \in DOMAIN sq : sq[i].kind = "upload"
  <2> DEFINE L == Upload("a", values, checked)
  <2>1. L.kind = "upload"
    BY DEF Upload
  <2>2. Quiet(L) /\ Unstaged(L)
    BY <1>1, OtherHeld, QuietUpload
  <2> HIDE DEF L
  <2>3. Calm(<<L>>)
    BY <2>2, CalmOne
  <2>4. DOMAIN <<L>> = {1} /\ <<L>>[1] = L
    BY TupleSeq
  <2>6. \A i \in DOMAIN <<L>> : <<L>>[i].kind = "upload"
    BY <2>1, <2>4
  <2> QED BY <2>3, <2>6 DEF L
<1>2. CASE p.kind = "step"
  <2> DEFINE values == <<EmbedRow(p.tokens[1])>>
  <2>1. Len(values) \in 1 .. Ctx
    BY SizesAreNat
  <2>2. Embed(p) = <<Upload("a", values, Sizes)>>
    BY <1>2 DEF Embed, EmbedGather
  <2> HIDE DEF values
  <2> QED BY <1>1, <2>1, <2>2
<1>3. CASE p.kind # "step"
  <2> DEFINE toks == p.tokens
             values == [i \in DOMAIN toks |-> EmbedRow(toks[i])]
  <2>1. Len(values) = Len(toks)
    OBVIOUS
  <2>2. Embed(p) = <<Upload("a", values, Unchecked)>>
    BY <1>3 DEF Embed, EmbedGatherBatched
  <2> HIDE DEF values
  <2> QED BY <1>1, <2>1, <2>2
<1> QED BY <1>2, <1>3

LEMMA TokenCount ==
    ASSUME NEW p, p.kind \in Computes, TokensFit(p)
    PROVE  /\ Len(p.tokens) \in 1 .. Ctx
           /\ Len(p.tokens) > ScratchRows => p.kind \notin {"step", "step_batch"}
<1> DEFINE t == Len(p.tokens)
<1>1. /\ p.kind = "step" => t = 1
      /\ p.kind = "step_batch" => t \in 1 .. NSeq
      /\ p.kind \in {"prefill_seq", "verify"} => t \in 1 .. Ctx
  BY DEF TokensFit
<1>2. p.kind \in {"step", "step_batch", "prefill_seq", "verify"}
  BY DEF Computes
<1> HIDE DEF t
<1>3. /\ t = 1 => t \in 1 .. Ctx /\ ~(t > ScratchRows)
      /\ t \in 1 .. NSeq => t \in 1 .. Ctx /\ ~(t > ScratchRows)
  BY SizesAreNat
<1>4. t \in 1 .. Ctx /\ (t > ScratchRows => p.kind \notin {"step", "step_batch"})
  BY <1>1, <1>2, <1>3
<1> QED BY <1>4 DEF t

LEMMA ScoreCalm ==
    ASSUME NEW p, p.kind \in Computes, TokensFit(p)
    PROVE  Calm(Score(p))
<1> DEFINE t == Len(p.tokens)
           lmHead == W(0, "lm_head")
           norm == <<RmsnormZeroCentered("a", W(0, "norm"), "normed", t)>>
<1>1. t \in 1 .. Ctx
  BY TokenCount
<1> HIDE DEF t
<1>2. Held(t, "a") /\ Held(t, "normed") /\ Held(1, "normed")
  BY <1>1, OtherHeld, SizesAreNat
<1>3. Calm(norm)
  BY <1>2, QuietStoreOne, CalmOne DEF RmsnormZeroCentered
<1>4. Held(1, "logits") /\ Held(1, "idx") /\ Held(1, "last")
  BY OtherHeld, OneRow
<1>5. Calm(<<Argmax>>)
  BY <1>4, QuietStoreOne, CalmOne DEF Argmax
<1>6. CASE p.kind = "step"
  <2> DEFINE A == Forward(lmHead, "normed", "logits", 1)
             B == <<Argmax>>
  <2>1. Calm(A)
    BY <1>2, <1>4, ForwardCalm
  <2>2. Score(p) = norm \o (A \o B)
    BY <1>6 DEF Score, t
  <2> HIDE DEF A, B, norm
  <2>3. Calm(A \o B)
    BY <1>5, <2>1, ConcatCalm DEF B
  <2> QED BY <1>3, <2>2, <2>3, ConcatCalm
<1>7. ASSUME NEW y, NEW z, Held(t, y), Held(t, z)
      PROVE  Calm(Forward(lmHead, "normed", y, t) \o <<ArgmaxMulti(y, z, t)>>)
  <2> DEFINE A == Forward(lmHead, "normed", y, t)
             B == <<ArgmaxMulti(y, z, t)>>
  <2>1. Calm(A)
    BY <1>2, <1>7, ForwardCalm
  <2>2. Calm(B)
    BY <1>7, QuietStoreOne, CalmOne DEF ArgmaxMulti
  <2> HIDE DEF A, B
  <2> QED BY <2>1, <2>2, ConcatCalm DEF A, B
<1>8. CASE p.kind = "step_batch"
  <2> DEFINE A == Forward(lmHead, "normed", "logits", t) \o <<ArgmaxMulti("logits", "idx", t)>>
  <2>1. Held(t, "logits") /\ Held(t, "idx")
    BY <1>8, OtherHeld DEF TokensFit, t
  <2>2. Calm(A)
    BY <1>7, <2>1
  <2>3. Score(p) = norm \o A
    BY <1>8 DEF Score, t
  <2> HIDE DEF A, norm
  <2> QED BY <1>3, <2>2, <2>3, ConcatCalm
<1>9. CASE p.kind = "prefill_seq"
  <2> DEFINE A == <<CopyLastRow("normed", "last", t)>>
             B == Forward(lmHead, "last", "logits", 1)
             C == <<Argmax>>
  <2>1. Calm(A)
    BY <1>2, <1>4, QuietCopy, CalmOne DEF CopyLastRow
  <2>2. Calm(B)
    BY <1>4, ForwardCalm
  <2>3. Score(p) = norm \o (A \o B \o C)
    BY <1>9 DEF Score, t
  <2> HIDE DEF A, B, C, norm
  <2>4. Calm(A \o B)
    BY <2>1, <2>2, ConcatCalm
  <2>5. Calm(A \o B \o C)
    BY <1>5, <2>4, ConcatCalm DEF C
  <2> QED BY <1>3, <2>3, <2>5, ConcatCalm
<1>10. CASE p.kind = "verify"
  <2> DEFINE A == Forward(lmHead, "normed", "logits_all", t)
                    \o <<ArgmaxMulti("logits_all", "idx_all", t)>>
  <2>1. t \in 1 .. VerifyMax
    BY <1>1, <1>10, SizesAreNat DEF TokensFit, t
  <2>2. Held(t, "logits_all") /\ Held(t, "idx_all")
    BY <2>1, OtherHeld
  <2>3. Calm(A)
    BY <1>7, <2>2
  <2>4. Score(p) = norm \o A
    BY <1>10 DEF Score, t
  <2> HIDE DEF A, norm
  <2> QED BY <1>3, <2>3, <2>4, ConcatCalm
<1> QED BY <1>6, <1>8, <1>9, <1>10 DEF Computes

LEMMA LayerReady ==
    ASSUME NEW p, p.kind \in Computes, TokensFit(p), p.seq \in Seqs, NEW l \in Layer,
           keys \in Counts, passes \in Nat, env \in Environments, Len(p.tokens) <= ScratchRows,
           l \in AttnLayer => RoomIn(p, l)
    PROVE  StreamReady(LayerLaunches(p, l, keys[l]), l)
<1> DEFINE t == Len(p.tokens)
<1>1. t \in 1 .. ScratchRows
  BY TokenCount, SizesAreNat
<1>2. l \in DeltaLayer \/ (l \in AttnLayer /\ l \notin DeltaLayer)
  <2>1. LayerKind[l] \in {"delta", "attn"}
    BY KernelSizes DEF Layer
  <2> QED BY <2>1 DEF DeltaLayer, AttnLayer
<1>6. l \in AttnLayer =>
        \A s \in Seqs : keys[l][s] \in Nat /\ keys[l][s] + 1 <= Limit /\ keys[l][s] + t <= Limit
  <2> SUFFICES ASSUME l \in AttnLayer, NEW s \in Seqs
               PROVE  keys[l][s] \in Nat /\ keys[l][s] + 1 <= Limit /\ keys[l][s] + t <= Limit
    OBVIOUS
  <2>1. keys[l][s] \in Nat /\ keys[l][s] + Ctx <= Limit
    BY LimitIsNat DEF Counts, RoomIn
  <2> HIDE DEF t
  <2> QED BY <1>1, <2>1, SizesAreNat, LimitIsNat
<1>3. CASE p.kind = "step"
  <2>1. LayerLaunches(p, l, keys[l]) = IF l \in DeltaLayer THEN DeltaForward(l) ELSE AttnForward(l, keys[l])
    BY <1>3 DEF LayerLaunches
  <2>2. CASE l \in DeltaLayer
    BY <2>1, <2>2, DeltaForwardCalm, CalmReady DEF StreamReady
  <2>3. CASE l \in AttnLayer /\ l \notin DeltaLayer
    <3>1. t = 1 /\ p.seq = 0 /\ 0 * Ctx = 0
      BY <1>3, SizesAreNat DEF TokensFit
    <3>2. keys[l][0] \in Nat /\ keys[l][0] + 1 <= Limit
      BY <1>6, <2>3, SizesAreNat DEF Seqs
    <3>3. Roomy => 0 * Ctx + keys[l][0] + 1 <= NSeq * Ctx
      BY <1>3, <2>3, <3>1 DEF RoomIn
    <3>4. Roomy => keys[l][0] + 1 <= NSeq * Ctx
      BY <3>1, <3>2, <3>3
    <3> QED BY <2>1, <3>2, <2>3, <3>4, AttnForwardReady DEF StreamReady
  <2> QED BY <1>2, <2>2, <2>3
<1>4. CASE p.kind = "step_batch"
  <2>1. LayerLaunches(p, l, keys[l]) = IF l \in DeltaLayer THEN DeltaForwardBatch(l, t) ELSE AttnForwardBatch(l, keys[l], t)
    BY <1>4 DEF LayerLaunches
  <2>2. t \in 1 .. NSeq
    BY <1>4 DEF TokensFit
  <2> HIDE DEF t
  <2>3. CASE l \in DeltaLayer
    BY <2>1, <2>2, <2>3, DeltaForwardBatchCalm, CalmReady DEF StreamReady
  <2>4. CASE l \in AttnLayer /\ l \notin DeltaLayer
    <3>1. AppendRoom(keys[l])
      BY <1>4, <2>4 DEF RoomIn
    <3>2. PICK a \in Nat \ {0} : Queue(AttnForwardBatch(l, keys[l], t), l, a)
      BY <1>6, <2>2, <2>4, <3>1, AttnForwardBatchQueue
    <3>3. a \in Int /\ a >= -3 /\ PositionsFor(l, a)
      BY <3>1 DEF PositionsFor
    <3> QED BY <2>1, <2>4, <3>2, <3>3 DEF StreamReady
  <2> QED BY <1>2, <2>3, <2>4
<1>5. CASE p.kind \notin {"step", "step_batch"}
  <2>1. LayerLaunches(p, l, keys[l])
          = IF l \in DeltaLayer THEN DeltaForwardPrefill(l, p.seq, t) ELSE AttnForwardPrefill(l, keys[l], p.seq, t)
    BY <1>5 DEF LayerLaunches
  <2>2. CASE l \in DeltaLayer
    BY <1>1, <2>1, <2>2, DeltaForwardPrefillCalm, CalmReady DEF StreamReady
  <2>3. CASE l \in AttnLayer /\ l \notin DeltaLayer
    <3>1. Roomy => p.seq * Ctx + keys[l][p.seq] + t <= NSeq * Ctx
      BY <1>5, <2>3 DEF RoomIn
    <3> QED BY <1>1, <1>6, <2>1, <2>3, <3>1, AttnForwardPrefillReady DEF StreamReady
  <2> QED BY <1>2, <2>2, <2>3
<1> QED BY <1>3, <1>4, <1>5

\* A chunk too long for the scratch meets the first layer's norm.
LEMMA LayerOpens ==
    ASSUME NEW p, p.kind \in Computes, TokensFit(p), NEW l, Len(p.tokens) > ScratchRows
    PROVE  Opens(LayerLaunches(p, l, keys[l]), l, Len(p.tokens))
<1>1. p.kind \notin {"step", "step_batch"}
  BY TokenCount
<1> QED BY <1>1, PrefillOpens DEF LayerLaunches
-----------------------------------------------------------------------------
(* The invariant of a pass.                                                  *)

Copies == {"snapshot", "restore", "reset"}
PassType ==
    \/ pass = Idle
    \/ pass \in [kind : Computes \union Copies, seq : Seqs, tokens : Seq(Token),
                 layer : 0 .. Len(LayerKind) + 1]

\* A pass that computes has the counts it will move ahead of it, and the rows it will
\* append to if it began with room; where it stands, what is left of its stream stays
\* inside the buffers, or is refused at its first launch before anything was stored.
Underway ==
    /\ TokensFit(pass)
    /\ \A l \in AttnLayer : l > pass.layer => RoomIn(pass, l)
    /\ pass.layer = 0 => dirty = FALSE /\ \A i \in DOMAIN stream : ~Stores(stream[i])
    /\ IF Blocked(pass) THEN dirty = FALSE /\ Opens(stream, pass.layer, Len(pass.tokens))
       ELSE StreamReady(stream, pass.layer)

PassInv ==
    /\ TypeInv /\ passes \in Nat /\ env \in Environments /\ PassType
    /\ pass.kind \notin Computes => stream = << >>
    /\ pass.kind \in Computes => Underway

LEMMA PassTyped ==
    ASSUME PassType, pass.kind \in Computes
    PROVE  /\ pass \in [kind : Computes, seq : Seqs, tokens : Seq(Token), layer : 0 .. Len(LayerKind) + 1]
           /\ pass # Idle
<1>1. pass # Idle
  BY DEF Idle, Computes
<1> QED BY <1>1 DEF PassType

LEMMA LayersCounted == Len(LayerKind) \in Nat
BY KernelSizes

LEMMA StreamReadyKept ==
    ASSUME NEW l, NEW sq, StreamReady(sq, l), UNCHANGED <<keys, positions, staged>>, SameRoom
    PROVE  StreamReady(sq, l)'
<1>1. Covered(sq) => Covered(sq)'
  BY DEF Covered, StagedFor, WeightHeld, PartHeld
<1>4. \A i \in DOMAIN sq :
        /\ Quiet(sq[i]) => Quiet(sq[i])'
        /\ Sound(sq[i], l) => Sound(sq[i], l)'
        /\ AttendRoom(sq[i].keys) => AttendRoom(sq[i].keys)'
  BY QuietKept DEF Sound, SameRoom, AttendRoom
<1>2. Ready(sq, l) => Ready(sq, l)'
  BY <1>1, <1>4 DEF Ready
<1>3. ASSUME NEW a \in Int, Queue(sq, l, a), PositionsFor(l, a)
      PROVE  Queue(sq, l, a)' /\ PositionsFor(l, a)'
  <2>1. Queue(sq, l, a)'
    BY <1>1, <1>3, <1>4 DEF Queue, SyncPositions, KvCacheAppendMulti, AttnDecodeMulti, Stateful, SameRoom
  <2>2. PositionsFor(l, a)'
    BY <1>3 DEF PositionsFor, AppendRoom, AttendRoom, SameRoom
  <2> QED BY <2>1, <2>2
<1> QED BY <1>2, <1>3 DEF StreamReady

LEMMA PassInvInit ==
    ASSUME Init
    PROVE  PassInv
<1>1. BufType
  BY DEF Init, BufType
<1>2. CacheType
  BY DEF Init, CacheType
<1>3. CountType
  <2>1. 0 \in 0 .. Limit
    BY LimitIsNat DEF Init
  <2> QED BY <2>1 DEF Init, CountType, Counts
<1>4. StagedType
  BY DEF Init, StagedType
<1>5. pass = Idle /\ stream = << >> /\ pass.kind \notin Computes
  BY DEF Init, Idle, Computes
<1>6. env \in Environments /\ passes \in Nat
  BY DEF Init
<1> QED BY <1>1, <1>2, <1>3, <1>4, <1>5, <1>6 DEF PassInv, TypeInv, PassType

\* Every way out of a pass.
LEMMA LeaveKeeps ==
    ASSUME PassInv, Leave
    PROVE  PassInv'
<1>1. BufType'
  BY DEF Leave, BufType
<1>2. CacheType' /\ CountType'
  BY DEF PassInv, TypeInv, Leave, CacheType, CountType, Counts, Limit, snapshot
<1>3. StagedType'
  <2>1. /\ DOMAIN staged.w = {"cells", "val"} /\ staged.w.cells \in Nat
        /\ \A p \in Part : DOMAIN staged.act[p] = {"cells", "rows"} /\ staged.act[p].cells \in Nat
    BY DEF PassInv, TypeInv, StagedType
  <2>2. staged' = [w |-> [staged.w EXCEPT !.val = Stale],
                   act |-> [q \in Part |-> [staged.act[q] EXCEPT !.rows = [r \in BufRow |-> Stale]]]]
    BY DEF Leave
  <2>3. DOMAIN staged' = {"w", "act"} /\ staged'.w = [staged.w EXCEPT !.val = Stale]
        /\ DOMAIN staged'.act = Part
        /\ \A p \in Part : staged'.act[p] = [staged.act[p] EXCEPT !.rows = [r \in BufRow |-> Stale]]
    BY <2>2
  <2>4. DOMAIN staged'.w = {"cells", "val"} /\ staged'.w.cells \in Nat
    BY <2>1, <2>3
  <2>5. \A p \in Part : DOMAIN staged'.act[p] = {"cells", "rows"} /\ staged'.act[p].cells \in Nat
    BY <2>1, <2>3
  <2> QED BY <2>3, <2>4, <2>5 DEF StagedType
<1>4. pass' = Idle /\ stream' = << >> /\ pass'.kind \notin Computes
  BY DEF Leave, Idle, Computes
<1>5. env' \in Environments /\ passes' \in Nat
  BY DEF PassInv, Leave
<1> QED BY <1>1, <1>2, <1>3, <1>4, <1>5 DEF PassInv, TypeInv, PassType

\* A pass begins with Ctx more to count, or with none.
LEMMA TypeInvKept ==
    ASSUME TypeInv, UNCHANGED <<buf, convHist, cache, positions, keys, staged, snapConv, snapKeys>>,
           passes \in Nat, passes' \in {passes, passes + 1}
    PROVE  TypeInv' /\ (passes' = passes + 1 => Limit' = Limit + Ctx)
<1>1. Limit \in Nat /\ Limit' \in {Limit, Limit + Ctx} /\ (passes' = passes + 1 => Limit' = Limit + Ctx)
  <2>1. Limit \in Nat /\ Limit = passes * Ctx /\ Limit' = passes' * Ctx
    BY LimitIsNat DEF Limit
  <2>2. (passes + 1) * Ctx = passes * Ctx + Ctx
    BY SizesAreNat
  <2> QED BY <2>1, <2>2
<1>2. 0 .. Limit \subseteq 0 .. Limit'
  BY <1>1, SizesAreNat
<1>3. \A f \in Counts : f \in Counts'
  BY <1>2 DEF Counts
<1> QED BY <1>1, <1>3 DEF TypeInv, BufType, CacheType, CountType, StagedType

\* A pass that computes begins with its counts ahead of it, with room or without.
LEMMA ComputeKeeps ==
    ASSUME PassInv, NEW kind \in Computes, NEW s \in Seqs, NEW ts \in Seq(Token),
           TokensFit(Pass(kind, s, ts)), Compute(Pass(kind, s, ts))
    PROVE  PassInv'
<1> DEFINE p == Pass(kind, s, ts)
<1>1. p.kind = kind /\ p.seq = s /\ p.tokens = ts /\ p.layer = 0
      /\ p \in [kind : Computes, seq : Seqs, tokens : Seq(Token), layer : 0 .. Len(LayerKind) + 1]
  BY LayersCounted DEF Pass
<1>2. /\ pass' = [p EXCEPT !.layer = 0] /\ stream' = Embed(p) /\ dirty' = FALSE
      /\ UNCHANGED <<snapRecur, snapConv, snapKeys>> /\ UNCHANGED env
      /\ UNCHANGED <<buf, convHist, recur, cache, positions, keys, staged>>
  BY DEF Compute, Begin, snapshot, device
<1>3. TokensFit(p) /\ passes' = passes + 1 /\ before' = Seen
  BY DEF Compute, Begin
<1> HIDE DEF p
<1>4. pass' = p
  BY <1>1, <1>2
<1>5. TypeInv' /\ env' \in Environments /\ passes' \in Nat /\ Limit' = Limit + Ctx
  BY <1>2, <1>3, TypeInvKept DEF PassInv
<1>6. Len(ts) \in 1 .. Ctx /\ Len(ts) \in Nat
  BY <1>1, <1>3, TokenCount
<1>7. Calm(Embed(p)) /\ \A i \in DOMAIN Embed(p) : Embed(p)[i].kind = "upload"
  BY <1>1, <1>6, EmbedCalm
<1>14. before'.counts = keys /\ keys' = keys
  BY <1>2, <1>3 DEF Seen
<1>8. ASSUME NEW l \in AttnLayer, NEW x \in Seqs
      PROVE  /\ keys[l][x] \in Nat /\ keys[l][x] + Ctx <= Limit'
             /\ Roomy' /\ kind = "step_batch" => x * Ctx + keys[l][x] < NSeq * Ctx
             /\ Roomy' /\ kind # "step_batch" /\ x = s => x * Ctx + keys[l][x] + Len(ts) <= NSeq * Ctx
  <2>1. keys[l][x] \in Nat /\ keys[l][x] <= Limit /\ Limit \in Nat
    BY LimitIsNat DEF PassInv, TypeInv, CountType, Counts, AttnLayer
  <2>2. Roomy' /\ (kind = "step_batch" \/ x = s) =>
          x * Ctx + keys[l][x] + (IF kind = "step_batch" THEN 1 ELSE Len(ts)) <= NSeq * Ctx
    BY <1>1, <1>4, <1>14 DEF Roomy, HasRoom
  <2>3. x * Ctx \in Nat /\ NSeq * Ctx \in Nat
    BY SizesAreNat DEF Seqs
  <2> QED BY <1>5, <2>1, <2>2, <2>3, SizesAreNat
<1>9. ASSUME NEW l \in AttnLayer PROVE RoomIn(pass, l)'
  BY <1>1, <1>4, <1>8, <1>14 DEF RoomIn, AppendRoom
<1>10. StreamReady(stream, 0)'
  <2>1. PICK sq : sq = Embed(p)
    OBVIOUS
  <2>2. \A i \in DOMAIN sq : Quiet(sq[i])'
    BY <1>7, <2>1, QuietKept DEF Calm
  <2>3. Covered(sq)'
    BY <1>2, <1>7, <2>1 DEF Calm, Covered, StagedFor, WeightHeld, PartHeld
  <2>4. Ready(sq, 0)'
    BY <1>7, <2>1, <2>2, <2>3 DEF Ready, Sound, Calm
  <2> QED BY <1>2, <2>1, <2>4 DEF StreamReady
<1>11. \A i \in DOMAIN Embed(p) : ~Stores(Embed(p)[i])
  BY <1>7 DEF Stores
<1>12. ~Blocked(p)
  BY <1>1 DEF Blocked, Layer
<1>13. Underway'
  BY <1>1, <1>2, <1>3, <1>4, <1>9, <1>10, <1>11, <1>12 DEF Underway
<1> QED BY <1>1, <1>4, <1>5, <1>13 DEF PassInv, PassType

\* The copies of the recurrent state begin with nothing on the stream.
LEMMA CopyBegins ==
    ASSUME PassInv, NEW kind \in Copies, Begin(Pass(kind, 0, << >>), << >>), UNCHANGED device
    PROVE  PassInv'
<1> DEFINE p == Pass(kind, 0, << >>)
<1>1. /\ p.kind = kind /\ p.layer = 0
      /\ p \in [kind : Copies, seq : Seqs, tokens : Seq(Token), layer : 0 .. Len(LayerKind) + 1]
  <2>1. 0 \in Seqs /\ 0 \in 0 .. Len(LayerKind) + 1
    BY LayersCounted, SizesAreNat DEF Seqs
  <2>2. << >> \in Seq(Token)
    OBVIOUS
  <2> QED BY <2>1, <2>2 DEF Pass
<1>2. /\ pass' = [p EXCEPT !.layer = 0] /\ stream' = << >>
      /\ UNCHANGED <<snapRecur, snapConv, snapKeys>> /\ UNCHANGED env
      /\ UNCHANGED <<buf, convHist, recur, cache, positions, keys, staged>>
  BY DEF Begin, snapshot, device
<1> HIDE DEF p
<1>3. pass' = p
  BY <1>1, <1>2
<1>4. kind \notin Computes
  BY DEF Copies, Computes
<1>6. passes' = passes + 1
  BY DEF Begin
<1>5. TypeInv' /\ env' \in Environments /\ passes' \in Nat
  BY <1>2, <1>6, TypeInvKept DEF PassInv
<1> QED BY <1>1, <1>2, <1>3, <1>4, <1>5 DEF PassInv, PassType

\* What stands on the stream of a pass fits it, but for a blocked chunk and, in a pass
\* without room, the cache rows.
LEMMA HeadStands ==
    ASSUME PassInv, stream # << >>
    PROVE  /\ pass.kind \in Computes /\ Underway
           /\ Blocked(pass) => Refused(Head(stream)) /\ dirty = FALSE
           /\ ~Blocked(pass) => Safe(Head(stream))
<1>1. pass.kind \in Computes /\ Underway /\ TypeInv
  BY DEF PassInv
<1>2. ASSUME Blocked(pass) PROVE Refused(Head(stream)) /\ dirty = FALSE
  <2>1. dirty = FALSE /\ Opens(stream, pass.layer, Len(pass.tokens))
    BY <1>1, <1>2 DEF Underway
  <2>2. Len(pass.tokens) \in Nat
    BY <1>1, PassTyped DEF PassInv
  <2>3. Len(pass.tokens) > ScratchRows
    BY <1>2 DEF Blocked
  <2>4. PICK sq, t : sq = stream /\ t = Len(pass.tokens)
    OBVIOUS
  <2> QED BY <2>1, <2>2, <2>3, TooLongIsRefused
<1>3. ASSUME ~Blocked(pass) PROVE Safe(Head(stream))
  <2>1. StreamReady(stream, pass.layer)
    BY <1>1, <1>3 DEF Underway
  <2> QED BY <1>1, <2>1, HeadFits DEF PassInv
<1> QED BY <1>1, <1>2, <1>3

LEMMA LaunchKeeps ==
    ASSUME PassInv, Launch
    PROVE  PassInv'
<1> USE DEF Launch
<1>1. /\ pass.kind \in Computes /\ Underway /\ ~Blocked(pass) /\ TypeInv
      /\ pass' = pass /\ env' = env /\ snapConv' = snapConv /\ snapKeys' = snapKeys
      /\ before' = before /\ passes' = passes /\ passes \in Nat
  BY HeadStands DEF PassInv, snapshot
<1>13. SameRoom
  BY <1>1 DEF SameRoom, Roomy, HasRoom, Limit
<1>2. PICK sq, l : sq = stream /\ l = pass.layer
  OBVIOUS
<1>3. StreamReady(sq, l) /\ sq # << >> /\ Run(Head(sq))
  BY <1>1, <1>2 DEF Underway
<1>4. stream' = Tail(sq) /\ pass'.layer = l /\ dirty' = (dirty \/ Stores(Head(sq)))
  BY <1>1, <1>2
<1>5. TypeInv' /\ \A m \in Layer : m # l => keys'[m] = keys[m]
  BY <1>1, <1>3, RunKeepsTypes
<1>6. StreamReady(stream, pass.layer)'
  <2>1. StreamReady(Tail(sq), l)'
    BY <1>1, <1>3, <1>13, RunKeeps
  <2> QED BY <1>4, <2>1
<1>7. l \in Int
  BY <1>1, <1>2, PassTyped, LayersCounted DEF PassInv
<1>8. \A m \in AttnLayer : m > pass'.layer => RoomIn(pass, m)'
  <2> SUFFICES ASSUME NEW m \in AttnLayer, m > l
               PROVE  RoomIn(pass, m)'
    BY <1>4
  <2>1. RoomIn(pass, m)
    BY <1>1, <1>2 DEF Underway
  <2>2. m \in Layer /\ m # l
    BY <1>7 DEF AttnLayer, Layer
  <2>3. keys'[m] = keys[m]
    BY <1>5, <2>2
  <2> QED BY <1>1, <1>13, <2>1, <2>3 DEF RoomIn, AppendRoom, SameRoom
<1>9. ASSUME pass'.layer = 0
      PROVE  dirty' = FALSE /\ \A i \in DOMAIN stream' : ~Stores(stream'[i])
  <2>1. dirty = FALSE /\ \A i \in DOMAIN sq : ~Stores(sq[i])
    BY <1>1, <1>2, <1>9 DEF Underway
  <2>2. /\ 1 \in DOMAIN sq /\ Head(sq) = sq[1]
        /\ \A i \in DOMAIN Tail(sq) : i + 1 \in DOMAIN sq /\ Tail(sq)[i] = sq[i + 1]
    BY <1>3, StreamLaunches, TailIsSeq
  <2>3. ~Stores(Head(sq))
    BY <2>1, <2>2
  <2>4. dirty' = FALSE
    BY <1>4, <2>1, <2>3
  <2> HIDE DEF Launch
  <2>5. \A i \in DOMAIN Tail(sq) : ~Stores(Tail(sq)[i])
    BY <2>1, <2>2
  <2> QED BY <1>4, <2>4, <2>5
<1> HIDE DEF Launch
<1>10. TokensFit(pass)' /\ ~Blocked(pass)'
  BY <1>1 DEF Underway, TokensFit, Blocked
<1>11. Underway'
  BY <1>6, <1>8, <1>9, <1>10 DEF Underway
<1>12. PassType' /\ env' \in Environments /\ pass'.kind \in Computes
  BY <1>1 DEF PassInv, PassType
<1> QED BY <1>1, <1>5, <1>11, <1>12 DEF PassInv

LEMMA NextLayerKeeps ==
    ASSUME PassInv, NextLayer
    PROVE  PassInv'
<1>1. /\ stream = << >> /\ pass.kind \in Computes /\ pass.layer <= Len(LayerKind)
      /\ pass' = [pass EXCEPT !.layer = @ + 1]
      /\ stream' = IF pass.layer < Len(LayerKind) THEN LayerLaunches(pass, pass.layer + 1, keys[pass.layer + 1]) ELSE Score(pass)
      /\ buf' = IF pass.layer = 0 THEN buf ELSE Swapped
      /\ UNCHANGED <<convHist, recur, cache, positions, keys, staged>>
      /\ UNCHANGED <<snapRecur, snapConv, snapKeys>> /\ env' = env /\ dirty' = dirty
      /\ before' = before /\ passes' = passes
  BY DEF NextLayer, snapshot
<1>2. Underway /\ TypeInv /\ env \in Environments /\ passes \in Nat
  BY <1>1 DEF PassInv
<1>3. /\ pass \in [kind : Computes, seq : Seqs, tokens : Seq(Token), layer : 0 .. Len(LayerKind) + 1]
      /\ Len(LayerKind) \in Nat
  BY <1>1, PassTyped, LayersCounted DEF PassInv
<1>4. PICK p, l, t : p = pass /\ l = pass.layer + 1 /\ t = Len(pass.tokens)
  OBVIOUS
<1>5. /\ p.kind \in Computes /\ p.seq \in Seqs /\ TokensFit(p) /\ t = Len(p.tokens) /\ t \in Nat
      /\ l \in 1 .. Len(LayerKind) + 1
  BY <1>1, <1>2, <1>3, <1>4 DEF Underway
<1>6. /\ pass' \in [kind : Computes, seq : Seqs, tokens : Seq(Token), layer : 0 .. Len(LayerKind) + 1]
      /\ pass'.layer = l /\ pass'.kind = p.kind /\ pass'.seq = p.seq /\ pass'.tokens = p.tokens
  BY <1>1, <1>3, <1>4
<1>7. TypeInv'
  <2>1. BufType'
    BY <1>1, <1>2 DEF TypeInv, BufType, Swapped, Buffer, ModelBuffer
  <2>2. Counts' = Counts
    BY <1>1 DEF Counts, Limit
  <2> QED BY <1>1, <1>2, <2>1, <2>2 DEF TypeInv, CacheType, CountType, StagedType
<1>13. SameRoom
  BY <1>1, <1>4, <1>6 DEF SameRoom, Roomy, HasRoom, Limit
<1>8. TokensFit(pass)'
  BY <1>5, <1>6 DEF TokensFit
<1>9. \A m \in AttnLayer : m >= l => RoomIn(p, m)
  <2> SUFFICES ASSUME NEW m \in AttnLayer, m >= l PROVE RoomIn(p, m)
    OBVIOUS
  <2>1. m \in Int /\ pass.layer \in Int
    BY <1>3 DEF AttnLayer, Layer
  <2>2. m > pass.layer
    BY <1>4, <2>1
  <2> QED BY <1>2, <1>4, <2>2 DEF Underway
<1>10. \A m \in AttnLayer : m > pass'.layer => RoomIn(pass, m)'
  <2> SUFFICES ASSUME NEW m \in AttnLayer, m > l PROVE RoomIn(pass, m)'
    BY <1>6
  <2>1. m \in Int
    BY DEF AttnLayer, Layer
  <2>2. RoomIn(p, m)
    BY <1>5, <1>9, <2>1
  <2> QED BY <1>1, <1>6, <1>13, <2>2 DEF RoomIn, AppendRoom, SameRoom
<1>11. CASE l = Len(LayerKind) + 1
  <2>1. stream' = Score(p)
    BY <1>1, <1>3, <1>4, <1>11
  <2>2. StreamReady(Score(p), l)
    BY <1>5, ScoreCalm, CalmReady DEF StreamReady
  <2>3. PICK sq : sq = Score(p)
    OBVIOUS
  <2>4. StreamReady(sq, l)'
    BY <1>1, <1>13, <2>2, <2>3, StreamReadyKept
  <2>5. StreamReady(stream, pass.layer)'
    BY <1>6, <2>1, <2>3, <2>4
  <2>6. ~Blocked(pass)' /\ pass'.layer # 0
    BY <1>3, <1>5, <1>6, <1>11 DEF Blocked, Layer
  <2>7. Underway'
    BY <1>8, <1>10, <2>5, <2>6 DEF Underway
  <2> QED BY <1>1, <1>2, <1>6, <1>7, <2>7 DEF PassInv, PassType
<1>12. CASE l \in Layer
  <2>1. stream' = LayerLaunches(p, l, keys[l]) /\ pass'.layer # 0
    BY <1>1, <1>3, <1>4, <1>6, <1>12 DEF Layer
  <2>2. CASE t <= ScratchRows
    <3>1. StreamReady(LayerLaunches(p, l, keys[l]), l)
      <4>1. keys \in Counts
        BY <1>2 DEF TypeInv, CountType
      <4>2. l \in AttnLayer => RoomIn(p, l)
        BY <1>5, <1>9
      <4> QED BY <1>2, <1>5, <1>12, <2>2, <4>1, <4>2, LayerReady
    <3>2. PICK sq : sq = LayerLaunches(p, l, keys[l])
      OBVIOUS
    <3>3. StreamReady(sq, l)'
      BY <1>1, <1>13, <3>1, <3>2, StreamReadyKept
    <3>4. StreamReady(stream, pass.layer)'
      BY <1>6, <2>1, <3>2, <3>3
    <3>5. ~Blocked(pass)'
      BY <1>5, <1>6, <2>2, SizesAreNat DEF Blocked
    <3>6. Underway'
      BY <1>8, <1>10, <2>1, <3>4, <3>5 DEF Underway
    <3> QED BY <1>1, <1>2, <1>6, <1>7, <3>6 DEF PassInv, PassType
  <2>3. CASE t > ScratchRows
    <3>1. Opens(LayerLaunches(p, l, keys[l]), l, t)
      BY <1>5, <2>3, LayerOpens
    <3>2. Opens(stream, pass.layer, Len(pass.tokens))'
      BY <1>5, <1>6, <2>1, <3>1 DEF Opens
    <3>3. dirty' = FALSE
      <4>1. CASE pass.layer = 0
        BY <1>1, <1>2, <4>1 DEF Underway
      <4>2. CASE pass.layer # 0
        <5>1. Blocked(pass)
          BY <1>1, <1>3, <1>4, <2>3, <4>2 DEF Blocked, Layer
        <5>2. Opens(stream, pass.layer, Len(pass.tokens))
          BY <1>2, <5>1 DEF Underway
        <5> QED BY <1>1, <5>2 DEF Opens
      <4> QED BY <4>1, <4>2
    <3>4. Blocked(pass)'
      BY <1>5, <1>6, <1>12, <2>3 DEF Blocked
    <3>5. Underway'
      BY <1>8, <1>10, <2>1, <3>2, <3>3, <3>4 DEF Underway
    <3> QED BY <1>1, <1>2, <1>6, <1>7, <3>5 DEF PassInv, PassType
  <2> QED BY <1>5, <2>2, <2>3, SizesAreNat
<1> QED BY <1>3, <1>5, <1>11, <1>12 DEF Layer

LEMMA CopyLayerKeeps ==
    ASSUME PassInv, CopyLayer
    PROVE  PassInv'
<1>1. /\ pass.kind \in Copies /\ pass.layer < Len(LayerKind)
      /\ pass' = [pass EXCEPT !.layer = @ + 1] /\ env' = env /\ stream' = stream
      /\ passes' = passes
  BY DEF CopyLayer, Copies
<1>10. Counts' = Counts
  BY <1>1 DEF Counts, Limit
<1>2. /\ passes \in Nat /\ TypeInv /\ PassType /\ env \in Environments /\ pass.kind \notin Computes /\ stream = << >>
  BY <1>1 DEF PassInv, Copies, Computes
<1>3. /\ pass \in [kind : Computes \union Copies, seq : Seqs, tokens : Seq(Token),
                  layer : 0 .. Len(LayerKind) + 1]
      /\ Len(LayerKind) \in Nat
  BY <1>1, <1>2, LayersCounted DEF PassType, Idle, Copies
<1>4. PICK l : l = pass.layer + 1
  OBVIOUS
<1>5. l \in Layer
  BY <1>1, <1>3, <1>4 DEF Layer
<1>6. PassType' /\ pass'.kind \notin Computes
  <2>1. pass' \in [kind : Computes \union Copies, seq : Seqs, tokens : Seq(Token),
                   layer : 0 .. Len(LayerKind) + 1]
    BY <1>1, <1>3
  <2> QED BY <1>1, <1>2, <1>3, <2>1 DEF PassType
<1>7. ASSUME pass.kind = "snapshot" PROVE TypeInv'
  <2>1. /\ snapConv' = [snapConv EXCEPT ![l] = convHist[l]]
        /\ snapKeys' = [snapKeys EXCEPT ![l] = keys[l]]
        /\ UNCHANGED <<buf, convHist, recur, cache, positions, keys, staged>>
    BY <1>4, <1>7 DEF CopyLayer, device
  <2>2. BufType' /\ StagedType'
    BY <1>2, <2>1 DEF TypeInv, BufType, StagedType
  <2>3. CacheType'
    BY <1>2, <1>5, <2>1 DEF TypeInv, CacheType
  <2>4. CountType'
    <3>1. {keys', positions', snapKeys'} \subseteq Counts
      BY <1>2, <1>5, <2>1 DEF TypeInv, CountType, Counts
    <3> QED BY <1>10, <3>1 DEF CountType
  <2> QED BY <2>2, <2>3, <2>4 DEF TypeInv
<1>8. ASSUME pass.kind = "restore" PROVE TypeInv'
  <2>1. /\ convHist' = [convHist EXCEPT ![l] = snapConv[l]]
        /\ keys' = [keys EXCEPT ![l] = snapKeys[l]]
        /\ positions' = [positions EXCEPT ![l] = snapKeys[l]]
        /\ UNCHANGED <<buf, cache, staged, snapRecur, snapConv, snapKeys>>
    BY <1>4, <1>8 DEF CopyLayer, snapshot
  <2>2. BufType' /\ StagedType'
    BY <1>2, <2>1 DEF TypeInv, BufType, StagedType
  <2>3. CacheType'
    BY <1>2, <1>5, <2>1 DEF TypeInv, CacheType
  <2>4. CountType'
    <3>1. {keys', positions', snapKeys'} \subseteq Counts
      BY <1>2, <1>5, <2>1 DEF TypeInv, CountType, Counts
    <3> QED BY <1>10, <3>1 DEF CountType
  <2> QED BY <2>2, <2>3, <2>4 DEF TypeInv
<1>9. ASSUME pass.kind = "reset" PROVE TypeInv'
  <2>1. /\ convHist' = [convHist EXCEPT ![l] = [d \in DOMAIN @ |-> Zero]]
        /\ cache' = [cache EXCEPT ![l] = [d \in DOMAIN @ |-> Zero]]
        /\ keys' = [keys EXCEPT ![l] = [s \in Seqs |-> 0]]
        /\ UNCHANGED <<buf, positions, staged, snapRecur, snapConv, snapKeys>>
    BY <1>4, <1>9 DEF CopyLayer, snapshot
  <2>2. BufType' /\ StagedType'
    BY <1>2, <2>1 DEF TypeInv, BufType, StagedType
  <2>3. CacheType'
    BY <1>2, <1>5, <2>1 DEF TypeInv, CacheType
  <2>4. 0 \in 0 .. Limit
    BY <1>2, LimitIsNat
  <2>5. CountType'
    <3>1. {keys', positions', snapKeys'} \subseteq Counts
      BY <1>2, <1>5, <2>1, <2>4 DEF TypeInv, CountType, Counts
    <3> QED BY <1>10, <3>1 DEF CountType
  <2> QED BY <2>2, <2>3, <2>5 DEF TypeInv
<1> QED BY <1>1, <1>2, <1>6, <1>7, <1>8, <1>9 DEF PassInv, Copies

LEMMA PassInvNext ==
    ASSUME PassInv, [Next]_vars
    PROVE  PassInv'
<1>1. CASE PrefillSeq
  <2>1. PICK s \in Seqs, ts \in Chunks :
          Len(ts) \in 1 .. Ctx /\ Compute(Pass("prefill_seq", s, ts))
    BY <1>1 DEF PrefillSeq, Slots
  <2>2. TokensFit(Pass("prefill_seq", s, ts))
    BY <2>1 DEF TokensFit, Pass
  <2> QED BY <2>1, <2>2, InputAssumption, ComputeKeeps DEF Computes
<1>2. CASE Verify
  <2>1. PICK ts \in Chunks :
          Len(ts) \in 1 .. Ctx /\ Len(ts) <= VerifyMax /\ Compute(Pass("verify", 0, ts))
    BY <1>2 DEF Verify
  <2>2. TokensFit(Pass("verify", 0, ts)) /\ 0 \in Seqs
    BY <2>1, SizesAreNat DEF TokensFit, Pass, Seqs
  <2> QED BY <2>1, <2>2, InputAssumption, ComputeKeeps DEF Computes
<1>3. CASE Step
  <2>1. PICK ts \in Batches : Len(ts) = 1 /\ Compute(Pass("step", 0, ts))
    BY <1>3 DEF Step
  <2>2. TokensFit(Pass("step", 0, ts)) /\ 0 \in Seqs
    BY <2>1, SizesAreNat DEF TokensFit, Pass, Seqs
  <2> QED BY <2>1, <2>2, InputAssumption, ComputeKeeps DEF Computes
<1>4. CASE StepBatch
  <2>1. PICK ts \in Batches : Len(ts) \in 1 .. NSeq /\ Compute(Pass("step_batch", 0, ts))
    BY <1>4 DEF StepBatch
  <2>2. TokensFit(Pass("step_batch", 0, ts)) /\ 0 \in Seqs
    BY <2>1, SizesAreNat DEF TokensFit, Pass, Seqs
  <2> QED BY <2>1, <2>2, InputAssumption, ComputeKeeps DEF Computes
<1>5. CASE SnapshotRecurrent \/ RestoreRecurrent \/ Reset
  BY <1>5, CopyBegins DEF SnapshotRecurrent, RestoreRecurrent, Reset, Copies
<1>6. CASE Launch
  BY <1>6, LaunchKeeps
<1>7. CASE NextLayer
  BY <1>7, NextLayerKeeps
<1>8. CASE CopyLayer
  BY <1>8, CopyLayerKeeps
<1>9. CASE Return \/ Refuse \/ DeviceError
  BY <1>9, LeaveKeeps DEF Return, Refuse, DeviceError
<1>10. CASE UNCHANGED vars
  <2>1. /\ UNCHANGED <<buf, convHist, recur, cache, positions, keys, staged>>
        /\ UNCHANGED <<snapRecur, snapConv, snapKeys>>
        /\ UNCHANGED <<env, stream, pass, before, dirty, passes>>
    BY <1>10 DEF vars, device, snapshot
  <2>2. TypeInv' /\ PassType' /\ env' \in Environments /\ passes' \in Nat
    BY <2>1, TypeInvKept DEF PassInv, PassType
  <2>4. SameRoom
    BY <2>1 DEF SameRoom, Roomy, HasRoom, Limit
  <2>3. ASSUME pass.kind \in Computes PROVE Underway'
    <3>1. Underway
      BY <2>3 DEF PassInv
    <3>2. \A l \in AttnLayer : l > pass'.layer => RoomIn(pass, l)'
      BY <2>1, <2>4, <3>1 DEF Underway, RoomIn, AppendRoom, SameRoom
    <3>3. PICK sq, l : sq = stream /\ l = pass.layer
      OBVIOUS
    <3>4. StreamReady(sq, l) => StreamReady(sq, l)'
      BY <2>1, <2>4, StreamReadyKept
    <3>5. StreamReady(stream, pass.layer) => StreamReady(stream, pass.layer)'
      BY <2>1, <3>3, <3>4
    <3>6. TokensFit(pass)' /\ (Blocked(pass)' <=> Blocked(pass))
      BY <2>1, <3>1 DEF Underway, TokensFit, Blocked
    <3> QED BY <2>1, <3>1, <3>2, <3>5, <3>6 DEF Underway, Opens
  <2> QED BY <2>1, <2>2, <2>3 DEF PassInv
<1> QED BY <1>1, <1>2, <1>3, <1>4, <1>5, <1>6, <1>7, <1>8, <1>9, <1>10 DEF Next

LEMMA PassInvHolds == Spec => []PassInv
<1>1. Init => PassInv
  BY PassInvInit
<1>2. PassInv /\ [Next]_vars => PassInv'
  BY PassInvNext
<1> QED BY <1>1, <1>2, PTL DEF Spec

\* In every reachable state of every pass the buffers keep their shapes and no count
\* exceeds what the passes can have appended: RowsExact and StateRefines read the state
\* through them.
THEOREM PassTypeCorrect == Spec => []TypeOK
<1>1. PassInv => TypeOK
  <2> SUFFICES ASSUME PassInv PROVE TypeOK
    OBVIOUS
  <2>1. BufType /\ CacheType /\ CountType /\ env \in Environments /\ PassType
    BY DEF PassInv, TypeInv
  <2>2. pass = Idle \/ pass.layer \in 0 .. Len(LayerKind) + 1
    BY <2>1 DEF PassType
  <2> QED BY <2>1, <2>2 DEF TypeOK, BufType, CacheType, CountType, Counts, Limit
<1> QED BY <1>1, PassInvHolds, PTL

\* No launch addresses memory outside its buffers (the rows of the wrappers that check
\* nothing, the operands of the tensor-core path, the rows of the cache), with any
\* chunk, batch, layer order, projection shapes and environment, but for an append or
\* an attention of a pass that began without room in the cache.
THEOREM StaysInside == Spec => []NoWildAccess
<1>1. PassInv => NoWildAccess
  <2> SUFFICES ASSUME PassInv, stream # << >>, WildAccess(Head(stream)), ~PastCache(Head(stream))
               PROVE  FALSE
    BY DEF NoWildAccess
  <2>1. Safe(Head(stream))
    BY HeadStands DEF WildAccess
  <2> QED BY <2>1, SafeFits DEF WildAccess
<1> QED BY <1>1, PassInvHolds, PTL

\* A pass with room in the cache that a shape check refuses has stored nothing yet: only
\* a chunk longer than the scratch is refused, at the first launch of its first layer.
\* In a pass without room only an append or an attention is, besides.
THEOREM RefusedClean == Spec => []CleanRefusal
<1>1. PassInv => CleanRefusal
  <2> SUFFICES ASSUME PassInv, stream # << >>, Refused(Head(stream)), ~PastCache(Head(stream))
               PROVE  ~dirty
    BY DEF CleanRefusal
  <2>1. Blocked(pass)
    BY HeadStands, SafeFits DEF Refused
  <2> QED BY <2>1, HeadStands
<1> QED BY <1>1, PassInvHolds, PTL
=============================================================================
