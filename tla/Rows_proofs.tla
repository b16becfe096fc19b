----------------------------- MODULE Rows_proofs -----------------------------
(***************************************************************************)
(* Every row a pass returns is the reference of its own context.           *)
(*                                                                         *)
(* RowsExact compares the end of a pass with its beginning, so the         *)
(* invariant looks forward: wherever the launches still on the stream lead *)
(* (Leads, over the Effect of each launch on the device), the layer the    *)
(* pass stands at will be exact.  Running the head of the stream keeps     *)
(* that whatever the launch is, and all there is to show is that the       *)
(* launches of a layer, on each of the paths the code takes through it,    *)
(* lead from the rows of the layer before it and from what this layer      *)
(* keeps of each sequence to the rows of this one.  A path is taken apart  *)
(* into the parts the layers are built from: projections (GEMVs, products  *)
(* of split parts, products over one shared staging), the mixer over its   *)
(* lanes, the MLP and the residual.                                        *)
(*                                                                         *)
(* The rows of a layer are named after their contexts in ForwardPass       *)
(* (Named).  That a name stands for one context is proved first: the       *)
(* recurrence of layer 1 holds the whole of it.                            *)
(***************************************************************************)
EXTENDS ForwardPass_proofs, WellFoundedInduction

-----------------------------------------------------------------------------
(* Recursion over the naturals.                                              *)

\* The order on the numbers, as a relation.
LessThan == {p \in Nat \X Nat : p[1] < p[2]}

\* The least member of a set of numbers.
LEMMA LeastFound ==
    ASSUME NEW S, S \subseteq Nat, S # {}
    PROVE  \E x \in S : \A y \in S : x <= y
<1>1. IsWellFoundedOn(LessThan, Nat)
  <2>1. OpToRel(<, Nat) = LessThan
    BY DEF OpToRel, LessThan
  <2> QED BY <2>1, NatLessThanWellFounded
<1>2. \E x \in S : \A y \in S : ~ (<<y, x>> \in LessThan)
  BY <1>1, WFMin
<1>3. ASSUME NEW x \in S, NEW y \in S, <<y, x>> \notin LessThan
      PROVE  x <= y
  BY <1>3, SMT DEF LessThan
<1> QED BY <1>2, <1>3

\* A recurrence: each state from the one before and what was computed for its token.
Advance(l, x, a, b, c) == Term("state", l, <<x, a, b, c>>)
Chain(f, n, base, l, A, B, C) ==
    f = [i \in 0 .. n |-> IF i = 0 THEN base ELSE Advance(l, f[i - 1], A[i], B[i], C[i])]

\* Such a recurrence exists.
LEMMA ChainExists ==
    ASSUME NEW n \in Nat, NEW base, NEW l, NEW A, NEW B, NEW C
    PROVE  \E f : Chain(f, n, base, l, A, B, C)
<1> DEFINE Eqn(h, m) == Chain(h, m, base, l, A, B, C)
           Bad == {m \in Nat : ~ \E h : Eqn(h, m)}
<1> SUFFICES ASSUME Bad # {} PROVE FALSE
  OBVIOUS
<1>1. PICK m \in Bad : \A y \in Bad : m <= y
  <2>1. Bad \subseteq Nat
    OBVIOUS
  <2> HIDE DEF Bad
  <2> QED BY <2>1, LeastFound
<1>2. CASE m = 0
  <2> DEFINE g == [i \in 0 .. 0 |-> base]
  <2>1. \A i \in 0 .. 0 : i = 0
    OBVIOUS
  <2>2. g = [i \in 0 .. 0 |-> IF i = 0 THEN base ELSE Advance(l, g[i - 1], A[i], B[i], C[i])]
    BY <2>1
  <2>3. Eqn(g, 0)
    <3> HIDE DEF g
    <3> QED BY <2>2 DEF Chain
  <2> QED BY <1>1, <1>2, <2>3
<1>3. CASE m # 0
  <2>1. m \in Nat /\ m - 1 \in Nat /\ m - 1 \notin Bad
    <3>1. Bad \subseteq Nat
      OBVIOUS
    <3> HIDE DEF Bad
    <3> QED BY <1>1, <1>3, <3>1
  <2>2. PICK h : Eqn(h, m - 1)
    BY <2>1
  <2> DEFINE g == [i \in 0 .. m |-> IF i = m THEN Advance(l, h[m - 1], A[m], B[m], C[m]) ELSE h[i]]
  <2>3. \A i \in 0 .. m - 1 : h[i] = IF i = 0 THEN base ELSE Advance(l, h[i - 1], A[i], B[i], C[i])
    BY <2>2 DEF Chain
  <2>4. ASSUME NEW i \in 0 .. m
        PROVE  g[i] = IF i = 0 THEN base ELSE Advance(l, g[i - 1], A[i], B[i], C[i])
    <3>1. CASE i = m
      BY <1>3, <2>1, <3>1
    <3>2. CASE i # m
      <4>1. i \in 0 .. m - 1 /\ (i # 0 => i - 1 \in 0 .. m /\ i - 1 # m)
        BY <2>1, <3>2
      <4>2. g[i] = h[i] /\ (i # 0 => g[i - 1] = h[i - 1])
        BY <4>1, <3>2
      <4> HIDE DEF g
      <4> QED BY <2>3, <4>1, <4>2
    <3> QED BY <3>1, <3>2
  <2>5. g = [i \in 0 .. m |-> IF i = 0 THEN base ELSE Advance(l, g[i - 1], A[i], B[i], C[i])]
    <3> DEFINE rhs == [i \in 0 .. m |-> IF i = 0 THEN base ELSE Advance(l, g[i - 1], A[i], B[i], C[i])]
    <3>1. g = rhs
      BY <2>4
    <3> QED BY <3>1
  <2>6. Eqn(g, m)
    <3> HIDE DEF g
    <3> QED BY <2>5 DEF Chain
  <2> QED BY <1>1, <2>6
<1> QED BY <1>2, <1>3

\* Its first state, and each from the one before.
LEMMA ChainFacts ==
    ASSUME NEW n \in Nat, NEW base, NEW l, NEW A, NEW B, NEW C, NEW f,
           Chain(f, n, base, l, A, B, C)
    PROVE  f[0] = base /\ \A i \in 1 .. n : f[i] = Advance(l, f[i - 1], A[i], B[i], C[i])
<1>1. \A i \in 0 .. n : f[i] = IF i = 0 THEN base ELSE Advance(l, f[i - 1], A[i], B[i], C[i])
  BY DEF Chain
<1>2. 0 \in 0 .. n /\ \A i \in 1 .. n : i \in 0 .. n /\ i # 0
  OBVIOUS
<1> QED BY <1>1, <1>2

\* Two recurrences that are fed the same at each step.
FedAlike(f, g, n, l) ==
    \A i \in 1 .. n : \E a, b, c : /\ f[i] = Advance(l, f[i - 1], a, b, c)
                                   /\ g[i] = Advance(l, g[i - 1], a, b, c)

\* Two recurrences that are fed the same are the same.
LEMMA ChainsAgree ==
    ASSUME NEW n \in Nat, NEW f, NEW g, NEW l, f[0] = g[0], FedAlike(f, g, n, l)
    PROVE  \A i \in 0 .. n : f[i] = g[i]
<1> DEFINE Bad == {i \in 0 .. n : f[i] # g[i]}
<1> SUFFICES ASSUME Bad # {} PROVE FALSE
  OBVIOUS
<1>1. PICK m \in Bad : \A y \in Bad : m <= y
  <2>1. Bad \subseteq Nat
    OBVIOUS
  <2> HIDE DEF Bad
  <2> QED BY <2>1, LeastFound
<1>2. m \in 1 .. n /\ m - 1 \in 0 .. n /\ m - 1 \notin Bad
  <2>1. Bad \subseteq 0 .. n /\ 0 \notin Bad
    OBVIOUS
  <2> HIDE DEF Bad
  <2> QED BY <1>1, <2>1
<1>3. f[m - 1] = g[m - 1]
  BY <1>2
<1>4. f[m] = g[m]
  BY <1>2, <1>3 DEF FedAlike
<1> QED BY <1>1, <1>4

-----------------------------------------------------------------------------
(* Contexts, and the reference of a context by those of its prefixes.        *)

\* Contexts are the sequences of tokens a window holds.
LEMMA ContextIsSeq == \A h : h \in Context <=> (h \in Seq(Token) /\ Len(h) <= Ctx)
<1>1. ASSUME NEW h \in Context PROVE h \in Seq(Token) /\ Len(h) <= Ctx
  BY SizesAreNat DEF Context
<1>2. ASSUME NEW h \in Seq(Token), Len(h) <= Ctx PROVE h \in Context
  <2>1. Len(h) \in 0 .. Ctx
    BY <1>2, SizesAreNat
  <2>2. h \in [1 .. Len(h) -> Token]
    BY <1>2
  <2> QED BY <2>1, <2>2 DEF Context
<1> QED BY <1>1, <1>2

\* Prefixes of a context.
LEMMA PrefixFacts ==
    ASSUME NEW h \in Context, NEW n \in 0 .. Len(h)
    PROVE  /\ h \in Seq(Token) /\ Len(h) \in 0 .. Ctx /\ n \in Nat
           /\ Prefix(h, n) \in Context /\ Len(Prefix(h, n)) = n
           /\ \A k \in 0 .. n : Prefix(Prefix(h, n), k) = Prefix(h, k)
           /\ Prefix(h, Len(h)) = h
           /\ n > 0 => Prefix(h, n) \in Past
<1>1. h \in Seq(Token) /\ Len(h) <= Ctx /\ Len(h) \in Nat /\ Ctx \in Nat
  BY ContextIsSeq, SizesAreNat
<1>2. Prefix(h, n) \in Seq(Token) /\ Len(Prefix(h, n)) = n
  BY <1>1 DEF Prefix
<1>3. Prefix(h, n) \in Context
  BY <1>1, <1>2, ContextIsSeq
<1>4. \A k \in 0 .. n : Prefix(Prefix(h, n), k) = Prefix(h, k)
  BY <1>1 DEF Prefix
<1>5. Prefix(h, Len(h)) = h
  BY <1>1 DEF Prefix
<1>6. n > 0 => Prefix(h, n) # << >>
  BY <1>2
<1> QED BY <1>1, <1>2, <1>3, <1>4, <1>5, <1>6 DEF Past

\* The gates of a context's last token.
DecayOf(l, h) == Term("decay", l, <<Lin(l, "in_proj_a", RefIn(l, h))>>)
BetaOf(l, h) == Term("beta", l, <<Lin(l, "in_proj_b", RefIn(l, h))>>)

\* The state of a prefix is that of the prefix before it, fed one token.
LEMMA RefStateChain ==
    ASSUME NEW l, NEW h \in Context
    PROVE  /\ RefState(l, Prefix(h, 0)) = Zero
           /\ \A n \in 1 .. Len(h) :
                RefState(l, Prefix(h, n))
                  = Advance(l, RefState(l, Prefix(h, n - 1)), RefConv(l, Prefix(h, n)),
                            DecayOf(l, Prefix(h, n)), BetaOf(l, Prefix(h, n)))
<1> DEFINE A(g) == [i \in 1 .. Len(g) |-> RefConv(l, Prefix(g, i))]
           B(g) == [i \in 1 .. Len(g) |-> DecayOf(l, Prefix(g, i))]
           C(g) == [i \in 1 .. Len(g) |-> BetaOf(l, Prefix(g, i))]
           Eqn(f, g) == f = [n \in 0 .. Len(g) |->
              IF n = 0 THEN Zero
              ELSE LET p == Prefix(g, n)
                   IN Term("state", l,
                        <<f[n - 1], RefConv(l, p), Term("decay", l, <<Lin(l, "in_proj_a", RefIn(l, p))>>),
                          Term("beta", l, <<Lin(l, "in_proj_b", RefIn(l, p))>>)>>)]
           F(g) == CHOOSE f : Eqn(f, g)
<1>1. ASSUME NEW g \in Context
      PROVE  /\ F(g)[0] = Zero
             /\ \A i \in 1 .. Len(g) :
                  F(g)[i] = Advance(l, F(g)[i - 1], RefConv(l, Prefix(g, i)),
                                    DecayOf(l, Prefix(g, i)), BetaOf(l, Prefix(g, i)))
             /\ RefState(l, g) = F(g)[Len(g)]
  <2>0. Len(g) \in Nat
    BY ContextIsSeq
  <2>1. ASSUME NEW f PROVE Eqn(f, g) <=> Chain(f, Len(g), Zero, l, A(g), B(g), C(g))
    <3> DEFINE r1 == [n \in 0 .. Len(g) |->
              IF n = 0 THEN Zero
              ELSE LET p == Prefix(g, n)
                   IN Term("state", l,
                        <<f[n - 1], RefConv(l, p), Term("decay", l, <<Lin(l, "in_proj_a", RefIn(l, p))>>),
                          Term("beta", l, <<Lin(l, "in_proj_b", RefIn(l, p))>>)>>)]
               r2 == [i \in 0 .. Len(g) |->
                        IF i = 0 THEN Zero ELSE Advance(l, f[i - 1], A(g)[i], B(g)[i], C(g)[i])]
    <3>1. ASSUME NEW n \in 0 .. Len(g), n # 0
          PROVE  r1[n] = r2[n]
      <4>1. n \in 1 .. Len(g)
        BY <2>0, <3>1
      <4>2. A(g)[n] = RefConv(l, Prefix(g, n)) /\ B(g)[n] = DecayOf(l, Prefix(g, n))
            /\ C(g)[n] = BetaOf(l, Prefix(g, n))
        BY <4>1
      <4> HIDE DEF A, B, C
      <4> QED BY <3>1, <4>2 DEF Advance, DecayOf, BetaOf
    <3>2. r1 = r2
      <4>1. \A n \in 0 .. Len(g) : n = 0 => r1[n] = r2[n]
        <5> HIDE DEF A, B, C
        <5> QED OBVIOUS
      <4>2. \A n \in 0 .. Len(g) : r1[n] = r2[n]
        <5> HIDE DEF r1, r2
        <5> QED BY <3>1, <4>1
      <4>3. DOMAIN r1 = 0 .. Len(g) /\ DOMAIN r2 = 0 .. Len(g)
        OBVIOUS
      <4>4. r1 = [n \in 0 .. Len(g) |-> r1[n]] /\ r2 = [n \in 0 .. Len(g) |-> r2[n]]
        OBVIOUS
      <4> HIDE DEF r1, r2
      <4> QED BY <4>2, <4>3, <4>4
    <3>3. Eqn(f, g) <=> f = r1
      OBVIOUS
    <3>4. Chain(f, Len(g), Zero, l, A(g), B(g), C(g)) <=> f = r2
      BY DEF Chain
    <3> HIDE DEF r1, r2, Eqn
    <3> QED BY <3>2, <3>3, <3>4
  <2>2. \E f : Chain(f, Len(g), Zero, l, A(g), B(g), C(g))
    <3> HIDE DEF A, B, C
    <3> QED BY <2>0, ChainExists
  <2>3. Eqn(F(g), g)
    <3> HIDE DEF A, B, C, Eqn
    <3> QED BY <2>1, <2>2
  <2>4. Chain(F(g), Len(g), Zero, l, A(g), B(g), C(g))
    <3> HIDE DEF A, B, C, Eqn, F
    <3> QED BY <2>1, <2>3
  <2>5. /\ F(g)[0] = Zero
        /\ \A i \in 1 .. Len(g) : F(g)[i] = Advance(l, F(g)[i - 1], A(g)[i], B(g)[i], C(g)[i])
    <3> HIDE DEF A, B, C, Eqn, F
    <3> QED BY <2>0, <2>4, ChainFacts
  <2>6. \A i \in 1 .. Len(g) : /\ A(g)[i] = RefConv(l, Prefix(g, i))
                               /\ B(g)[i] = DecayOf(l, Prefix(g, i))
                               /\ C(g)[i] = BetaOf(l, Prefix(g, i))
    OBVIOUS
  <2>7. RefState(l, g) = F(g)[Len(g)]
    BY DEF RefState
  <2> HIDE DEF A, B, C, Eqn, F
  <2> QED BY <2>5, <2>6, <2>7
<1> HIDE DEF F
<1>2. ASSUME NEW n \in 0 .. Len(h)
      PROVE  RefState(l, Prefix(h, n)) = F(h)[n]
  <2> DEFINE p == Prefix(h, n)
  <2>1. p \in Context /\ Len(p) = n /\ n \in Nat /\ Len(h) \in Nat
    BY PrefixFacts
  <2>2. \A i \in 1 .. n : Prefix(p, i) = Prefix(h, i)
    BY PrefixFacts
  <2>3. RefState(l, p) = F(p)[n] /\ F(p)[0] = F(h)[0]
    <3> HIDE DEF p
    <3> QED BY <1>1, <2>1
  <2>4. ASSUME NEW i \in 1 .. n
        PROVE  \E a, b, c : /\ F(p)[i] = Advance(l, F(p)[i - 1], a, b, c)
                            /\ F(h)[i] = Advance(l, F(h)[i - 1], a, b, c)
    <3> HIDE DEF p
    <3>1. i \in 1 .. Len(p) /\ i \in 1 .. Len(h)
      BY <2>1
    <3>2. /\ F(p)[i] = Advance(l, F(p)[i - 1], RefConv(l, Prefix(p, i)),
                                    DecayOf(l, Prefix(p, i)), BetaOf(l, Prefix(p, i)))
          /\ F(h)[i] = Advance(l, F(h)[i - 1], RefConv(l, Prefix(h, i)),
                                    DecayOf(l, Prefix(h, i)), BetaOf(l, Prefix(h, i)))
      BY <1>1, <2>1, <3>1
    <3> QED BY <2>2, <3>2
  <2>5. F(p)[n] = F(h)[n]
    <3> HIDE DEF p
    <3>1. PICK u, v : u = F(p) /\ v = F(h)
      OBVIOUS
    <3>2. u[0] = v[0] /\ FedAlike(u, v, n, l)
      BY <2>3, <2>4, <3>1 DEF FedAlike
    <3>3. \A i \in 0 .. n : u[i] = v[i]
      BY <2>1, <3>2, ChainsAgree
    <3> QED BY <2>1, <3>1, <3>3
  <2> QED BY <2>3, <2>5
<1>3. RefState(l, Prefix(h, 0)) = Zero
  <2>1. 0 \in 0 .. Len(h)
    BY ContextIsSeq
  <2> QED BY <1>1, <1>2, <2>1
<1>4. ASSUME NEW n \in 1 .. Len(h)
      PROVE  RefState(l, Prefix(h, n))
               = Advance(l, RefState(l, Prefix(h, n - 1)), RefConv(l, Prefix(h, n)),
                         DecayOf(l, Prefix(h, n)), BetaOf(l, Prefix(h, n)))
  <2>1. n \in 0 .. Len(h) /\ n - 1 \in 0 .. Len(h)
    BY ContextIsSeq
  <2> QED BY <1>1, <1>2, <2>1
<1> QED BY <1>3, <1>4

-----------------------------------------------------------------------------
(* A reference tells the context it is the reference of.                     *)

\* A term tells its operation, its weight and its operands.
LEMMA TermTells ==
    ASSUME NEW o, NEW w, NEW a, NEW p, NEW v, NEW b, Term(o, w, a) = Term(p, v, b)
    PROVE  o = p /\ w = v /\ a = b
  BY DEF Term

\* So does one of one operand, of two, and a state.
LEMMA OneTells ==
    ASSUME NEW o, NEW w, NEW x, NEW p, NEW v, NEW y, Term(o, w, <<x>>) = Term(p, v, <<y>>)
    PROVE  x = y
<1>1. <<x>> = <<y>>
  BY TermTells
<1> QED BY <1>1

LEMMA PairTells ==
    ASSUME NEW o, NEW w, NEW x, NEW x2, NEW p, NEW v, NEW y, NEW y2,
           Term(o, w, <<x, x2>>) = Term(p, v, <<y, y2>>)
    PROVE  x = y /\ x2 = y2
<1>1. <<x, x2>> = <<y, y2>>
  BY TermTells
<1> QED BY <1>1

LEMMA AdvanceTells ==
    ASSUME NEW l, NEW x, NEW a, NEW b, NEW c, NEW x2, NEW a2, NEW b2, NEW c2,
           Advance(l, x, a, b, c) = Advance(l, x2, a2, b2, c2)
    PROVE  x = x2 /\ a = a2 /\ b = b2 /\ c = c2
<1>1. Term("state", l, <<x, a, b, c>>) = Term("state", l, <<x2, a2, b2, c2>>)
  BY DEF Advance
<1>2. PICK u, v : u = <<x, a, b, c>> /\ v = <<x2, a2, b2, c2>>
  OBVIOUS
<1>3. u = v
  BY <1>1, <1>2, TermTells
<1>4. <<x, a, b, c>> = <<x2, a2, b2, c2>>
  BY <1>2, <1>3
<1> QED BY <1>4

\* No state that has been fed is the initial one.
LEMMA AdvanceIsNotZero ==
    ASSUME NEW l, NEW x, NEW a, NEW b, NEW c
    PROVE  Advance(l, x, a, b, c) # Zero
<1> SUFFICES ASSUME Advance(l, x, a, b, c) = Zero PROVE FALSE
  OBVIOUS
<1>1. "state" = "zero"
  BY TermTells DEF Advance, Zero
<1> QED BY <1>1

\* A decay tells the input of its layer.
LEMMA DecayTells ==
    ASSUME NEW l, NEW g, NEW h, DecayOf(l, g) = DecayOf(l, h)
    PROVE  X(l, g) = X(l, h)
<1>1. Lin(l, "in_proj_a", RefIn(l, g)) = Lin(l, "in_proj_a", RefIn(l, h))
  BY OneTells DEF DecayOf
<1>2. RefIn(l, g) = RefIn(l, h)
  BY <1>1, OneTells DEF Lin
<1> QED BY <1>2, OneTells DEF RefIn, Rms

\* A context that is not empty, and the one before its last token.
LEMMA PastFacts ==
    ASSUME NEW h \in Past
    PROVE  h \in Context /\ Len(h) \in 1 .. Ctx /\ Len(h) - 1 \in 0 .. Len(h)
           /\ Prefix(h, Len(h)) = h /\ Prefix(h, Len(h) - 1) \in Context
           /\ Len(Prefix(h, Len(h) - 1)) = Len(h) - 1
<1>1. h \in Context /\ h # << >>
  BY DEF Past
<1>2. h \in Seq(Token) /\ Len(h) \in 0 .. Ctx
  BY <1>1, ContextIsSeq
<1>3. Len(h) \in 1 .. Ctx /\ Len(h) - 1 \in 0 .. Len(h) /\ Len(h) \in 0 .. Len(h)
  BY <1>1, <1>2
<1> QED BY <1>1, <1>3, PrefixFacts

\* Contexts are equal when their last tokens and what comes before are.
LEMMA SameParts ==
    ASSUME NEW g \in Past, NEW h \in Past, g[Len(g)] = h[Len(h)],
           Prefix(g, Len(g) - 1) = Prefix(h, Len(h) - 1)
    PROVE  g = h
<1>1. g \in Seq(Token) /\ h \in Seq(Token) /\ Len(g) \in Nat \ {0} /\ Len(h) \in Nat \ {0}
  BY ContextIsSeq DEF Past
<1>2. \A k \in Past : Len(k) - 1 \in 0 .. Len(k) /\ Len(Prefix(k, Len(k) - 1)) = Len(k) - 1
  BY PastFacts
<1>3. Len(g) = Len(h)
  BY <1>1, <1>2
<1>4. ASSUME NEW i \in 1 .. Len(g) PROVE g[i] = h[i]
  <2>1. CASE i = Len(g)
    BY <1>3, <2>1
  <2>2. CASE i # Len(g)
    <3>1. Prefix(g, Len(g) - 1)[i] = g[i] /\ Prefix(h, Len(h) - 1)[i] = h[i]
      BY <1>1, <1>3, <2>2 DEF Prefix
    <3> QED BY <3>1
  <2> QED BY <2>1, <2>2
<1> QED BY <1>1, <1>3, <1>4

\* The input of the first layer tells the last token.
LEMMA EmbedTells ==
    ASSUME NEW g, NEW h, X(1, g) = X(1, h)
    PROVE  g[Len(g)] = h[Len(h)]
<1>1. EmbedRow(g[Len(g)]) = EmbedRow(h[Len(h)])
  BY DEF X
<1> QED BY <1>1, OneTells DEF EmbedRow

\* The recurrence of the first layer holds the whole context.
LEMMA StateTells ==
    ASSUME NEW g \in Context, NEW h \in Context, RefState(1, g) = RefState(1, h)
    PROVE  g = h
<1> DEFINE Bad == {n \in Nat : \E u, v \in Context : /\ Len(u) = n /\ u # v
                                                    /\ RefState(1, u) = RefState(1, v)}
<1>1. ASSUME Bad # {} PROVE FALSE
  <2>1. PICK m \in Bad : \A y \in Bad : m <= y
    <3>1. Bad \subseteq Nat
      OBVIOUS
    <3> HIDE DEF Bad
    <3> QED BY <1>1, <3>1, LeastFound
  <2>2. PICK u \in Context, v \in Context : Len(u) = m /\ u # v /\ RefState(1, u) = RefState(1, v)
    BY <2>1
  <2> HIDE DEF Bad
  <2>3. ASSUME NEW w \in Context
        PROVE  /\ w = << >> => RefState(1, w) = Zero
               /\ w # << >> => /\ w \in Past
                               /\ RefState(1, w) = Advance(1, RefState(1, Prefix(w, Len(w) - 1)),
                                     RefConv(1, w), DecayOf(1, w), BetaOf(1, w))
    <3>1. CASE w = << >>
      <4>1. 0 \in 0 .. Len(w) /\ Len(w) = 0
        BY <3>1
      <4>2. Prefix(w, 0) = w
        BY <4>1, PrefixFacts
      <4> QED BY <3>1, <4>2, RefStateChain
    <3>2. CASE w # << >>
      <4>1. w \in Past
        BY <3>2 DEF Past
      <4>2. Len(w) \in 1 .. Len(w) /\ Prefix(w, Len(w)) = w
        BY <4>1, PastFacts
      <4>3. RefState(1, Prefix(w, Len(w)))
              = Advance(1, RefState(1, Prefix(w, Len(w) - 1)), RefConv(1, Prefix(w, Len(w))),
                        DecayOf(1, Prefix(w, Len(w))), BetaOf(1, Prefix(w, Len(w))))
        BY <4>2, RefStateChain
      <4> QED BY <3>2, <4>1, <4>2, <4>3
    <3> QED BY <3>1, <3>2
  <2>4. u # << >> /\ v # << >>
    BY <2>2, <2>3, AdvanceIsNotZero
  <2>5. u \in Past /\ v \in Past
    BY <2>3, <2>4
  <2>6. Advance(1, RefState(1, Prefix(u, Len(u) - 1)), RefConv(1, u), DecayOf(1, u), BetaOf(1, u))
          = Advance(1, RefState(1, Prefix(v, Len(v) - 1)), RefConv(1, v), DecayOf(1, v), BetaOf(1, v))
    BY <2>2, <2>3, <2>4
  <2>7. RefState(1, Prefix(u, Len(u) - 1)) = RefState(1, Prefix(v, Len(v) - 1))
        /\ DecayOf(1, u) = DecayOf(1, v)
    BY <2>6, AdvanceTells
  <2>8. Prefix(u, Len(u) - 1) = Prefix(v, Len(v) - 1)
    <3>1. Prefix(u, Len(u) - 1) \in Context /\ Prefix(v, Len(v) - 1) \in Context
          /\ Len(Prefix(u, Len(u) - 1)) = m - 1 /\ m \in Nat \ {0}
      BY <2>2, <2>5, PastFacts
    <3>2. m - 1 \notin Bad
      BY <2>1, <3>1
    <3> QED BY <2>7, <3>1, <3>2 DEF Bad
  <2>9. u[Len(u)] = v[Len(v)]
    BY <2>7, DecayTells, EmbedTells
  <2> QED BY <2>2, <2>5, <2>8, <2>9, SameParts
<1> QED
  <2>1. Len(g) \in Nat
    BY ContextIsSeq
  <2> QED BY <1>1, <2>1

\* A layer's output tells its input and what its mixer added.
LEMMA BlockTells ==
    ASSUME NEW l, NEW g, NEW u, NEW h, NEW v, RefBlock(l, g, u) = RefBlock(l, h, v)
    PROVE  X(l, g) = X(l, h) /\ u = v
<1> DEFINE R(k, x) == Term("add", "none", <<X(l, k), x>>)
           D(k, x) == Lin(l, "down", Term("swiglu", "none",
                        <<Lin(l, "gate", Rms(<<l, "post_ln">>, R(k, x))),
                          Lin(l, "up", Rms(<<l, "post_ln">>, R(k, x)))>>))
<1>1. Term("add", "none", <<R(g, u), D(g, u)>>) = Term("add", "none", <<R(h, v), D(h, v)>>)
  BY DEF RefBlock
<1>2. R(g, u) = R(h, v)
  <2> HIDE DEF R, D
  <2> QED BY <1>1, PairTells
<1> QED BY <1>2, PairTells

\* The name of a layer's output tells the context.
LEMMA NameTells ==
    ASSUME NEW l, l # 1, NEW g, NEW h, X(l, g) = X(l, h)
    PROVE  g = h
<1>1. Term("x", l, <<g>>) = Term("x", l, <<h>>)
  BY DEF X
<1> QED BY <1>1, OneTells

\* What the mixer of a layer leaves for a context.
DeltaMixed(l, h) ==
    Lin(l, "out_proj",
        Term("rmsnorm_gated", <<l, "norm">>,
            <<Term("read", l, <<RefState(l, h), RefConv(l, h)>>),
              Lin(l, "in_proj_z", RefIn(l, h))>>))
AttnMixed(l, h) ==
    Lin(l, "o_proj",
        Term("sigmoid_mul", "none",
            <<Term("attend", "none", <<RefRope(h, Rms(<<l, "q_norm">>, RefHalf(l, h, "query"))),
                                   [i \in 1 .. Len(h) |-> RefKv(l, Prefix(h, i))]>>),
              RefHalf(l, h, "gate")>>))

\* The reference of a layer, by its mixer.
LEMMA OutIsBlock ==
    ASSUME NEW l \in Layer, NEW h \in Past
    PROVE  OutTable[l][h] = RefBlock(l, h, IF l \in DeltaLayer THEN DeltaMixed(l, h) ELSE AttnMixed(l, h))
<1>1. OutTable[l][h] = (IF l \in DeltaLayer THEN RefDelta(l, h) ELSE RefAttn(l, h))
  BY DEF OutTable
<1>2. RefDelta(l, h) = RefBlock(l, h, DeltaMixed(l, h))
  BY DEF RefDelta, DeltaMixed
<1>3. RefAttn(l, h) = RefBlock(l, h, AttnMixed(l, h))
  BY DEF RefAttn, AttnMixed
<1> QED BY <1>1, <1>2, <1>3

\* A layer's output tells its context, so its name is that of its context.
LEMMA OutTells ==
    ASSUME NEW l \in Layer, NEW g \in Past, NEW h \in Past, OutTable[l][g] = OutTable[l][h]
    PROVE  g = h
<1> DEFINE M(k) == IF l \in DeltaLayer THEN DeltaMixed(l, k) ELSE AttnMixed(l, k)
<1>1. X(l, g) = X(l, h) /\ M(g) = M(h)
  <2>1. RefBlock(l, g, M(g)) = RefBlock(l, h, M(h))
    BY OutIsBlock
  <2> HIDE DEF M
  <2> QED BY <2>1, BlockTells
<1>2. CASE l # 1
  BY <1>1, <1>2, NameTells
<1>3. CASE l = 1
  <2> DEFINE Read(k) == Term("read", 1, <<RefState(1, k), RefConv(1, k)>>)
             Z(k) == Lin(1, "in_proj_z", RefIn(1, k))
             Gated(k) == Term("rmsnorm_gated", <<1, "norm">>, <<Read(k), Z(k)>>)
  <2>1. Lin(1, "out_proj", Gated(g)) = Lin(1, "out_proj", Gated(h))
    BY <1>1, <1>3, HybridAssumption DEF DeltaMixed
  <2>2. Gated(g) = Gated(h)
    <3> HIDE DEF Gated
    <3> QED BY <2>1, OneTells DEF Lin
  <2>3. Read(g) = Read(h)
    <3> HIDE DEF Read, Z
    <3> QED BY <2>2, PairTells
  <2>4. RefState(1, g) = RefState(1, h)
    BY <2>3, PairTells
  <2>5. g \in Context /\ h \in Context
    BY DEF Past
  <2> QED BY <2>4, <2>5, StateTells
<1> QED BY <1>2, <1>3

\* The reference of one layer is named as the next layer's input.
LEMMA NamedFacts ==
    ASSUME NEW l \in Layer, NEW h \in Past
    PROVE  Named(l, OutTable[l][h]) = X(l + 1, h)
<1>1. \E g \in Past : OutTable[l][g] = OutTable[l][h]
  OBVIOUS
<1>2. (CHOOSE g \in Past : OutTable[l][g] = OutTable[l][h]) = h
  <2>1. PICK u : u = CHOOSE g \in Past : OutTable[l][g] = OutTable[l][h]
    OBVIOUS
  <2>2. u \in Past /\ OutTable[l][u] = OutTable[l][h]
    BY <1>1, <2>1
  <2> QED BY <2>1, <2>2, OutTells
<1>3. l + 1 # 1
  BY DEF Layer
<1> QED BY <1>1, <1>2, <1>3 DEF Named, X

-----------------------------------------------------------------------------
(* What running a launch does, as a relation of the device before it and     *)
(* after it: as much of it as the rows of a pass depend on.                  *)

\* The device, as one record.
Dev == [buf |-> buf, conv |-> convHist, rec |-> recur, kv |-> cache, pos |-> positions,
        keys |-> keys, staged |-> staged]

\* What a launch leaves alone.
SameBut(D, E, outs) == \A b \in Buffer \ outs : E.buf[b] = D.buf[b]
SameState(D, E) ==
    E.conv = D.conv /\ E.rec = D.rec /\ E.kv = D.kv /\ E.pos = D.pos /\ E.keys = D.keys

\* Only the buffers `outs` change.
Keeps(D, E, outs) == SameBut(D, E, outs) /\ SameState(D, E) /\ E.staged = D.staged

\* Lanes whose rows are in the buffers, no row in two of them.
Lanes(lanes) ==
    /\ \A x \in lanes : /\ x.seq \in Seqs /\ Len(x.rows) \in 1 .. Ctx
                        /\ \A i \in 1 .. Len(x.rows) : x.rows[i] \in BufRow
    /\ \A x, y \in lanes : \A i \in 1 .. Len(x.rows), j \in 1 .. Len(y.rows) :
         x.rows[i] = y.rows[j] => x = y /\ i = j

\* Row r of a row-wise operation.
RowTerm(D, op, w, ins, r) == Term(op, w, [i \in DOMAIN ins |-> D.buf[ins[i]][r]])

\* Every store of the launch, provided no other has its buffer.
RowsEffect(D, L, E) ==
    L.kind = "rows" =>
      /\ \A w \in L.stores :
           w.out \in Buffer /\ (\A v \in L.stores : v.out = w.out => v = w) =>
             \A r \in BufRow : r < L.rows =>
               E.buf[w.out][r] = RowTerm(D, w.op, w.w, w.ins, r)
      /\ Keeps(D, E, {w.out : w \in L.stores})

\* The effects of the other kinds of launch.
UploadEffect(D, L, E) ==
    L.kind = "upload" =>
      /\ L.out \in Buffer => \A r \in BufRow : r < L.rows => E.buf[L.out][r] = L.values[r + 1]
      /\ Keeps(D, E, {L.out})

CopyEffect(D, L, E) ==
    L.kind = "copy" =>
      /\ L.dst \in Buffer =>
           \A r \in BufRow : r < L.rows => E.buf[L.dst][r] = D.buf[L.src][L.from + r]
      /\ Keeps(D, E, {L.dst})

\* The inputs of a lane's conv: its history, then its rows.
Inputs(D, L, lane) ==
    [j \in 1 .. ConvHist |-> D.conv[L.layer][lane.seq * ConvHist + j - 1]]
        \o [i \in 1 .. Len(lane.rows) |-> D.buf["qkv"][lane.rows[i]]]

ConvEffect(D, L, E) ==
    L.kind = "conv" =>
      /\ Lanes(L.lanes) =>
           \A lane \in L.lanes : \A i \in 1 .. Len(lane.rows) :
             E.buf["conv"][lane.rows[i]]
               = Term("conv", L.layer, SubSeq(Inputs(D, L, lane), i, i + ConvHist))
      /\ SameBut(D, E, {"conv"}) /\ E.staged = D.staged
      /\ \A m \in Layer \ {L.layer} : E.conv[m] = D.conv[m]
      /\ E.rec = D.rec /\ E.kv = D.kv /\ E.pos = D.pos /\ E.keys = D.keys

\* The recurrence of a lane over its rows.
Follows(D, L, lane, f) ==
    Chain(f, Len(lane.rows), D.rec[L.layer][lane.seq], L.layer,
          [i \in 1 .. Len(lane.rows) |-> D.buf["conv_ln"][lane.rows[i]]],
          [i \in 1 .. Len(lane.rows) |-> D.buf["decay"][lane.rows[i]]],
          [i \in 1 .. Len(lane.rows) |-> D.buf["beta"][lane.rows[i]]])

RuleEffect(D, L, E) ==
    L.kind = "rule" =>
      /\ Lanes(L.lanes) =>
           \A lane \in L.lanes : \E f :
             /\ Follows(D, L, lane, f)
             /\ \A i \in 1 .. Len(lane.rows) :
                  E.buf["attn"][lane.rows[i]]
                    = Term("read", L.layer, <<f[i], D.buf["conv_ln"][lane.rows[i]]>>)
      /\ SameBut(D, E, {"attn"}) /\ E.staged = D.staged
      /\ \A m \in Layer \ {L.layer} : E.rec[m] = D.rec[m]
      /\ E.conv = D.conv /\ E.kv = D.kv /\ E.pos = D.pos /\ E.keys = D.keys

\* The position of a lane's first row, and the cache row its i-th goes to.
FirstPos(D, L, lane) == L.pos + (IF L.fromDevice THEN D.pos[L.layer][lane.seq] ELSE 0)
Target(D, L, lane, i) == lane.seq * Ctx + FirstPos(D, L, lane) + i - 1

\* No two rows of an append land on one row of the cache.
Apart(D, L) ==
    \A x, y \in L.lanes : \A i \in 1 .. Len(x.rows), j \in 1 .. Len(y.rows) :
        Target(D, L, x, i) = Target(D, L, y, j) => x = y /\ i = j

AppendEffect(D, L, E) ==
    L.kind = "append" =>
      /\ SameBut(D, E, {}) /\ E.staged = D.staged
      /\ E.conv = D.conv /\ E.rec = D.rec /\ E.pos = D.pos /\ E.keys = D.keys
      /\ \A m \in Layer \ {L.layer} : E.kv[m] = D.kv[m]
      /\ L.layer \in Layer /\ Lanes(L.lanes) /\ Apart(D, L) =>
           \A d \in 0 .. NSeq * Ctx - 1 :
             /\ \A lane \in L.lanes : \A i \in 1 .. Len(lane.rows) :
                  Target(D, L, lane, i) = d =>
                    E.kv[L.layer][d] = Term("kv", L.layer, <<D.buf["kb_ln"][lane.rows[i]],
                                                            D.buf["vb"][lane.rows[i]]>>)
             /\ (\A lane \in L.lanes : \A i \in 1 .. Len(lane.rows) : Target(D, L, lane, i) # d) =>
                  E.kv[L.layer][d] = D.kv[L.layer][d]

\* The first n rows of a lane's sequence are inside the cache.
Inside(lane, n) == \A j \in 1 .. n : lane.seq * Ctx + j - 1 \in 0 .. NSeq * Ctx - 1

AttendEffect(D, L, E) ==
    L.kind = "attend" =>
      /\ L.layer \in Layer /\ Lanes(L.lanes) =>
           \A lane \in L.lanes : \A i \in 1 .. Len(lane.rows) :
             Inside(lane, FirstPos(D, L, lane) + i) =>
             E.buf["attn"][lane.rows[i]]
               = Term("attend", "none", <<D.buf["q"][lane.rows[i]],
                   [j \in 1 .. FirstPos(D, L, lane) + i |-> D.kv[L.layer][lane.seq * Ctx + j - 1]]>>)
      /\ Keeps(D, E, {"attn"})

SyncEffect(D, L, E) ==
    L.kind = "sync" =>
      /\ L.layer \in Layer => E.pos[L.layer] = D.keys[L.layer]
      /\ SameBut(D, E, {}) /\ E.staged = D.staged
      /\ E.conv = D.conv /\ E.rec = D.rec /\ E.kv = D.kv /\ E.keys = D.keys

KeysEffect(D, L, E) ==
    L.kind = "keys" =>
      /\ \A m \in Layer \ {L.layer} : E.keys[m] = D.keys[m]
      /\ L.layer \in Layer => E.keys[L.layer] = L.keys
      /\ SameBut(D, E, {}) /\ E.staged = D.staged
      /\ E.conv = D.conv /\ E.rec = D.rec /\ E.kv = D.kv /\ E.pos = D.pos

GrowEffect(D, L, E) ==
    L.kind = "grow" =>
      /\ SameBut(D, E, {}) /\ SameState(D, E)
      /\ \A p \in Part :
           /\ D.staged.act[p].cells >= L.actCells => E.staged.act[p] = D.staged.act[p]
           /\ p \in L.parts => E.staged.act[p].cells >= L.actCells

DequantEffect(D, L, E) ==
    L.kind = "dequant" =>
      /\ SameBut(D, E, {}) /\ SameState(D, E)
      /\ L.cells \in Nat => E.staged.w.val = L.w
      /\ \A p \in Part : E.staged.act[p] = D.staged.act[p]

CastEffect(D, L, E) ==
    L.kind = "cast" =>
      /\ SameBut(D, E, {}) /\ SameState(D, E)
      /\ E.staged.w = D.staged.w
      /\ \A p \in L.parts \intersect Part :
           /\ E.staged.act[p].cells = D.staged.act[p].cells
           /\ L.rows \in Nat /\ L.k \in Nat =>
                \A r \in BufRow : r < L.rows =>
                  E.staged.act[p].rows[r] = Term("part", p, <<L.parts, D.buf[L.x][r]>>)

\* What a product's buffer holds of it before the launch.
Sum(D, L, r) ==
    IF L.beta = 1 /\ D.buf[L.y][r] # Stale THEN D.buf[L.y][r][3][1] ELSE {}

GemmEffect(D, L, E) ==
    L.kind = "gemm" =>
      /\ Keeps(D, E, {L.y})
      /\ L.y \in Buffer =>
           \A r \in BufRow : r < L.rows =>
             E.buf[L.y][r] = Product(D.staged.w.val, Sum(D, L, r) \union {D.staged.act[L.part].rows[r]},
                                     L.whole, D.buf[L.x][r])

Effect(D, L, E) ==
    /\ RowsEffect(D, L, E) /\ UploadEffect(D, L, E) /\ CopyEffect(D, L, E)
    /\ ConvEffect(D, L, E) /\ RuleEffect(D, L, E) /\ AppendEffect(D, L, E) /\ AttendEffect(D, L, E)
    /\ SyncEffect(D, L, E) /\ KeysEffect(D, L, E)
    /\ GrowEffect(D, L, E) /\ DequantEffect(D, L, E) /\ CastEffect(D, L, E) /\ GemmEffect(D, L, E)

\* Only the launch's own kind says anything of it.
LEMMA EffectOfKind ==
    ASSUME NEW D, NEW L, NEW E,
           \/ L.kind = "rows" /\ RowsEffect(D, L, E)
           \/ L.kind = "upload" /\ UploadEffect(D, L, E)
           \/ L.kind = "copy" /\ CopyEffect(D, L, E)
           \/ L.kind = "conv" /\ ConvEffect(D, L, E)
           \/ L.kind = "rule" /\ RuleEffect(D, L, E)
           \/ L.kind = "append" /\ AppendEffect(D, L, E)
           \/ L.kind = "attend" /\ AttendEffect(D, L, E)
           \/ L.kind = "sync" /\ SyncEffect(D, L, E)
           \/ L.kind = "keys" /\ KeysEffect(D, L, E)
           \/ L.kind = "grow" /\ GrowEffect(D, L, E)
           \/ L.kind = "dequant" /\ DequantEffect(D, L, E)
           \/ L.kind = "cast" /\ CastEffect(D, L, E)
           \/ L.kind = "gemm" /\ GemmEffect(D, L, E)
    PROVE  Effect(D, L, E)
<1>1. /\ L.kind # "rows" => RowsEffect(D, L, E)
      /\ L.kind # "upload" => UploadEffect(D, L, E)
      /\ L.kind # "copy" => CopyEffect(D, L, E)
  BY DEF RowsEffect, UploadEffect, CopyEffect
<1>2. /\ L.kind # "conv" => ConvEffect(D, L, E)
      /\ L.kind # "rule" => RuleEffect(D, L, E)
      /\ L.kind # "append" => AppendEffect(D, L, E)
      /\ L.kind # "attend" => AttendEffect(D, L, E)
  BY DEF ConvEffect, RuleEffect, AppendEffect, AttendEffect
<1>3. /\ L.kind # "sync" => SyncEffect(D, L, E)
      /\ L.kind # "keys" => KeysEffect(D, L, E)
      /\ L.kind # "grow" => GrowEffect(D, L, E)
      /\ L.kind # "dequant" => DequantEffect(D, L, E)
      /\ L.kind # "cast" => CastEffect(D, L, E)
      /\ L.kind # "gemm" => GemmEffect(D, L, E)
  BY DEF SyncEffect, KeysEffect, GrowEffect, DequantEffect, CastEffect, GemmEffect
<1> QED BY <1>1, <1>2, <1>3 DEF Effect

\* The fields of the device.
LEMMA DevFields ==
    /\ Dev.buf = buf /\ Dev.conv = convHist /\ Dev.rec = recur /\ Dev.kv = cache
    /\ Dev.pos = positions /\ Dev.keys = keys /\ Dev.staged = staged
    /\ Dev'.buf = buf' /\ Dev'.conv = convHist' /\ Dev'.rec = recur' /\ Dev'.kv = cache'
    /\ Dev'.pos = positions' /\ Dev'.keys = keys' /\ Dev'.staged = staged'
    /\ DOMAIN Dev' = {"buf", "conv", "rec", "kv", "pos", "keys", "staged"}
BY DEF Dev

\* A row-wise launch has its effect; the lemmas after it say so of the other kinds.
LEMMA RowsRun ==
    ASSUME NEW L, BufType, RunRows(L)
    PROVE  L.kind = "rows" /\ RowsEffect(Dev, L, Dev')
<1>1. /\ L.kind = "rows"
      /\ \A b \in Buffer :
           buf'[b] = IF \E w \in L.stores : w.out = b
                     THEN LET w == CHOOSE w \in L.stores : w.out = b
                          IN [r \in BufRow |->
                                IF r < L.rows
                                THEN Term(w.op, w.w, [i \in DOMAIN w.ins |-> buf[w.ins[i]][r]])
                                ELSE buf[b][r]]
                     ELSE buf[b]
      /\ UNCHANGED <<convHist, recur, cache, positions, keys, staged>>
  BY DEF RunRows
<1>2. ASSUME NEW w \in L.stores, w.out \in Buffer, \A v \in L.stores : v.out = w.out => v = w,
             NEW r \in BufRow, r < L.rows
      PROVE  Dev'.buf[w.out][r] = RowTerm(Dev, w.op, w.w, w.ins, r)
  <2>1. (CHOOSE v \in L.stores : v.out = w.out) = w
    BY <1>2
  <2>2. buf'[w.out] = [q \in BufRow |->
                         IF q < L.rows
                         THEN Term(w.op, w.w, [i \in DOMAIN w.ins |-> buf[w.ins[i]][q]])
                         ELSE buf[w.out][q]]
    BY <1>1, <1>2, <2>1
  <2> QED BY <1>2, <2>2, DevFields DEF RowTerm
<1>3. Keeps(Dev, Dev', {w.out : w \in L.stores})
  BY <1>1, DevFields DEF Keeps, SameBut, SameState
<1> QED BY <1>1, <1>2, <1>3 DEF RowsEffect

LEMMA UploadRun ==
    ASSUME NEW L, BufType, RunUpload(L)
    PROVE  L.kind = "upload" /\ UploadEffect(Dev, L, Dev')
<1>1. /\ L.kind = "upload"
      /\ buf' = [buf EXCEPT ![L.out] =
                   [r \in BufRow |-> IF r < L.rows THEN L.values[r + 1] ELSE buf[L.out][r]]]
      /\ UNCHANGED <<convHist, recur, cache, positions, keys, staged>>
  BY DEF RunUpload
<1>2. ASSUME L.out \in Buffer, NEW r \in BufRow, r < L.rows
      PROVE  buf'[L.out][r] = L.values[r + 1]
  BY <1>1, <1>2 DEF BufType
<1>3. \A b \in Buffer \ {L.out} : buf'[b] = buf[b]
  BY <1>1 DEF BufType
<1> QED BY <1>1, <1>2, <1>3, DevFields DEF UploadEffect, Keeps, SameBut, SameState

LEMMA CopyRun ==
    ASSUME NEW L, BufType, RunCopy(L)
    PROVE  L.kind = "copy" /\ CopyEffect(Dev, L, Dev')
<1>1. /\ L.kind = "copy"
      /\ buf' = [buf EXCEPT ![L.dst] =
                   [r \in BufRow |-> IF r < L.rows THEN buf[L.src][L.from + r] ELSE buf[L.dst][r]]]
      /\ UNCHANGED <<convHist, recur, cache, positions, keys, staged>>
  BY DEF RunCopy
<1>2. ASSUME L.dst \in Buffer, NEW r \in BufRow, r < L.rows
      PROVE  buf'[L.dst][r] = buf[L.src][L.from + r]
  BY <1>1, <1>2 DEF BufType
<1>3. \A b \in Buffer \ {L.dst} : buf'[b] = buf[b]
  BY <1>1 DEF BufType
<1> QED BY <1>1, <1>2, <1>3, DevFields DEF CopyEffect, Keeps, SameBut, SameState

\* The lane a row belongs to is found by the row.
LEMMA LaneFound ==
    ASSUME NEW L, Lanes(L.lanes), NEW lane \in L.lanes, NEW i \in 1 .. Len(lane.rows)
    PROVE  /\ lane.rows[i] \in BufRow
           /\ Works(L, lane.rows[i]) # {}
           /\ (CHOOSE p \in Works(L, lane.rows[i]) : TRUE) = <<lane, i>>
<1>1. lane.rows[i] \in BufRow /\ Len(lane.rows) \in 1 .. Ctx
  BY DEF Lanes
<1>2. i \in 1 .. Ctx
  BY <1>1, SizesAreNat
<1>3. <<lane, i>> \in Works(L, lane.rows[i])
  BY <1>2 DEF Works
<1>4. ASSUME NEW p \in Works(L, lane.rows[i]) PROVE p = <<lane, i>>
  <2>1. p \in L.lanes \X (1 .. Ctx) /\ p[2] <= Len(p[1].rows) /\ p[1].rows[p[2]] = lane.rows[i]
    BY DEF Works
  <2>2. p[1] \in L.lanes /\ p[2] \in 1 .. Ctx /\ p = <<p[1], p[2]>>
    BY <2>1
  <2>3. Len(p[1].rows) \in 1 .. Ctx
    BY <2>2 DEF Lanes
  <2>4. p[2] \in 1 .. Len(p[1].rows)
    BY <2>1, <2>2, <2>3, SizesAreNat
  <2>5. p[1] = lane /\ p[2] = i
    BY <2>1, <2>2, <2>4 DEF Lanes
  <2> QED BY <2>2, <2>5
<1> QED BY <1>1, <1>3, <1>4

\* The conv, the attention, the recurrence and the append, lane by lane.
LEMMA ConvRun ==
    ASSUME NEW L, BufType, CacheType, RunConv(L)
    PROVE  L.kind = "conv" /\ ConvEffect(Dev, L, Dev')
<1> DEFINE value(p) == Term("conv", L.layer, SubSeq(Fed(L, p[1]), p[2], p[2] + ConvHist))
<1>1. /\ L.kind = "conv"
      /\ buf' = [buf EXCEPT !["conv"] =
           [r \in BufRow |-> IF Works(L, r) # {} THEN value(CHOOSE p \in Works(L, r) : TRUE)
                             ELSE buf["conv"][r]]]
      /\ UNCHANGED <<recur, cache, positions, keys, staged>>
  BY DEF RunConv, InLanes
<1>2. \A m \in Layer \ {L.layer} : convHist'[m] = convHist[m]
  BY DEF RunConv, CacheType
<1>3. ASSUME Lanes(L.lanes), NEW lane \in L.lanes, NEW i \in 1 .. Len(lane.rows)
      PROVE  Dev'.buf["conv"][lane.rows[i]]
               = Term("conv", L.layer, SubSeq(Inputs(Dev, L, lane), i, i + ConvHist))
  <2>1. /\ lane.rows[i] \in BufRow /\ Works(L, lane.rows[i]) # {}
        /\ (CHOOSE p \in Works(L, lane.rows[i]) : TRUE) = <<lane, i>>
    BY <1>3, LaneFound
  <2>2. "conv" \in DOMAIN buf
    BY DEF BufType, Buffer, ScratchBuffer
  <2>3. buf'["conv"][lane.rows[i]] = value(<<lane, i>>)
    <3> HIDE DEF value
    <3> QED BY <1>1, <2>1, <2>2
  <2>4. Fed(L, lane) = Inputs(Dev, L, lane)
    BY DevFields DEF Fed, Inputs, ConvStride
  <2> QED BY <2>3, <2>4, DevFields
<1>4. SameBut(Dev, Dev', {"conv"})
  BY <1>1, DevFields DEF BufType, SameBut
<1>5. /\ Dev'.staged = Dev.staged /\ Dev'.rec = Dev.rec /\ Dev'.kv = Dev.kv
      /\ Dev'.pos = Dev.pos /\ Dev'.keys = Dev.keys
      /\ \A m \in Layer \ {L.layer} : Dev'.conv[m] = Dev.conv[m]
  BY <1>1, <1>2, DevFields
<1> HIDE DEF value
<1> QED BY <1>1, <1>3, <1>4, <1>5 DEF ConvEffect

LEMMA AttendRun ==
    ASSUME NEW L, BufType, CacheType, RunAttend(L)
    PROVE  L.kind = "attend" /\ AttendEffect(Dev, L, Dev')
<1> DEFINE value(p) ==
             Term("attend", "none", <<buf["q"][p[1].rows[p[2]]],
               [j \in 1 .. PosOf(L, p[1]) + p[2] |-> CacheRow(L.layer, p[1].seq * KvStride + j - 1)]>>)
<1>1. /\ L.kind = "attend"
      /\ buf' = [buf EXCEPT !["attn"] =
           [r \in BufRow |-> IF Works(L, r) # {} THEN value(CHOOSE p \in Works(L, r) : TRUE)
                             ELSE buf["attn"][r]]]
      /\ UNCHANGED <<convHist, recur, cache, positions, keys, staged>>
  BY DEF RunAttend, InLanes
<1>2. ASSUME L.layer \in Layer, Lanes(L.lanes), NEW lane \in L.lanes,
             NEW i \in 1 .. Len(lane.rows), Inside(lane, FirstPos(Dev, L, lane) + i)
      PROVE  Dev'.buf["attn"][lane.rows[i]]
               = Term("attend", "none", <<Dev.buf["q"][lane.rows[i]],
                   [j \in 1 .. FirstPos(Dev, L, lane) + i |->
                      Dev.kv[L.layer][lane.seq * Ctx + j - 1]]>>)
  <2>1. /\ lane.rows[i] \in BufRow /\ Works(L, lane.rows[i]) # {}
        /\ (CHOOSE p \in Works(L, lane.rows[i]) : TRUE) = <<lane, i>>
    BY <1>2, LaneFound
  <2>2. "attn" \in DOMAIN buf
    BY DEF BufType, Buffer, ScratchBuffer
  <2>3. buf'["attn"][lane.rows[i]] = value(<<lane, i>>)
    <3> HIDE DEF value
    <3> QED BY <1>1, <2>1, <2>2
  <2>4. PosOf(L, lane) = FirstPos(Dev, L, lane)
    BY DevFields DEF PosOf, FirstPos
  <2>5. PICK n : n = FirstPos(Dev, L, lane) + i
    OBVIOUS
  <2>6. PICK f, g : /\ f = [j \in 1 .. n |-> CacheRow(L.layer, lane.seq * Ctx + j - 1)]
                    /\ g = [j \in 1 .. n |-> cache[L.layer][lane.seq * Ctx + j - 1]]
    OBVIOUS
  <2>7. f = g
    <3>1. ASSUME NEW j \in 1 .. n
          PROVE  CacheRow(L.layer, lane.seq * Ctx + j - 1) = cache[L.layer][lane.seq * Ctx + j - 1]
      <4>1. PICK d : d = lane.seq * Ctx + j - 1
        OBVIOUS
      <4>2. d \in DOMAIN cache[L.layer]
        BY <1>2, <2>5, <4>1 DEF Inside, CacheType
      <4> QED BY <4>1, <4>2 DEF CacheRow
    <3> QED BY <2>6, <3>1
  <2>8. buf'["attn"][lane.rows[i]] = Term("attend", "none", <<buf["q"][lane.rows[i]], f>>)
    BY <2>3, <2>4, <2>5, <2>6 DEF KvStride
  <2> QED BY <2>5, <2>6, <2>7, <2>8, DevFields
<1>3. Keeps(Dev, Dev', {"attn"})
  BY <1>1, DevFields DEF BufType, Keeps, SameBut, SameState
<1> HIDE DEF value
<1> QED BY <1>1, <1>2, <1>3 DEF AttendEffect

LEMMA RuleRun ==
    ASSUME NEW L, BufType, CacheType, DOMAIN recur = Layer, RunRule(L)
    PROVE  L.kind = "rule" /\ RuleEffect(Dev, L, Dev')
<1> DEFINE value(p) == Term("read", L.layer, <<Folded(L, p[1])[p[2]], buf["conv_ln"][p[1].rows[p[2]]]>>)
<1>1. /\ L.kind = "rule"
      /\ buf' = [buf EXCEPT !["attn"] =
           [r \in BufRow |-> IF Works(L, r) # {} THEN value(CHOOSE p \in Works(L, r) : TRUE)
                             ELSE buf["attn"][r]]]
      /\ UNCHANGED <<convHist, cache, positions, keys, staged>>
  BY DEF RunRule, InLanes
<1>2. \A m \in Layer \ {L.layer} : recur'[m] = recur[m]
  BY DEF RunRule
<1>3. ASSUME Lanes(L.lanes), NEW lane \in L.lanes
      PROVE  /\ Follows(Dev, L, lane, Folded(L, lane))
             /\ \A i \in 1 .. Len(lane.rows) :
                  Dev'.buf["attn"][lane.rows[i]]
                    = Term("read", L.layer, <<Folded(L, lane)[i], Dev.buf["conv_ln"][lane.rows[i]]>>)
  <2>1. Len(lane.rows) \in Nat
    BY <1>3, SizesAreNat DEF Lanes
  <2>2. Follows(Dev, L, lane, Folded(L, lane))
    <3> DEFINE n == Len(lane.rows)
               A == [i \in 1 .. n |-> Dev.buf["conv_ln"][lane.rows[i]]]
               B == [i \in 1 .. n |-> Dev.buf["decay"][lane.rows[i]]]
               C == [i \in 1 .. n |-> Dev.buf["beta"][lane.rows[i]]]
               base == Dev.rec[L.layer][lane.seq]
               Eqn(f) == f = [i \in 0 .. n |->
                  IF i = 0 THEN recur[L.layer][lane.seq]
                  ELSE Term("state", L.layer, <<f[i - 1], buf["conv_ln"][lane.rows[i]],
                                                buf["decay"][lane.rows[i]], buf["beta"][lane.rows[i]]>>)]
    <3>1. ASSUME NEW f PROVE Eqn(f) <=> Chain(f, n, base, L.layer, A, B, C)
      <4> DEFINE r1 == [i \in 0 .. n |->
                  IF i = 0 THEN recur[L.layer][lane.seq]
                  ELSE Term("state", L.layer, <<f[i - 1], buf["conv_ln"][lane.rows[i]],
                                                buf["decay"][lane.rows[i]], buf["beta"][lane.rows[i]]>>)]
                 r2 == [i \in 0 .. n |->
                          IF i = 0 THEN base ELSE Advance(L.layer, f[i - 1], A[i], B[i], C[i])]
      <4>1. ASSUME NEW i \in 0 .. n PROVE r1[i] = r2[i]
        <5>1. CASE i = 0
          BY <5>1, DevFields
        <5>2. CASE i # 0
          <6>1. i \in 1 .. n
            BY <2>1, <5>2
          <6>2. /\ A[i] = buf["conv_ln"][lane.rows[i]] /\ B[i] = buf["decay"][lane.rows[i]]
                /\ C[i] = buf["beta"][lane.rows[i]]
            BY <6>1, DevFields
          <6> HIDE DEF A, B, C
          <6> QED BY <5>2, <6>2 DEF Advance
        <5> QED BY <5>1, <5>2
      <4>2. r1 = [i \in 0 .. n |-> r1[i]] /\ r2 = [i \in 0 .. n |-> r2[i]]
        OBVIOUS
      <4>3. r1 = r2
        <5> HIDE DEF r1, r2
        <5> QED BY <4>1, <4>2
      <4>4. Eqn(f) <=> f = r1
        OBVIOUS
      <4>5. Chain(f, n, base, L.layer, A, B, C) <=> f = r2
        BY DEF Chain
      <4> HIDE DEF r1, r2, Eqn
      <4> QED BY <4>3, <4>4, <4>5
    <3>2. \E f : Chain(f, n, base, L.layer, A, B, C)
      <4> HIDE DEF A, B, C, base
      <4> QED BY <2>1, ChainExists
    <3>3. Folded(L, lane) = CHOOSE f : Eqn(f)
      BY DEF Folded
    <3>4. Eqn(Folded(L, lane))
      <4> HIDE DEF Eqn
      <4> QED BY <3>1, <3>2, <3>3
    <3>5. Chain(Folded(L, lane), n, base, L.layer, A, B, C)
      <4> HIDE DEF Eqn, A, B, C, base
      <4> QED BY <3>1, <3>4
    <3> QED BY <3>5 DEF Follows
  <2>3. ASSUME NEW i \in 1 .. Len(lane.rows)
        PROVE  Dev'.buf["attn"][lane.rows[i]]
                 = Term("read", L.layer, <<Folded(L, lane)[i], Dev.buf["conv_ln"][lane.rows[i]]>>)
    <3>1. /\ lane.rows[i] \in BufRow /\ Works(L, lane.rows[i]) # {}
          /\ (CHOOSE p \in Works(L, lane.rows[i]) : TRUE) = <<lane, i>>
      BY <1>3, LaneFound
    <3>2. "attn" \in DOMAIN buf
      BY DEF BufType, Buffer, ScratchBuffer
    <3>3. buf'["attn"][lane.rows[i]] = value(<<lane, i>>)
      <4> HIDE DEF value
      <4> QED BY <1>1, <3>1, <3>2
    <3> QED BY <3>3, DevFields
  <2> QED BY <2>2, <2>3
<1>4. SameBut(Dev, Dev', {"attn"})
  BY <1>1, DevFields DEF BufType, SameBut
<1>5. /\ Dev'.staged = Dev.staged /\ Dev'.conv = Dev.conv /\ Dev'.kv = Dev.kv
      /\ Dev'.pos = Dev.pos /\ Dev'.keys = Dev.keys
      /\ \A m \in Layer \ {L.layer} : Dev'.rec[m] = Dev.rec[m]
  BY <1>1, <1>2, DevFields
<1>6. Lanes(L.lanes) =>
        \A lane \in L.lanes : \E f :
          /\ Follows(Dev, L, lane, f)
          /\ \A i \in 1 .. Len(lane.rows) :
               Dev'.buf["attn"][lane.rows[i]]
                 = Term("read", L.layer, <<f[i], Dev.buf["conv_ln"][lane.rows[i]]>>)
  <2> HIDE DEF value
  <2>1. ASSUME Lanes(L.lanes), NEW lane \in L.lanes
        PROVE  \E f :
                 /\ Follows(Dev, L, lane, f)
                 /\ \A i \in 1 .. Len(lane.rows) :
                      Dev'.buf["attn"][lane.rows[i]]
                        = Term("read", L.layer, <<f[i], Dev.buf["conv_ln"][lane.rows[i]]>>)
    <3> WITNESS Folded(L, lane)
    <3> QED BY <1>3, <2>1
  <2> QED BY <2>1
<1> HIDE DEF value
<1> QED BY <1>1, <1>4, <1>5, <1>6 DEF RuleEffect

LEMMA AppendRun ==
    ASSUME NEW L, CacheType, RunAppend(L)
    PROVE  L.kind = "append" /\ AppendEffect(Dev, L, Dev')
<1> DEFINE Row(p) == Term("kv", L.layer, <<buf["kb_ln"][p[1].rows[p[2]]], buf["vb"][p[1].rows[p[2]]]>>)
           Ranks == {[p \in L.lanes \X (1 .. Ctx) |-> p[1].seq], [p \in L.lanes \X (1 .. Ctx) |-> -p[1].seq]}
           First(rank, S) == CHOOSE p \in S : \A o \in S : rank[p] <= rank[o]
<1>1. /\ L.kind = "append"
      /\ UNCHANGED <<buf, convHist, recur, positions, keys, staged>>
      /\ \E rank \in Ranks :
           cache' = [cache EXCEPT ![L.layer] =
             [d \in DOMAIN cache[L.layer] |->
                IF Landing(L, d) = {} THEN cache[L.layer][d] ELSE Row(First(rank, Landing(L, d)))]]
  BY DEF RunAppend
<1>6. PICK rank \in Ranks :
        cache' = [cache EXCEPT ![L.layer] =
             [d \in DOMAIN cache[L.layer] |->
                IF Landing(L, d) = {} THEN cache[L.layer][d] ELSE Row(First(rank, Landing(L, d)))]]
  <2> HIDE DEF Row, First, Ranks
  <2> QED BY <1>1
<1>7. \A p \in L.lanes \X (1 .. Ctx) : rank[p] \in {p[1].seq, -p[1].seq}
  OBVIOUS
<1> HIDE DEF Row, First, Ranks
<1>2. \A m \in Layer \ {L.layer} : Dev'.kv[m] = Dev.kv[m]
  BY <1>6, DevFields DEF CacheType
<1>3. /\ SameBut(Dev, Dev', {}) /\ Dev'.staged = Dev.staged
      /\ Dev'.conv = Dev.conv /\ Dev'.rec = Dev.rec /\ Dev'.pos = Dev.pos /\ Dev'.keys = Dev.keys
  BY <1>1, DevFields DEF SameBut
<1>4. \A lane, i : KvRowOf(L, lane, i) = Target(Dev, L, lane, i)
  BY DevFields DEF KvRowOf, PosOf, Target, FirstPos, KvStride
<1>5. ASSUME L.layer \in Layer, Lanes(L.lanes), Apart(Dev, L), NEW d \in 0 .. NSeq * Ctx - 1
      PROVE  /\ \A lane \in L.lanes : \A i \in 1 .. Len(lane.rows) :
                  Target(Dev, L, lane, i) = d =>
                    Dev'.kv[L.layer][d] = Term("kv", L.layer, <<Dev.buf["kb_ln"][lane.rows[i]],
                                                               Dev.buf["vb"][lane.rows[i]]>>)
             /\ (\A lane \in L.lanes : \A i \in 1 .. Len(lane.rows) : Target(Dev, L, lane, i) # d) =>
                  Dev'.kv[L.layer][d] = Dev.kv[L.layer][d]
  <2>1. cache'[L.layer][d] =
          IF Landing(L, d) = {} THEN cache[L.layer][d]
          ELSE Row(First(rank, Landing(L, d)))
    BY <1>5, <1>6 DEF CacheType
  <2>2. ASSUME NEW p \in Landing(L, d)
        PROVE  /\ p = <<p[1], p[2]>> /\ p[1] \in L.lanes /\ p[2] \in 1 .. Len(p[1].rows)
               /\ Target(Dev, L, p[1], p[2]) = d
    <3>1. p \in L.lanes \X (1 .. Ctx) /\ p[2] <= Len(p[1].rows) /\ KvRowOf(L, p[1], p[2]) = d
      BY DEF Landing
    <3>2. p = <<p[1], p[2]>> /\ p[1] \in L.lanes /\ p[2] \in 1 .. Ctx
      BY <3>1
    <3>3. Len(p[1].rows) \in 1 .. Ctx
      BY <1>5, <3>2 DEF Lanes
    <3>4. p[2] \in 1 .. Len(p[1].rows)
      BY <3>1, <3>2, <3>3, SizesAreNat
    <3> QED BY <1>4, <3>1, <3>2, <3>4
  <2>3. ASSUME NEW lane \in L.lanes, NEW i \in 1 .. Len(lane.rows), Target(Dev, L, lane, i) = d
        PROVE  Dev'.kv[L.layer][d] = Term("kv", L.layer, <<Dev.buf["kb_ln"][lane.rows[i]],
                                                          Dev.buf["vb"][lane.rows[i]]>>)
    <3>1. i \in 1 .. Ctx /\ i <= Len(lane.rows)
      BY <1>5, SizesAreNat DEF Lanes
    <3>2. <<lane, i>> \in Landing(L, d)
      BY <1>4, <2>3, <3>1 DEF Landing
    <3>3. \A p \in Landing(L, d) : p = <<lane, i>>
      BY <1>5, <2>2, <2>3 DEF Apart
    <3>4. rank[<<lane, i>>] <= rank[<<lane, i>>]
      <4>1. lane.seq \in Int /\ <<lane, i>> \in L.lanes \X (1 .. Ctx)
        BY <1>5, <3>1 DEF Lanes, Seqs
      <4>2. PICK x : x = rank[<<lane, i>>]
        OBVIOUS
      <4>3. x \in {lane.seq, -lane.seq}
        BY <1>7, <4>1, <4>2
      <4>4. x \in Int
        BY <4>1, <4>3
      <4> QED BY <4>2, <4>4
    <3>5. First(rank, Landing(L, d)) = <<lane, i>>
      BY <3>2, <3>3, <3>4 DEF First
    <3>6. cache'[L.layer][d] = Row(<<lane, i>>)
      BY <2>1, <3>2, <3>5
    <3> QED BY <3>6, DevFields DEF Row
  <2>4. ASSUME \A lane \in L.lanes : \A i \in 1 .. Len(lane.rows) : Target(Dev, L, lane, i) # d
        PROVE  Dev'.kv[L.layer][d] = Dev.kv[L.layer][d]
    <3>1. Landing(L, d) = {}
      BY <2>2, <2>4
    <3> QED BY <2>1, <3>1, DevFields
  <2> QED BY <2>3, <2>4
<1> QED BY <1>1, <1>2, <1>3, <1>5 DEF AppendEffect

\* What the host does between launches: the counts, and their copy on the device.
LEMMA HostRun ==
    ASSUME NEW L, CountType, RunSync(L) \/ RunKeys(L)
    PROVE  \/ L.kind = "sync" /\ SyncEffect(Dev, L, Dev')
           \/ L.kind = "keys" /\ KeysEffect(Dev, L, Dev')
<1>1. CASE RunSync(L)
  <2>1. /\ L.kind = "sync" /\ positions' = [positions EXCEPT ![L.layer] = keys[L.layer]]
        /\ UNCHANGED <<buf, convHist, recur, cache, keys, staged>>
    BY <1>1 DEF RunSync
  <2>2. L.layer \in Layer => positions'[L.layer] = keys[L.layer]
    BY <2>1 DEF CountType, Counts
  <2> QED BY <2>1, <2>2, DevFields DEF SyncEffect, SameBut
<1>2. CASE RunKeys(L)
  <2>1. /\ L.kind = "keys" /\ keys' = [keys EXCEPT ![L.layer] = L.keys]
        /\ UNCHANGED <<buf, convHist, recur, cache, positions, staged>>
    BY <1>2 DEF RunKeys
  <2>2. /\ L.layer \in Layer => keys'[L.layer] = L.keys
        /\ \A m \in Layer \ {L.layer} : keys'[m] = keys[m]
    BY <2>1 DEF CountType, Counts
  <2> QED BY <2>1, <2>2, DevFields DEF KeysEffect, SameBut
<1> QED BY <1>1, <1>2

\* The staging of a projection: its buffers, the matrix, the activation, the products.
LEMMA GrowRun ==
    ASSUME NEW L, StagedType, RunGrow(L), L.actCells \in Nat
    PROVE  L.kind = "grow" /\ GrowEffect(Dev, L, Dev')
<1>1. /\ L.kind = "grow"
      /\ staged'.act = [p \in Part |->
            IF p \in L.parts /\ Outgrown(staged.act[p].cells, L.actCells)
            THEN [cells |-> L.actCells, rows |-> [r \in BufRow |-> Stale]]
            ELSE staged.act[p]]
      /\ UNCHANGED <<buf, convHist, recur, cache, positions, keys>>
  BY DEF RunGrow
<1>2. ASSUME NEW p \in Part
      PROVE  /\ staged.act[p].cells >= L.actCells => staged'.act[p] = staged.act[p]
             /\ p \in L.parts => staged'.act[p].cells >= L.actCells
  <2>1. staged.act[p].cells \in Nat
    BY DEF StagedType
  <2>2. staged'.act[p] = IF p \in L.parts /\ Outgrown(staged.act[p].cells, L.actCells)
                         THEN [cells |-> L.actCells, rows |-> [r \in BufRow |-> Stale]]
                         ELSE staged.act[p]
    BY <1>1
  <2>3. staged.act[p].cells >= L.actCells <=> ~Outgrown(staged.act[p].cells, L.actCells)
    BY <2>1 DEF Outgrown
  <2> QED BY <2>2, <2>3
<1>3. SameBut(Dev, Dev', {}) /\ SameState(Dev, Dev')
  BY <1>1, DevFields DEF SameBut, SameState
<1> QED BY <1>1, <1>2, <1>3, DevFields DEF GrowEffect

LEMMA DequantRun ==
    ASSUME NEW L, StagedType, RunDequant(L)
    PROVE  L.kind = "dequant" /\ DequantEffect(Dev, L, Dev')
<1>1. /\ L.kind = "dequant"
      /\ staged' = [staged EXCEPT !.w.val = IF Reach(L.cells) >= L.cells THEN L.w ELSE Stale]
      /\ UNCHANGED <<buf, convHist, recur, cache, positions, keys>>
  BY DEF RunDequant
<1>2. /\ staged'.act = staged.act
      /\ L.cells \in Nat => staged'.w.val = L.w
  BY <1>1 DEF StagedType, Reach
<1>3. SameBut(Dev, Dev', {}) /\ SameState(Dev, Dev')
  BY <1>1, DevFields DEF SameBut, SameState
<1> QED BY <1>1, <1>2, <1>3, DevFields DEF DequantEffect

\* A row below t of t rows of k elements is reached by a launch over all of them.
LEMMA RowReached ==
    ASSUME NEW t \in Nat, NEW k \in Nat, NEW r \in Nat, r < t
    PROVE  (r + 1) * k <= Reach(t * k)
<1>1. PICK d \in Nat : t = r + 1 + d
  <2>1. t - (r + 1) \in Nat /\ t = r + 1 + (t - (r + 1))
    OBVIOUS
  <2> QED BY <2>1
<1>2. t * k = (r + 1) * k + d * k
  BY <1>1
<1>3. d * k \in Nat /\ (r + 1) * k \in Nat
  OBVIOUS
<1>4. PICK x, y : x = (r + 1) * k /\ y = d * k
  OBVIOUS
<1> QED BY <1>2, <1>3, <1>4 DEF Reach

LEMMA CastRun ==
    ASSUME NEW L, StagedType, RunCast(L)
    PROVE  L.kind = "cast" /\ CastEffect(Dev, L, Dev')
<1> DEFINE cast(p) == [r \in BufRow |->
                          IF r < L.rows /\ (r + 1) * L.k <= Reach(L.rows * L.k)
                          THEN Term("part", p, <<L.parts, buf[L.x][r]>>) ELSE staged.act[p].rows[r]]
<1>1. /\ L.kind = "cast"
      /\ staged' = [staged EXCEPT !.act =
           [p \in Part |-> IF p \in L.parts THEN [staged.act[p] EXCEPT !.rows = cast(p)]
                           ELSE staged.act[p]]]
      /\ UNCHANGED <<buf, convHist, recur, cache, positions, keys>>
  BY DEF RunCast
<1>2. staged'.w = staged.w
  BY <1>1 DEF StagedType
<1>3. ASSUME NEW p \in L.parts \intersect Part
      PROVE  staged'.act[p].cells = staged.act[p].cells /\ staged'.act[p].rows = cast(p)
  <2>1. staged'.act[p] = [staged.act[p] EXCEPT !.rows = cast(p)]
    <3> HIDE DEF cast
    <3> QED BY <1>1, <1>3 DEF StagedType
  <2>2. DOMAIN staged.act[p] = {"cells", "rows"}
    BY <1>3 DEF StagedType
  <2> HIDE DEF cast
  <2> QED BY <2>1, <2>2
<1>4. ASSUME NEW p \in L.parts \intersect Part, L.rows \in Nat, L.k \in Nat, NEW r \in BufRow, r < L.rows
      PROVE  staged'.act[p].rows[r] = Term("part", p, <<L.parts, buf[L.x][r]>>)
  <2>1. r \in Nat
    BY SizesAreNat DEF BufRow
  <2>2. (r + 1) * L.k <= Reach(L.rows * L.k)
    BY <1>4, <2>1, RowReached
  <2> QED BY <1>3, <1>4, <2>2
<1>5. SameBut(Dev, Dev', {}) /\ SameState(Dev, Dev')
  BY <1>1, DevFields DEF SameBut, SameState
<1> HIDE DEF cast
<1> QED BY <1>1, <1>2, <1>3, <1>4, <1>5, DevFields DEF CastEffect

LEMMA GemmRun ==
    ASSUME NEW L, BufType, RunGemm(L)
    PROVE  L.kind = "gemm" /\ GemmEffect(Dev, L, Dev')
<1> DEFINE value(r) ==
        Product(staged.w.val,
                (IF L.beta = 1 /\ buf[L.y][r] # Stale THEN buf[L.y][r][3][1] ELSE {})
                  \union {staged.act[L.part].rows[r]}, L.whole, buf[L.x][r])
<1>1. /\ L.kind = "gemm"
      /\ buf' = [buf EXCEPT ![L.y] = [r \in BufRow |-> IF r < L.rows THEN value(r) ELSE buf[L.y][r]]]
      /\ UNCHANGED <<convHist, recur, cache, positions, keys, staged>>
  BY DEF RunGemm
<1>2. ASSUME L.y \in Buffer, NEW r \in BufRow, r < L.rows
      PROVE  buf'[L.y][r] = value(r)
  <2> HIDE DEF value
  <2> QED BY <1>1, <1>2 DEF BufType
<1>3. ASSUME NEW r
      PROVE  value(r) = Product(Dev.staged.w.val, Sum(Dev, L, r) \union {Dev.staged.act[L.part].rows[r]},
                                L.whole, Dev.buf[L.x][r])
  BY DevFields DEF Sum
<1>4. Keeps(Dev, Dev', {L.y})
  <2> HIDE DEF value
  <2> QED BY <1>1, DevFields DEF Keeps, SameBut, SameState, BufType
<1>5. L.y \in Buffer =>
        \A r \in BufRow : r < L.rows =>
          Dev'.buf[L.y][r] = Product(Dev.staged.w.val,
                                     Sum(Dev, L, r) \union {Dev.staged.act[L.part].rows[r]},
                                     L.whole, Dev.buf[L.x][r])
  <2> HIDE DEF value
  <2> QED BY <1>2, <1>3, DevFields
<1> HIDE DEF value
<1> QED BY <1>1, <1>4, <1>5 DEF GemmEffect

\* Every launch that runs has the effect of its kind.
LEMMA RunEffect ==
    ASSUME NEW L, TypeInv, DOMAIN recur = Layer, L.kind = "grow" => L.actCells \in Nat, Run(L)
    PROVE  Effect(Dev, L, Dev')
<1>1. BufType /\ CacheType /\ CountType /\ StagedType
  BY DEF TypeInv
<1>2. CASE RunRows(L) \/ RunUpload(L) \/ RunCopy(L)
  <2>1. \/ L.kind = "rows" /\ RowsEffect(Dev, L, Dev')
        \/ L.kind = "upload" /\ UploadEffect(Dev, L, Dev')
        \/ L.kind = "copy" /\ CopyEffect(Dev, L, Dev')
    BY <1>1, <1>2, RowsRun, UploadRun, CopyRun
  <2> QED BY <2>1, EffectOfKind
<1>3. CASE RunConv(L) \/ RunRule(L) \/ RunAppend(L) \/ RunAttend(L)
  <2>1. \/ L.kind = "conv" /\ ConvEffect(Dev, L, Dev')
        \/ L.kind = "rule" /\ RuleEffect(Dev, L, Dev')
        \/ L.kind = "append" /\ AppendEffect(Dev, L, Dev')
        \/ L.kind = "attend" /\ AttendEffect(Dev, L, Dev')
    BY <1>1, <1>3, ConvRun, RuleRun, AppendRun, AttendRun
  <2> QED BY <2>1, EffectOfKind
<1>4. CASE RunSync(L) \/ RunKeys(L)
  <2>1. \/ L.kind = "sync" /\ SyncEffect(Dev, L, Dev')
        \/ L.kind = "keys" /\ KeysEffect(Dev, L, Dev')
    BY <1>1, <1>4, HostRun
  <2> QED BY <2>1, EffectOfKind
<1>5. CASE RunGrow(L) \/ RunDequant(L) \/ RunCast(L) \/ RunGemm(L)
  <2>1. RunGrow(L) => L.actCells \in Nat
    BY DEF RunGrow
  <2>2. \/ L.kind = "grow" /\ GrowEffect(Dev, L, Dev')
        \/ L.kind = "dequant" /\ DequantEffect(Dev, L, Dev')
        \/ L.kind = "cast" /\ CastEffect(Dev, L, Dev')
        \/ L.kind = "gemm" /\ GemmEffect(Dev, L, Dev')
    BY <1>1, <1>5, <2>1, GrowRun, DequantRun, CastRun, GemmRun
  <2> QED BY <2>2, EffectOfKind
<1> QED BY <1>2, <1>3, <1>4, <1>5 DEF Run

-----------------------------------------------------------------------------
(* What a stream of launches does: the device before and after it.           *)

Leads(D, sq, E) ==
    \E run : /\ run[0] = D /\ run[Len(sq)] = E
             /\ \A j \in 1 .. Len(sq) : Effect(run[j - 1], sq[j], run[j])

\* An empty stream leads nowhere.
LEMMA LeadsNone ==
    ASSUME NEW D
    PROVE  Leads(D, << >>, D)
<1>1. PICK run : run = [j \in {0} |-> D]
  OBVIOUS
<1>2. run[0] = D /\ Len(<< >>) = 0 /\ 1 .. 0 = {}
  BY <1>1
<1>3. /\ run[0] = D /\ run[Len(<< >>)] = D
      /\ \A j \in 1 .. Len(<< >>) : Effect(run[j - 1], << >>[j], run[j])
  BY <1>2
<1> QED BY <1>3 DEF Leads

\* A stream led by the launch that has just run.
LEMMA LeadsOn ==
    ASSUME NEW D, NEW E, NEW F, NEW sq, IsSeq(sq), sq # << >>,
           Effect(D, Head(sq), E), Leads(E, Tail(sq), F)
    PROVE  Leads(D, sq, F)
<1>1. PICK run : /\ run[0] = E /\ run[Len(Tail(sq))] = F
                 /\ \A j \in 1 .. Len(Tail(sq)) : Effect(run[j - 1], Tail(sq)[j], run[j])
  BY DEF Leads
<1>2. PICK S : sq \in Seq(S)
  BY DEF IsSeq
<1>3. /\ Len(sq) \in Nat \ {0} /\ Len(Tail(sq)) = Len(sq) - 1 /\ Head(sq) = sq[1]
      /\ \A j \in 1 .. Len(sq) - 1 : Tail(sq)[j] = sq[j + 1]
  BY <1>2
<1> DEFINE g == [j \in 0 .. Len(sq) |-> IF j = 0 THEN D ELSE run[j - 1]]
<1>4. g[0] = D /\ \A j \in 1 .. Len(sq) : g[j] = run[j - 1]
  BY <1>3
<1> HIDE DEF g
<1>5. g[Len(sq)] = F
  BY <1>1, <1>3, <1>4
<1>6. ASSUME NEW j \in 1 .. Len(sq) PROVE Effect(g[j - 1], sq[j], g[j])
  <2>1. CASE j = 1
    <3>1. g[j - 1] = D /\ g[j] = E /\ sq[j] = Head(sq)
      BY <1>1, <1>3, <1>4, <2>1
    <3> QED BY <3>1
  <2>2. CASE j # 1
    <3>1. j - 1 \in 1 .. Len(Tail(sq)) /\ j - 1 \in 1 .. Len(sq) /\ (j - 1) + 1 = j
      BY <1>3, <2>2
    <3>2. g[j - 1] = run[(j - 1) - 1] /\ g[j] = run[j - 1] /\ sq[j] = Tail(sq)[j - 1]
      BY <1>3, <1>4, <3>1
    <3> QED BY <1>1, <3>1, <3>2
  <2> QED BY <2>1, <2>2
<1> QED BY <1>4, <1>5, <1>6 DEF Leads

\* A stream in two parts, and one of a few launches.
LEMMA LeadsConcat ==
    ASSUME NEW D, NEW E, NEW s, NEW t, IsSeq(s), IsSeq(t), Leads(D, s \o t, E)
    PROVE  \E M : Leads(D, s, M) /\ Leads(M, t, E)
<1>1. PICK run : /\ run[0] = D /\ run[Len(s \o t)] = E
                 /\ \A j \in 1 .. Len(s \o t) : Effect(run[j - 1], (s \o t)[j], run[j])
  BY DEF Leads
<1>2. /\ Len(s) \in Nat /\ Len(t) \in Nat /\ Len(s \o t) = Len(s) + Len(t)
      /\ \A i \in 1 .. Len(s) : (s \o t)[i] = s[i]
      /\ \A i \in 1 .. Len(t) : (s \o t)[Len(s) + i] = t[i]
  <2>1. PICK S : s \in Seq(S)
    BY DEF IsSeq
  <2>2. PICK T : t \in Seq(T)
    BY DEF IsSeq
  <2>3. s \in Seq(S \union T) /\ t \in Seq(S \union T)
    BY <2>1, <2>2
  <2>4. Len(s \o t) = Len(s) + Len(t)
    BY <2>3
  <2> QED BY <2>4, ConcatSeq
<1>3. Leads(D, s, run[Len(s)])
  <2>1. \A j \in 1 .. Len(s) : Effect(run[j - 1], s[j], run[j])
    <3>1. \A j \in 1 .. Len(s) : j \in 1 .. Len(s \o t)
      BY <1>2
    <3> QED BY <1>1, <1>2, <3>1
  <2> QED BY <1>1, <2>1 DEF Leads
<1>4. Leads(run[Len(s)], t, E)
  <2> DEFINE g == [j \in 0 .. Len(t) |-> run[Len(s) + j]]
  <2>1. \A j \in 0 .. Len(t) : g[j] = run[Len(s) + j]
    OBVIOUS
  <2> HIDE DEF g
  <2>2. g[0] = run[Len(s)] /\ g[Len(t)] = E
    <3>1. 0 \in 0 .. Len(t) /\ Len(t) \in 0 .. Len(t) /\ Len(s) + 0 = Len(s)
      BY <1>2
    <3> QED BY <1>1, <1>2, <2>1, <3>1
  <2>3. ASSUME NEW j \in 1 .. Len(t) PROVE Effect(g[j - 1], t[j], g[j])
    <3>1. /\ j \in 0 .. Len(t) /\ j - 1 \in 0 .. Len(t) /\ Len(s) + j \in 1 .. Len(s \o t)
          /\ Len(s) + (j - 1) = (Len(s) + j) - 1
      BY <1>2
    <3>2. g[j] = run[Len(s) + j] /\ g[j - 1] = run[(Len(s) + j) - 1] /\ (s \o t)[Len(s) + j] = t[j]
      BY <1>2, <2>1, <3>1
    <3>3. Effect(run[(Len(s) + j) - 1], (s \o t)[Len(s) + j], run[Len(s) + j])
      BY <1>1, <3>1
    <3> QED BY <3>2, <3>3
  <2> QED BY <2>2, <2>3 DEF Leads
<1> QED BY <1>3, <1>4

LEMMA LeadsNothing ==
    ASSUME NEW D, NEW E, Leads(D, << >>, E)
    PROVE  D = E
<1>1. Len(<< >>) = 0
  OBVIOUS
<1> QED BY <1>1 DEF Leads

LEMMA LeadsOne ==
    ASSUME NEW D, NEW E, NEW a, Leads(D, <<a>>, E)
    PROVE  Effect(D, a, E)
<1>1. Len(<<a>>) = 1 /\ <<a>>[1] = a /\ 1 \in 1 .. 1 /\ 1 - 1 = 0
  OBVIOUS
<1> QED BY <1>1 DEF Leads

LEMMA LeadsTwo ==
    ASSUME NEW D, NEW E, NEW a, NEW b, Leads(D, <<a, b>>, E)
    PROVE  \E M : Effect(D, a, M) /\ Effect(M, b, E)
<1> DEFINE sq == <<a, b>>
<1>1. Len(sq) = 2 /\ sq[1] = a /\ sq[2] = b
  OBVIOUS
<1>2. 1 \in 1 .. 2 /\ 2 \in 1 .. 2 /\ 1 - 1 = 0 /\ 2 - 1 = 1
  OBVIOUS
<1> HIDE DEF sq
<1>3. PICK run : run[0] = D /\ run[2] = E /\ \A j \in 1 .. 2 : Effect(run[j - 1], sq[j], run[j])
  BY <1>1 DEF Leads, sq
<1>4. Effect(run[0], sq[1], run[1]) /\ Effect(run[1], sq[2], run[2])
  BY <1>2, <1>3
<1> QED BY <1>1, <1>3, <1>4

LEMMA LeadsThree ==
    ASSUME NEW D, NEW E, NEW a, NEW b, NEW c, Leads(D, <<a, b, c>>, E)
    PROVE  \E M, N3 : Effect(D, a, M) /\ Effect(M, b, N3) /\ Effect(N3, c, E)
<1> DEFINE sq == <<a, b, c>>
<1>1. Len(sq) = 3 /\ sq[1] = a /\ sq[2] = b /\ sq[3] = c
  OBVIOUS
<1>2. /\ 1 \in 1 .. 3 /\ 2 \in 1 .. 3 /\ 3 \in 1 .. 3
      /\ 1 - 1 = 0 /\ 2 - 1 = 1 /\ 3 - 1 = 2
  OBVIOUS
<1> HIDE DEF sq
<1>3. PICK run : run[0] = D /\ run[3] = E /\ \A j \in 1 .. 3 : Effect(run[j - 1], sq[j], run[j])
  BY <1>1 DEF Leads, sq
<1>4. /\ Effect(run[0], sq[1], run[1]) /\ Effect(run[1], sq[2], run[2])
      /\ Effect(run[2], sq[3], run[3])
  BY <1>2, <1>3
<1> QED BY <1>1, <1>3, <1>4

LEMMA LeadsFour ==
    ASSUME NEW D, NEW E, NEW a, NEW b, NEW c, NEW d, Leads(D, <<a, b, c, d>>, E)
    PROVE  \E D1, D2, D3 : Effect(D, a, D1) /\ Effect(D1, b, D2) /\ Effect(D2, c, D3) /\ Effect(D3, d, E)
<1> DEFINE sq == <<a, b, c, d>>
<1>1. Len(sq) = 4 /\ sq[1] = a /\ sq[2] = b /\ sq[3] = c /\ sq[4] = d
  OBVIOUS
<1>2. /\ 1 \in 1 .. 4 /\ 2 \in 1 .. 4 /\ 3 \in 1 .. 4 /\ 4 \in 1 .. 4
      /\ 1 - 1 = 0 /\ 2 - 1 = 1 /\ 3 - 1 = 2 /\ 4 - 1 = 3
  OBVIOUS
<1> HIDE DEF sq
<1>3. PICK run : run[0] = D /\ run[4] = E /\ \A j \in 1 .. 4 : Effect(run[j - 1], sq[j], run[j])
  BY <1>1 DEF Leads, sq
<1>4. /\ Effect(run[0], sq[1], run[1]) /\ Effect(run[1], sq[2], run[2])
      /\ Effect(run[2], sq[3], run[3]) /\ Effect(run[3], sq[4], run[4])
  BY <1>2, <1>3
<1> QED BY <1>1, <1>3, <1>4

LEMMA LeadsSix ==
    ASSUME NEW D, NEW E, NEW a, NEW b, NEW c, NEW d, NEW e, NEW f, Leads(D, <<a, b, c, d, e, f>>, E)
    PROVE  \E D1, D2, D3, D4, D5 :
             /\ Effect(D, a, D1) /\ Effect(D1, b, D2) /\ Effect(D2, c, D3)
             /\ Effect(D3, d, D4) /\ Effect(D4, e, D5) /\ Effect(D5, f, E)
<1> DEFINE sq == <<a, b, c, d, e, f>>
<1>1. Len(sq) = 6 /\ sq[1] = a /\ sq[2] = b /\ sq[3] = c /\ sq[4] = d /\ sq[5] = e /\ sq[6] = f
  OBVIOUS
<1>2. /\ 1 \in 1 .. 6 /\ 2 \in 1 .. 6 /\ 3 \in 1 .. 6 /\ 4 \in 1 .. 6 /\ 5 \in 1 .. 6 /\ 6 \in 1 .. 6
      /\ 1 - 1 = 0 /\ 2 - 1 = 1 /\ 3 - 1 = 2 /\ 4 - 1 = 3 /\ 5 - 1 = 4 /\ 6 - 1 = 5
  OBVIOUS
<1> HIDE DEF sq
<1>3. PICK run : run[0] = D /\ run[6] = E /\ \A j \in 1 .. 6 : Effect(run[j - 1], sq[j], run[j])
  BY <1>1 DEF Leads, sq
<1>4. /\ Effect(run[0], sq[1], run[1]) /\ Effect(run[1], sq[2], run[2])
      /\ Effect(run[2], sq[3], run[3]) /\ Effect(run[3], sq[4], run[4])
      /\ Effect(run[4], sq[5], run[5]) /\ Effect(run[5], sq[6], run[6])
  BY <1>2, <1>3
<1> QED BY <1>1, <1>3, <1>4

-----------------------------------------------------------------------------
(* Row-wise launches and projections.                                        *)

\* Only the buffers `outs` and the staging may change.
Leaves(D, E, outs) == SameBut(D, E, outs) /\ SameState(D, E)

\* Changes add up.
LEMMA LeavesOn ==
    ASSUME NEW D, NEW E, NEW F, NEW A, NEW B, Leaves(D, E, A), Leaves(E, F, B)
    PROVE  Leaves(D, F, A \union B)
BY DEF Leaves, SameBut, SameState

\* What a row-wise launch with one output stores, and that it stores nothing else.
LEMMA RowsKept ==
    ASSUME NEW D, NEW L, NEW E, Effect(D, L, E), L.kind = "rows",
           NEW out, NEW op, NEW w, NEW ins, out \in Buffer, L.stores = {Store(out, op, w, ins)}
    PROVE  /\ Leaves(D, E, {out}) /\ E.staged = D.staged
           /\ \A r \in BufRow : r < L.rows =>
                E.buf[out][r] = RowTerm(D, op, w, ins, r)
<1> DEFINE s == Store(out, op, w, ins)
<1>1. s.out = out /\ s.op = op /\ s.w = w /\ s.ins = ins
  BY DEF Store
<1> HIDE DEF s
<1>2. RowsEffect(D, L, E) /\ L.stores = {s}
  BY DEF Effect, s
<1>3. {v.out : v \in L.stores} = {out}
  BY <1>1, <1>2
<1>4. Keeps(D, E, {out})
  BY <1>2, <1>3 DEF RowsEffect
<1>5. \A r \in BufRow : r < L.rows => E.buf[s.out][r] = RowTerm(D, s.op, s.w, s.ins, r)
  <2>1. s \in L.stores /\ s.out \in Buffer /\ \A v \in L.stores : v.out = s.out => v = s
    BY <1>1, <1>2
  <2> QED BY <1>2, <2>1 DEF RowsEffect
<1>6. Leaves(D, E, {out}) /\ E.staged = D.staged
  BY <1>4 DEF Keeps, Leaves
<1> QED BY <1>1, <1>5, <1>6

\* A row-wise launch of one, two or three inputs.
Maps1(D, E, out, op, w, x, t) ==
    \A r \in BufRow : r < t => E.buf[out][r] = Term(op, w, <<D.buf[x][r]>>)
Maps2(D, E, out, op, w, x, z, t) ==
    \A r \in BufRow : r < t => E.buf[out][r] = Term(op, w, <<D.buf[x][r], D.buf[z][r]>>)
Maps3(D, E, out, op, w, x, z, u, t) ==
    \A r \in BufRow : r < t => E.buf[out][r] = Term(op, w, <<D.buf[x][r], D.buf[z][r], D.buf[u][r]>>)

\* The same with one input and with two.
LEMMA RowOfOne ==
    ASSUME NEW D, NEW L, NEW E, Effect(D, L, E), L.kind = "rows",
           NEW out, NEW op, NEW w, NEW x, out \in Buffer, L.stores = {Store(out, op, w, <<x>>)}
    PROVE  /\ Leaves(D, E, {out}) /\ E.staged = D.staged
           /\ Maps1(D, E, out, op, w, x, L.rows)
<1>1. PICK ins : ins = <<x>>
  OBVIOUS
<1>2. /\ Leaves(D, E, {out}) /\ E.staged = D.staged
      /\ \A r \in BufRow : r < L.rows =>
           E.buf[out][r] = RowTerm(D, op, w, ins, r)
  BY <1>1, RowsKept
<1>3. ASSUME NEW r PROVE RowTerm(D, op, w, ins, r) = Term(op, w, <<D.buf[x][r]>>)
  BY <1>1 DEF RowTerm
<1> QED BY <1>2, <1>3 DEF Maps1

LEMMA RowOfTwo ==
    ASSUME NEW D, NEW L, NEW E, Effect(D, L, E), L.kind = "rows",
           NEW out, NEW op, NEW w, NEW x, NEW z, out \in Buffer,
           L.stores = {Store(out, op, w, <<x, z>>)}
    PROVE  /\ Leaves(D, E, {out}) /\ E.staged = D.staged
           /\ Maps2(D, E, out, op, w, x, z, L.rows)
<1>1. PICK ins : ins = <<x, z>>
  OBVIOUS
<1>2. /\ Leaves(D, E, {out}) /\ E.staged = D.staged
      /\ \A r \in BufRow : r < L.rows =>
           E.buf[out][r] = RowTerm(D, op, w, ins, r)
  BY <1>1, RowsKept
<1>3. ASSUME NEW r PROVE RowTerm(D, op, w, ins, r) = Term(op, w, <<D.buf[x][r], D.buf[z][r]>>)
  BY <1>1 DEF RowTerm
<1> QED BY <1>2, <1>3 DEF Maps2

\* The first t rows of y are the projection of those of x, and only y has changed.
Projected(D, E, w, x, y, t) == Leaves(D, E, {y}) /\ Maps1(D, E, y, "linear", w, x, t)

\* Either GEMV is one row-wise launch.
LEMMA ForwardIsRows ==
    ASSUME NEW w, NEW x, NEW y, NEW t
    PROVE  \E L : /\ Forward(w, x, y, t) = <<L>>
                  /\ L.kind = "rows" /\ L.rows = t /\ L.stores = {Store(y, "linear", w, <<x>>)}
<1>1. PICK st : st = {Store(y, "linear", w, <<x>>)}
  OBVIOUS
<1>2. \E c : Forward(w, x, y, t) = <<Rows(st, t, c)>>
  <2>1. Gemv(w, x, y, t) = Rows(st, t, Sizes) /\ Bf16Gemv(w, x, y, t) = Rows(st, t, Unchecked)
    BY <1>1 DEF Gemv, Bf16Gemv
  <2>2. Forward(w, x, y, t) = <<Gemv(w, x, y, t)>> \/ Forward(w, x, y, t) = <<Bf16Gemv(w, x, y, t)>>
    BY Zenon DEF Forward
  <2> QED BY <2>1, <2>2
<1>3. PICK c : Forward(w, x, y, t) = <<Rows(st, t, c)>>
  BY <1>2
<1>4. PICK L : L = Rows(st, t, c)
  OBVIOUS
<1>5. L.kind = "rows" /\ L.rows = t /\ L.stores = st
  BY <1>4 DEF Rows
<1> QED BY <1>1, <1>3, <1>4, <1>5

LEMMA ForwardIsOne ==
    ASSUME NEW w, NEW x, NEW y, NEW t
    PROVE  \E L : Forward(w, x, y, t) = <<L>>
<1>1. PICK L : /\ Forward(w, x, y, t) = <<L>>
               /\ L.kind = "rows" /\ L.rows = t /\ L.stores = {Store(y, "linear", w, <<x>>)}
  BY ForwardIsRows
<1> QED BY <1>1

\* A GEMV projects its rows.
LEMMA ForwardProjects ==
    ASSUME NEW D, NEW E, NEW w, NEW x, NEW y, NEW t, y \in Buffer, Leads(D, Forward(w, x, y, t), E)
    PROVE  Projected(D, E, w, x, y, t)
<1>3. PICK L : /\ Forward(w, x, y, t) = <<L>>
               /\ L.kind = "rows" /\ L.rows = t /\ L.stores = {Store(y, "linear", w, <<x>>)}
  BY ForwardIsRows
<1>4. Effect(D, L, E)
  BY <1>3, LeadsOne
<1>5. Leaves(D, E, {y}) /\ Maps1(D, E, y, "linear", w, x, L.rows)
  BY <1>3, <1>4, RowOfOne
<1> QED BY <1>3, <1>5 DEF Projected

\* The parts of one activation, and the sum of those multiplied so far.
PartSum(Q, whole, v) == {Term("part", q, <<whole, v>>) : q \in Q}
SoFar(M, w, Q, whole, x, y, t) ==
    \A r \in BufRow : r < t => M.buf[y][r] = Term("partial", w, <<PartSum(Q, whole, M.buf[x][r])>>)
CastAs(M, whole, x, t) ==
    \A p \in whole : \A r \in BufRow : r < t =>
      M.staged.act[p].rows[r] = Term("part", p, <<whole, M.buf[x][r]>>)

\* One part more of a sum, and when a sum is whole.
LEMMA PartSums ==
    ASSUME NEW Q, NEW p, NEW whole, NEW v
    PROVE  PartSum(Q, whole, v) \union {Term("part", p, <<whole, v>>)} = PartSum(Q \union {p}, whole, v)
BY DEF PartSum

LEMMA PartSumTells ==
    ASSUME NEW Q, NEW whole, NEW v, PartSum(Q, whole, v) = PartSum(whole, whole, v)
    PROVE  Q = whole
<1>1. ASSUME NEW A, NEW B, PartSum(A, whole, v) = PartSum(B, whole, v), NEW q \in A
      PROVE  q \in B
  <2>1. Term("part", q, <<whole, v>>) \in PartSum(B, whole, v)
    BY <1>1 DEF PartSum
  <2>2. PICK o \in B : Term("part", q, <<whole, v>>) = Term("part", o, <<whole, v>>)
    BY <2>1 DEF PartSum
  <2>3. q = o
    BY <2>2, TermTells
  <2> QED BY <2>3
<1> QED BY <1>1

\* A gemm that adds its part to the sum of the parts Q, and what it leaves.
Adds(M, L, w, Q) ==
    /\ L.kind = "gemm" /\ L.part \in L.whole /\ L.x \in Buffer /\ L.y \in Buffer /\ L.x # L.y
    /\ M.staged.w.val = w /\ CastAs(M, L.whole, L.x, L.rows)
    /\ \/ Q = {} /\ L.beta = 0
       \/ L.beta = 1 /\ SoFar(M, w, Q, L.whole, L.x, L.y, L.rows)
Added(M, L, E, w, Q) ==
    /\ Leaves(M, E, {L.y}) /\ E.staged = M.staged /\ CastAs(E, L.whole, L.x, L.rows)
    /\ Q \union {L.part} = L.whole => Maps1(M, E, L.y, "linear", w, L.x, L.rows)
    /\ Q \union {L.part} # L.whole => SoFar(E, w, Q \union {L.part}, L.whole, L.x, L.y, L.rows)

\* A gemm that finds its operands staged leaves the sum with its part.
LEMMA GemmReady ==
    ASSUME NEW M, NEW L, NEW E, NEW w, NEW Q, Effect(M, L, E), Adds(M, L, w, Q)
    PROVE  Added(M, L, E, w, Q)
<1> DEFINE p == L.part
           whole == L.whole
           x == L.x
           y == L.y
           t == L.rows
<1>1. p = L.part /\ whole = L.whole /\ x = L.x /\ y = L.y /\ t = L.rows
  OBVIOUS
<1> HIDE DEF p, whole, x, y, t
<1>2. /\ L.kind = "gemm" /\ p \in whole /\ x \in Buffer /\ y \in Buffer /\ x # y
      /\ M.staged.w.val = w /\ CastAs(M, whole, x, t)
      /\ (Q = {} /\ L.beta = 0) \/ (L.beta = 1 /\ SoFar(M, w, Q, whole, x, y, t))
  BY <1>1 DEF Adds
<1>3. GemmEffect(M, L, E)
  BY <1>1, <1>2 DEF Effect
<1>4. Leaves(M, E, {y}) /\ E.staged = M.staged
  BY <1>1, <1>2, <1>3 DEF GemmEffect, Keeps, Leaves
<1>5. E.buf[x] = M.buf[x]
  BY <1>2, <1>4 DEF Leaves, SameBut
<1>6. ASSUME NEW r \in BufRow, r < t
      PROVE  /\ Q \union {p} = whole => E.buf[y][r] = Term("linear", w, <<M.buf[x][r]>>)
             /\ Q \union {p} # whole =>
                  E.buf[y][r] = Term("partial", w, <<PartSum(Q \union {p}, whole, M.buf[x][r])>>)
  <2> DEFINE v == M.buf[x][r]
  <2>1. E.buf[y][r] = Product(w, Sum(M, L, r) \union {M.staged.act[p].rows[r]}, whole, v)
    BY <1>1, <1>2, <1>3, <1>6 DEF GemmEffect
  <2>2. M.staged.act[p].rows[r] = Term("part", p, <<whole, v>>)
    BY <1>2, <1>6 DEF CastAs
  <2>3. Sum(M, L, r) = PartSum(Q, whole, v)
    <3>1. CASE Q = {} /\ L.beta = 0
      BY <3>1 DEF Sum, PartSum
    <3>2. CASE L.beta = 1 /\ SoFar(M, w, Q, whole, x, y, t)
      <4>1. M.buf[y][r] = Term("partial", w, <<PartSum(Q, whole, v)>>)
        BY <1>6, <3>2 DEF SoFar
      <4>2. PICK S, T, b : S = PartSum(Q, whole, v) /\ T = <<S>> /\ b = M.buf[y][r]
        OBVIOUS
      <4>3. b = Term("partial", w, T)
        BY <4>1, <4>2
      <4>4. b # Stale
        BY <4>3, TermTells DEF Stale
      <4>5. b[3][1] = S
        BY <4>2, <4>3 DEF Term
      <4> QED BY <1>1, <3>2, <4>2, <4>4, <4>5 DEF Sum
    <3> QED BY <1>2, <3>1, <3>2
  <2> HIDE DEF v
  <2>4. E.buf[y][r] = Product(w, PartSum(Q \union {p}, whole, v), whole, v)
    BY <2>1, <2>2, <2>3, PartSums
  <2>5. Product(w, PartSum(Q \union {p}, whole, v), whole, v)
          = IF PartSum(Q \union {p}, whole, v) = PartSum(whole, whole, v) THEN Term("linear", w, <<v>>)
            ELSE Term("partial", w, <<PartSum(Q \union {p}, whole, v)>>)
    BY DEF Product, PartSum
  <2>6. PartSum(Q \union {p}, whole, v) = PartSum(whole, whole, v) <=> Q \union {p} = whole
    <3>1. PICK R : R = Q \union {p}
      OBVIOUS
    <3>2. PartSum(R, whole, v) = PartSum(whole, whole, v) <=> R = whole
      BY PartSumTells
    <3> QED BY <3>1, <3>2
  <2> QED BY <2>4, <2>5, <2>6 DEF v
<1>7. CastAs(E, whole, x, t)
  BY <1>2, <1>4, <1>5 DEF CastAs
<1>8. Q \union {p} = whole => Maps1(M, E, y, "linear", w, x, t)
  BY <1>6 DEF Maps1
<1>9. Q \union {p} # whole => SoFar(E, w, Q \union {p}, whole, x, y, t)
  BY <1>5, <1>6 DEF SoFar
<1>10. Leaves(M, E, {L.y}) /\ E.staged = M.staged
  BY <1>1, <1>4
<1>11. CastAs(E, L.whole, L.x, L.rows)
  BY <1>1, <1>7
<1>12. Q \union {L.part} = L.whole => Maps1(M, E, L.y, "linear", w, L.x, L.rows)
  BY <1>1, <1>8
<1>13. Q \union {L.part} # L.whole => SoFar(E, w, Q \union {L.part}, L.whole, L.x, L.y, L.rows)
  BY <1>1, <1>9
<1> QED BY <1>10, <1>11, <1>12, <1>13 DEF Added

\* The shares of a product: its parts in the order they are multiplied.
Gemms(w, x, y, t) ==
    LET parts == PartsOf(env.split)
    IN [i \in DOMAIN parts |->
          CublasGemm(w, parts[i], Range(parts), x, y, IF i = 1 THEN 0 ELSE 1, N(w) * K(w), t, K(w))]

\* One of them.
GemmOf(w, p, whole, x, y, beta, t) == CublasGemm(w, p, whole, x, y, beta, N(w) * K(w), t, K(w))

\* The fields of a gemm.
LEMMA GemmLaunch ==
    ASSUME NEW w, NEW p, NEW whole, NEW x, NEW y, NEW beta, NEW t, NEW L,
           L = GemmOf(w, p, whole, x, y, beta, t)
    PROVE  /\ L.kind = "gemm" /\ L.part = p /\ L.whole = whole /\ L.x = x /\ L.y = y
           /\ L.beta = beta /\ L.rows = t
BY DEF GemmOf, CublasGemm

\* All parts of an activation.
Whole1 == Range(PartsOf(env.split))

\* The parts of an activation, for each setting of the split.
LEMMA PartsOfSplit ==
    ASSUME env.split \in 1 .. 3
    PROVE  /\ env.split = 1 => PartsOf(env.split) = <<"hi">> /\ Whole1 = {"hi"}
           /\ env.split = 2 => PartsOf(env.split) = <<"hi", "lo">> /\ Whole1 = {"hi", "lo"}
           /\ env.split = 3 => PartsOf(env.split) = <<"hi", "lo", "mid">> /\ Whole1 = {"hi", "lo", "mid"}
<1>1. env.split = 1 => PartsOf(env.split) = <<"hi">> /\ Whole1 = {"hi"}
  BY DEF PartsOf, Whole1, Range
<1>2. env.split = 2 => PartsOf(env.split) = <<"hi", "lo">> /\ Whole1 = {"hi", "lo"}
  BY DEF PartsOf, Whole1, Range
<1>3. env.split = 3 => PartsOf(env.split) = <<"hi", "lo", "mid">> /\ Whole1 = {"hi", "lo", "mid"}
  BY DEF PartsOf, Whole1, Range
<1> QED BY <1>1, <1>2, <1>3

\* All the gemms of a product add up to it.
LEMMA GemmsProject ==
    ASSUME NEW M, NEW E, NEW w, NEW x, NEW y, NEW t, env.split \in 1 .. 3,
           x \in Buffer, y \in Buffer, x # y,
           M.staged.w.val = w, CastAs(M, Whole1, x, t), Leads(M, Gemms(w, x, y, t), E)
    PROVE  Projected(M, E, w, x, y, t) /\ E.staged = M.staged
<1> DEFINE G(p, beta) == GemmOf(w, p, Whole1, x, y, beta, t)
<1>1. ASSUME NEW A, NEW B, NEW p \in Whole1, NEW beta, NEW Q, Effect(A, G(p, beta), B),
             A.staged.w.val = w, CastAs(A, Whole1, x, t),
             (Q = {} /\ beta = 0) \/ (beta = 1 /\ SoFar(A, w, Q, Whole1, x, y, t))
      PROVE  /\ Leaves(A, B, {y}) /\ B.staged = A.staged /\ CastAs(B, Whole1, x, t)
             /\ Q \union {p} = Whole1 => Maps1(A, B, y, "linear", w, x, t)
             /\ Q \union {p} # Whole1 => SoFar(B, w, Q \union {p}, Whole1, x, y, t)
  <2>1. PICK L : L = G(p, beta)
    OBVIOUS
  <2>2. Effect(A, L, B)
    BY <1>1, <2>1
  <2>3. /\ L.kind = "gemm" /\ L.part = p /\ L.whole = Whole1 /\ L.x = x /\ L.y = y
        /\ L.beta = beta /\ L.rows = t
    BY <2>1, GemmLaunch
  <2> HIDE DEF G
  <2>4. Adds(A, L, w, Q)
    BY <1>1, <2>3 DEF Adds
  <2>5. Added(A, L, B, w, Q)
    BY <2>2, <2>4, GemmReady
  <2> QED BY <2>3, <2>5 DEF Added
<1>2. ASSUME NEW A, NEW B, Leaves(M, A, {y}), Maps1(A, B, y, "linear", w, x, t)
      PROVE  Maps1(M, B, y, "linear", w, x, t)
  BY <1>2 DEF Leaves, SameBut, Maps1
<1>3. CASE env.split = 1
  <2>1. Whole1 = {"hi"} /\ PartsOf(env.split) = <<"hi">>
    BY <1>3, PartsOfSplit
  <2>2. Gemms(w, x, y, t) = <<G("hi", 0)>>
    BY <2>1 DEF Gemms, GemmOf, Whole1
  <2> HIDE DEF G
  <2>3. Effect(M, G("hi", 0), E)
    BY <2>2, LeadsOne
  <2>4. PICK Q : Q = {}
    OBVIOUS
  <2>5. Q \union {"hi"} = Whole1 /\ "hi" \in Whole1
    BY <2>1, <2>4
  <2> QED BY <1>1, <2>3, <2>4, <2>5 DEF Projected
<1>4. CASE env.split = 2
  <2>1. Whole1 = {"hi", "lo"} /\ PartsOf(env.split) = <<"hi", "lo">>
    BY <1>4, PartsOfSplit
  <2>2. Gemms(w, x, y, t) = <<G("hi", 0), G("lo", 1)>>
    BY <2>1 DEF Gemms, GemmOf, Whole1
  <2> HIDE DEF G
  <2>3. PICK A : Effect(M, G("hi", 0), A) /\ Effect(A, G("lo", 1), E)
    BY <2>2, LeadsTwo
  <2>4. PICK Q0, Q1 : Q0 = {} /\ Q1 = Q0 \union {"hi"}
    OBVIOUS
  <2>5. Q1 # Whole1 /\ Q1 \union {"lo"} = Whole1 /\ "hi" \in Whole1 /\ "lo" \in Whole1
    BY <2>1, <2>4
  <2>6. /\ Leaves(M, A, {y}) /\ A.staged = M.staged /\ CastAs(A, Whole1, x, t)
        /\ SoFar(A, w, Q1, Whole1, x, y, t)
    BY <1>1, <2>3, <2>4, <2>5
  <2>7. /\ Leaves(A, E, {y}) /\ E.staged = A.staged /\ Maps1(A, E, y, "linear", w, x, t)
    BY <1>1, <2>3, <2>5, <2>6
  <2>8. Leaves(M, E, {y})
    BY <2>6, <2>7, LeavesOn
  <2> QED BY <1>2, <2>6, <2>7, <2>8 DEF Projected
<1>5. CASE env.split = 3
  <2>1. Whole1 = {"hi", "lo", "mid"} /\ PartsOf(env.split) = <<"hi", "lo", "mid">>
    BY <1>5, PartsOfSplit
  <2>2. Gemms(w, x, y, t) = <<G("hi", 0), G("lo", 1), G("mid", 1)>>
    BY <2>1 DEF Gemms, GemmOf, Whole1
  <2> HIDE DEF G
  <2>3. PICK A, B : Effect(M, G("hi", 0), A) /\ Effect(A, G("lo", 1), B) /\ Effect(B, G("mid", 1), E)
    BY <2>2, LeadsThree
  <2>4. PICK Q0, Q1, Q2 : Q0 = {} /\ Q1 = Q0 \union {"hi"} /\ Q2 = Q1 \union {"lo"}
    OBVIOUS
  <2>5. /\ Q1 # Whole1 /\ Q2 # Whole1 /\ Q2 \union {"mid"} = Whole1
        /\ "hi" \in Whole1 /\ "lo" \in Whole1 /\ "mid" \in Whole1
    BY <2>1, <2>4
  <2>6. /\ Leaves(M, A, {y}) /\ A.staged = M.staged /\ CastAs(A, Whole1, x, t)
        /\ SoFar(A, w, Q1, Whole1, x, y, t)
    BY <1>1, <2>3, <2>4, <2>5
  <2>7. /\ Leaves(A, B, {y}) /\ B.staged = A.staged /\ CastAs(B, Whole1, x, t)
        /\ SoFar(B, w, Q2, Whole1, x, y, t)
    BY <1>1, <2>3, <2>4, <2>5, <2>6
  <2>8. /\ Leaves(B, E, {y}) /\ E.staged = B.staged /\ Maps1(B, E, y, "linear", w, x, t)
    BY <1>1, <2>3, <2>5, <2>6, <2>7
  <2>9. Leaves(M, B, {y})
    BY <2>6, <2>7, LeavesOn
  <2>10. Leaves(M, E, {y})
    BY <2>8, <2>9, LeavesOn
  <2> QED BY <1>2, <2>6, <2>7, <2>8, <2>9, <2>10 DEF Projected
<1> QED BY <1>3, <1>4, <1>5

\* One bf16 copy of the rows of x as they were in D.
HiStaged(M, D, x, t, k) ==
    /\ M.staged.act["hi"].cells >= t * k
    /\ \A r \in BufRow : r < t =>
         M.staged.act["hi"].rows[r] = Term("part", "hi", <<{"hi"}, D.buf[x][r]>>)

\* Making room and dequantising leave the staged activation where it is, if it fitted.
LEMMA TensorCoreStages ==
    ASSUME NEW D, NEW M, NEW w, NEW t, w[2] \in DOMAIN Shape,
           Leads(D, <<GrowScratch(N(w) * K(w), Part, t * K(w)), DequantOf(w)>>, M)
    PROVE  /\ Leaves(D, M, {}) /\ M.staged.w.val = w
           /\ D.staged.act["hi"].cells >= t * K(w) => M.staged.act["hi"] = D.staged.act["hi"]
<1>1. PICK a, b : a = GrowScratch(N(w) * K(w), Part, t * K(w)) /\ b = DequantOf(w)
  OBVIOUS
<1>2. PICK A : Effect(D, a, A) /\ Effect(A, b, M)
  BY <1>1, LeadsTwo
<1>3. a.kind = "grow" /\ a.actCells = t * K(w)
  BY <1>1 DEF GrowScratch
<1>4. b.kind = "dequant" /\ b.w = w /\ b.cells = N(w) * K(w)
  BY <1>1 DEF DequantOf, DequantNvFp4ToBf162d, DequantNvFp4ToBf16, DequantFp8ToBf16, U16ToBf16, Dequant
<1>5. N(w) * K(w) \in Nat
  BY ShapeIsNat
<1>6. "hi" \in Part
  BY DEF Part
<1>7. /\ Leaves(D, A, {})
      /\ D.staged.act["hi"].cells >= t * K(w) => A.staged.act["hi"] = D.staged.act["hi"]
  BY <1>2, <1>3, <1>6 DEF Effect, GrowEffect, Leaves
<1>8. Leaves(A, M, {}) /\ M.staged.w.val = w /\ M.staged.act["hi"] = A.staged.act["hi"]
  BY <1>2, <1>4, <1>5, <1>6 DEF Effect, DequantEffect, Leaves
<1>9. Leaves(D, M, {})
  BY <1>7, <1>8 DEF Leaves, SameBut, SameState
<1> QED BY <1>7, <1>8, <1>9

\* The cast stages every part of the activation.
LEMMA CastStages ==
    ASSUME NEW M, NEW E, NEW x, NEW t \in Nat, NEW k \in Nat, env.split \in 1 .. 3,
           Leads(M, <<Cast(x, t, k)>>, E)
    PROVE  /\ Leaves(M, E, {}) /\ E.staged.w = M.staged.w
           /\ CastAs(E, Whole1, x, t) \/ x \notin Buffer
<1>1. PICK L : L = Cast(x, t, k)
  OBVIOUS
<1>2. Effect(M, L, E)
  BY <1>1, LeadsOne
<1>3. L.kind = "cast" /\ L.x = x /\ L.rows = t /\ L.k = k /\ L.parts = Whole1 /\ Whole1 \subseteq Part
  <2>1. Whole1 = IF env.split = 1 THEN {"hi"} ELSE IF env.split = 2 THEN {"hi", "lo"} ELSE Part
    BY PartsOfSplit DEF Part
  <2>2. L = CastBf16(x, IF env.split = 1 THEN {"hi"} ELSE IF env.split = 2 THEN {"hi", "lo"} ELSE Part, t, k)
    BY <1>1 DEF Cast, F32ToBf16, F32SplitBf16, F32Split3Bf16
  <2> QED BY <2>1, <2>2 DEF CastBf16, Part
<1>4. CastEffect(M, L, E)
  BY <1>2 DEF Effect
<1>5. Leaves(M, E, {}) /\ E.staged.w = M.staged.w
  BY <1>3, <1>4 DEF CastEffect, Leaves
<1>6. ASSUME x \in Buffer PROVE CastAs(E, Whole1, x, t)
  <2>1. E.buf[x] = M.buf[x]
    BY <1>5, <1>6 DEF Leaves, SameBut
  <2> QED BY <1>3, <1>4, <2>1 DEF CastEffect, CastAs
<1> QED BY <1>5, <1>6

\* The tensor-core path, with its own staging of x or with the shared one.
LEMMA TensorCoreProjects ==
    ASSUME NEW D, NEW E, NEW w, NEW x, NEW y, NEW t \in Nat, NEW precast \in BOOLEAN,
           env.split \in 1 .. 3, w[2] \in DOMAIN Shape, x \in Buffer, y \in Buffer, x # y,
           precast => env.split = 1 /\ HiStaged(D, D, x, t, K(w)),
           Leads(D, ForwardPrefillTensorCore(w, x, y, t, precast), E)
    PROVE  /\ Projected(D, E, w, x, y, t)
           /\ precast => HiStaged(E, D, x, t, K(w))
<1> DEFINE A == <<GrowScratch(N(w) * K(w), Part, t * K(w)), DequantOf(w)>>
           B == IF precast THEN << >> ELSE <<Cast(x, t, K(w))>>
           C == Gemms(w, x, y, t)
<1>1. ForwardPrefillTensorCore(w, x, y, t, precast) = (A \o B) \o C
  BY DEF ForwardPrefillTensorCore, Gemms
<1>2. IsSeq(A)
  BY TupleSeq
<1>3. IsSeq(B)
  <2>1. CASE precast
    BY <2>1, TupleSeq
  <2>2. CASE ~precast
    BY <2>2, TupleSeq
  <2> QED BY <2>1, <2>2
<1>4. IsSeq(C)
  <2> DEFINE parts == PartsOf(env.split)
  <2>1. PICK n \in Nat : DOMAIN parts = 1 .. n
    BY PartsArePart DEF IsSeq
  <2>2. C = [i \in DOMAIN parts |-> C[i]]
    BY DEF Gemms
  <2> HIDE DEF C, parts
  <2>3. C = [i \in 1 .. n |-> C[i]]
    BY <2>1, <2>2
  <2> QED BY <2>3, FunctionIsSeq
<1> HIDE DEF A, B, C
<1>5. PICK M2 : Leads(D, A \o B, M2) /\ Leads(M2, C, E)
  <2>1. IsSeq(A \o B)
    BY <1>2, <1>3, ConcatIsSeq
  <2> QED BY <1>1, <1>4, <2>1, LeadsConcat
<1>6. PICK M1 : Leads(D, A, M1) /\ Leads(M1, B, M2)
  BY <1>2, <1>3, <1>5, LeadsConcat
<1>7. /\ Leaves(D, M1, {}) /\ M1.staged.w.val = w
      /\ D.staged.act["hi"].cells >= t * K(w) => M1.staged.act["hi"] = D.staged.act["hi"]
  BY <1>6, TensorCoreStages DEF A
<1>8. K(w) \in Nat
  BY ShapeIsNat
<1>9. /\ Leaves(M1, M2, {}) /\ M2.staged.w = M1.staged.w /\ CastAs(M2, Whole1, x, t)
      /\ precast => M2 = M1 /\ M1.staged.act["hi"] = D.staged.act["hi"]
  <2>1. CASE ~precast
    <3>1. Leads(M1, <<Cast(x, t, K(w))>>, M2)
      BY <1>6, <2>1 DEF B
    <3> QED BY <1>8, <2>1, <3>1, CastStages
  <2>2. CASE precast
    <3>1. M2 = M1
      BY <1>6, <2>2, LeadsNothing DEF B
    <3>2. Whole1 = {"hi"} /\ HiStaged(D, D, x, t, K(w))
      BY <2>2, PartsOfSplit
    <3>3. M1.staged.act["hi"] = D.staged.act["hi"]
      BY <1>7, <3>2 DEF HiStaged
    <3>4. M1.buf[x] = D.buf[x]
      BY <1>7 DEF Leaves, SameBut
    <3>5. CastAs(M2, Whole1, x, t)
      BY <3>1, <3>2, <3>3, <3>4 DEF CastAs, HiStaged
    <3> QED BY <3>1, <3>3, <3>5 DEF Leaves, SameBut, SameState
  <2> QED BY <2>1, <2>2
<1>10. Projected(M2, E, w, x, y, t) /\ E.staged = M2.staged
  BY <1>5, <1>7, <1>9, GemmsProject DEF C
<1>11. Leaves(D, M2, {})
  BY <1>7, <1>9 DEF Leaves, SameBut, SameState
<1>12. Projected(D, E, w, x, y, t)
  <2>1. Leaves(D, E, {y})
    BY <1>10, <1>11 DEF Projected, Leaves, SameBut, SameState
  <2>2. Maps1(D, E, y, "linear", w, x, t)
    BY <1>10, <1>11 DEF Projected, Maps1, Leaves, SameBut
  <2> QED BY <2>1, <2>2 DEF Projected
<1>13. precast => HiStaged(E, D, x, t, K(w))
  BY <1>9, <1>10 DEF HiStaged
<1> QED BY <1>12, <1>13

\* A prefill's projection, by whichever of the three paths it takes.
LEMMA PrefillProjects ==
    ASSUME NEW D, NEW E, NEW w, NEW x, NEW y, NEW t \in Nat,
           env.split \in 1 .. 3, w[2] \in DOMAIN Shape, x \in Buffer, y \in Buffer, x # y,
           Leads(D, ForwardPrefill(w, x, y, t), E)
    PROVE  Projected(D, E, w, x, y, t)
<1>1. CASE t <= GemvMax \/ (N(w) < SmallN /\ t < SmallNCut)
  <2>1. ForwardPrefill(w, x, y, t) = Forward(w, x, y, t)
    BY <1>1 DEF ForwardPrefill
  <2> QED BY <2>1, ForwardProjects
<1>2. CASE ~(t <= GemvMax \/ (N(w) < SmallN /\ t < SmallNCut)) /\ env.tcGemm
  <2>1. ForwardPrefill(w, x, y, t) = ForwardPrefillTensorCore(w, x, y, t, FALSE)
    BY <1>2 DEF ForwardPrefill
  <2>2. PICK no : no = FALSE
    OBVIOUS
  <2>3. no \in BOOLEAN /\ ~no /\ Leads(D, ForwardPrefillTensorCore(w, x, y, t, no), E)
    BY <2>1, <2>2
  <2> QED BY <2>3, TensorCoreProjects
<1>3. CASE ~(t <= GemvMax \/ (N(w) < SmallN /\ t < SmallNCut)) /\ ~env.tcGemm
  <2>1. PICK L : L = GemmFp32(w, x, y, t)
    OBVIOUS
  <2>2. ForwardPrefill(w, x, y, t) = <<L>>
    BY <1>3, <2>1 DEF ForwardPrefill
  <2>3. Effect(D, L, E)
    BY <2>2, LeadsOne
  <2>4. L.kind = "rows" /\ L.rows = t /\ L.stores = {Store(y, "linear", w, <<x>>)}
    BY <2>1 DEF GemmFp32, Rows
  <2>5. Leaves(D, E, {y}) /\ Maps1(D, E, y, "linear", w, x, L.rows)
    BY <2>3, <2>4, RowOfOne
  <2> QED BY <2>4, <2>5 DEF Projected
<1> QED BY <1>1, <1>2, <1>3

\* Projections of one input, an output each.
Distinct(x, ys, n) ==
    /\ x \in Buffer
    /\ \A i \in 1 .. n : ys[i] \in Buffer /\ ys[i] # x /\ \A j \in 1 .. n : ys[i] = ys[j] => i = j
AllProjected(D, E, x, ws, ys, n, t) ==
    Leaves(D, E, {ys[i] : i \in 1 .. n})
    /\ \A i \in 1 .. n : Maps1(D, E, ys[i], "linear", ws[i], x, t)

\* Projections one by one.
LEMMA NoneProjected ==
    ASSUME NEW D, NEW x, NEW ws, NEW ys, NEW t
    PROVE  AllProjected(D, D, x, ws, ys, 0, t)
BY DEF AllProjected, Leaves, SameBut, SameState

LEMMA OneMoreProjected ==
    ASSUME NEW D, NEW E, NEW F, NEW x, NEW ws, NEW ys, NEW n \in Nat, NEW t, Distinct(x, ys, n + 1),
           AllProjected(D, E, x, ws, ys, n, t), Projected(E, F, ws[n + 1], x, ys[n + 1], t)
    PROVE  AllProjected(D, F, x, ws, ys, n + 1, t)
<1>1. Leaves(D, E, {ys[i] : i \in 1 .. n}) /\ Leaves(E, F, {ys[n + 1]})
  BY DEF AllProjected, Projected
<1>2. {ys[i] : i \in 1 .. n} \union {ys[n + 1]} = {ys[i] : i \in 1 .. n + 1}
  <2>1. 1 .. n + 1 = 1 .. n \union {n + 1}
    OBVIOUS
  <2> QED BY <2>1
<1>3. Leaves(D, F, {ys[i] : i \in 1 .. n + 1})
  <2>1. PICK A, B, C : A = {ys[i] : i \in 1 .. n} /\ B = {ys[n + 1]} /\ C = {ys[i] : i \in 1 .. n + 1}
    OBVIOUS
  <2>2. Leaves(D, E, A) /\ Leaves(E, F, B)
    BY <1>1, <2>1
  <2>3. Leaves(D, F, A \union B)
    BY <2>2, LeavesOn
  <2>4. A \union B = C
    BY <1>2, <2>1
  <2> QED BY <2>1, <2>3, <2>4
<1>4. ASSUME NEW i \in 1 .. n + 1
      PROVE  Maps1(D, F, ys[i], "linear", ws[i], x, t)
  <2>1. CASE i = n + 1
    <3>1. n + 1 \in 1 .. n + 1
      OBVIOUS
    <3>2. x \in Buffer /\ \A j \in 1 .. n : ys[j] # x
      BY <3>1 DEF Distinct
    <3>3. E.buf[x] = D.buf[x]
      BY <1>1, <3>2 DEF Leaves, SameBut
    <3> QED BY <2>1, <3>3 DEF Projected, Maps1
  <2>2. CASE i # n + 1
    <3>1. i \in 1 .. n /\ n + 1 \in 1 .. n + 1
      BY <2>2
    <3>2. ys[i] # ys[n + 1] /\ ys[i] \in Buffer
      BY <2>2, <3>1 DEF Distinct
    <3>3. F.buf[ys[i]] = E.buf[ys[i]]
      BY <1>1, <3>2 DEF Leaves, SameBut
    <3>4. Maps1(D, E, ys[i], "linear", ws[i], x, t)
      BY <3>1 DEF AllProjected
    <3> QED BY <3>3, <3>4 DEF Maps1
  <2> QED BY <2>1, <2>2
<1> QED BY <1>3, <1>4 DEF AllProjected

\* Fewer of the outputs are still distinct.
LEMMA FewerDistinct ==
    ASSUME NEW x, NEW ys, NEW n \in Nat, NEW m \in 0 .. n, Distinct(x, ys, n)
    PROVE  Distinct(x, ys, m)
<1>1. 1 .. m \subseteq 1 .. n
  OBVIOUS
<1> QED BY <1>1 DEF Distinct

\* Projections run one after the other leave them all.
LEMMA SweepProjects ==
    ASSUME NEW n \in {2, 3, 4}, NEW M, NEW x, NEW ws, NEW ys, NEW t, Distinct(x, ys, n),
           \A i \in 1 .. n : Projected(M[i - 1], M[i], ws[i], x, ys[i], t)
    PROVE  AllProjected(M[0], M[n], x, ws, ys, n, t)
<1>1. AllProjected(M[0], M[0], x, ws, ys, 0, t)
  BY NoneProjected
<1>2. ASSUME NEW m \in 0 .. n - 1, AllProjected(M[0], M[m], x, ws, ys, m, t)
      PROVE  AllProjected(M[0], M[m + 1], x, ws, ys, m + 1, t)
  <2>1. m \in Nat /\ m + 1 \in 1 .. n /\ m + 1 \in 0 .. n /\ (m + 1) - 1 = m /\ n \in Nat
    OBVIOUS
  <2>2. Distinct(x, ys, m + 1)
    BY <2>1, FewerDistinct
  <2>3. Projected(M[m], M[m + 1], ws[m + 1], x, ys[m + 1], t)
    BY <2>1
  <2> QED BY <1>2, <2>1, <2>2, <2>3, OneMoreProjected
<1>3. AllProjected(M[0], M[1], x, ws, ys, 1, t) /\ AllProjected(M[0], M[2], x, ws, ys, 2, t)
  <2>1. 0 \in 0 .. n - 1 /\ 1 \in 0 .. n - 1 /\ 0 + 1 = 1 /\ 1 + 1 = 2
    OBVIOUS
  <2>2. AllProjected(M[0], M[1], x, ws, ys, 1, t)
    BY <1>1, <1>2, <2>1
  <2> QED BY <1>2, <2>1, <2>2
<1>4. n >= 3 => AllProjected(M[0], M[3], x, ws, ys, 3, t)
  <2>1. n >= 3 => 2 \in 0 .. n - 1 /\ 2 + 1 = 3
    OBVIOUS
  <2> QED BY <1>2, <1>3, <2>1
<1>5. n = 4 => AllProjected(M[0], M[4], x, ws, ys, 4, t)
  <2>1. n = 4 => n >= 3 /\ 3 \in 0 .. n - 1 /\ 3 + 1 = 4
    OBVIOUS
  <2> QED BY <1>2, <1>4, <2>1
<1> QED BY <1>3, <1>4, <1>5

\* A sequence of n streams, and the devices between them.
Listed(seqs, n) == seqs = [i \in 1 .. n |-> seqs[i]] /\ \A i \in 1 .. n : IsSeq(seqs[i])
Sweeps(D, seqs, n, E) ==
    \E M : M[0] = D /\ M[n] = E /\ \A i \in 1 .. n : Leads(M[i - 1], seqs[i], M[i])

\* A stream of a few streams.
LEMMA LeadsFlatten ==
    ASSUME NEW n \in {2, 3, 4}, NEW seqs, Listed(seqs, n), NEW D, NEW E, Leads(D, FlattenSeq(seqs), E)
    PROVE  Sweeps(D, seqs, n, E)
<1> DEFINE a == seqs[1]
           b == seqs[2]
           c == seqs[3]
           d == seqs[4]
<1>1. IsSeq(a) /\ IsSeq(b) /\ (n >= 3 => IsSeq(c)) /\ (n = 4 => IsSeq(d))
  BY DEF Listed
<1>2. CASE n = 2
  <2>1. seqs = <<a, b>>
    BY <1>2 DEF Listed
  <2> HIDE DEF a, b
  <2>2. Leads(D, a \o b, E)
    BY <2>1, FlattenTwo
  <2>3. PICK P : Leads(D, a, P) /\ Leads(P, b, E)
    BY <1>1, <2>2, LeadsConcat
  <2>4. PICK M : M = [i \in 0 .. 2 |-> IF i = 0 THEN D ELSE IF i = 1 THEN P ELSE E]
    OBVIOUS
  <2>5. M[0] = D /\ M[1] = P /\ M[2] = E
    BY <2>4
  <2>6. ASSUME NEW i \in 1 .. n PROVE Leads(M[i - 1], seqs[i], M[i])
    <3>1. (i = 1 /\ i - 1 = 0) \/ (i = 2 /\ i - 1 = 1)
      BY <1>2
    <3> QED BY <2>3, <2>5, <3>1 DEF a, b
  <2> QED BY <1>2, <2>5, <2>6 DEF Sweeps
<1>3. CASE n = 3
  <2>1. seqs = <<a, b, c>>
    BY <1>3 DEF Listed
  <2> HIDE DEF a, b, c
  <2>2. PICK ab : ab = a \o b
    OBVIOUS
  <2>3. PICK abc : abc = ab \o c
    OBVIOUS
  <2>4. IsSeq(ab) /\ IsSeq(c)
    BY <1>1, <1>3, <2>2, ConcatIsSeq
  <2>5. FlattenSeq(<<a, b, c>>) = abc
    BY <2>2, <2>3, FlattenThree
  <2>6. Leads(D, ab \o c, E)
    BY <2>1, <2>3, <2>5
  <2>7. PICK Q : Leads(D, ab, Q) /\ Leads(Q, c, E)
    BY <2>4, <2>6, LeadsConcat
  <2>8. Leads(D, a \o b, Q)
    BY <2>2, <2>7
  <2>9. PICK P : Leads(D, a, P) /\ Leads(P, b, Q)
    BY <1>1, <2>8, LeadsConcat
  <2>10. PICK M : M = [i \in 0 .. 3 |-> IF i = 0 THEN D ELSE IF i = 1 THEN P ELSE IF i = 2 THEN Q ELSE E]
    OBVIOUS
  <2>11. M[0] = D /\ M[1] = P /\ M[2] = Q /\ M[3] = E
    BY <2>10
  <2>12. ASSUME NEW i \in 1 .. n PROVE Leads(M[i - 1], seqs[i], M[i])
    <3>1. (i = 1 /\ i - 1 = 0) \/ (i = 2 /\ i - 1 = 1) \/ (i = 3 /\ i - 1 = 2)
      BY <1>3
    <3> QED BY <2>7, <2>9, <2>11, <3>1 DEF a, b, c
  <2> QED BY <1>3, <2>11, <2>12 DEF Sweeps
<1>4. CASE n = 4
  <2>1. seqs = <<a, b, c, d>>
    BY <1>4 DEF Listed
  <2> HIDE DEF a, b, c, d
  <2>2. PICK ab : ab = a \o b
    OBVIOUS
  <2>3. PICK abc : abc = ab \o c
    OBVIOUS
  <2>14. PICK abcd : abcd = abc \o d
    OBVIOUS
  <2>4. IsSeq(ab) /\ IsSeq(c) /\ IsSeq(d)
    BY <1>1, <1>4, <2>2, ConcatIsSeq
  <2>15. IsSeq(abc)
    BY <2>3, <2>4, ConcatIsSeq
  <2>5. FlattenSeq(<<a, b, c, d>>) = abcd
    BY <2>2, <2>3, <2>14, FlattenFour
  <2>6. Leads(D, abc \o d, E)
    BY <2>1, <2>14, <2>5
  <2>16. PICK R : Leads(D, abc, R) /\ Leads(R, d, E)
    BY <2>4, <2>15, <2>6, LeadsConcat
  <2>17. Leads(D, ab \o c, R)
    BY <2>3, <2>16
  <2>7. PICK Q : Leads(D, ab, Q) /\ Leads(Q, c, R)
    BY <2>4, <2>17, LeadsConcat
  <2>8. Leads(D, a \o b, Q)
    BY <2>2, <2>7
  <2>9. PICK P : Leads(D, a, P) /\ Leads(P, b, Q)
    BY <1>1, <2>8, LeadsConcat
  <2>10. PICK M : M = [i \in 0 .. 4 |-> IF i = 0 THEN D ELSE IF i = 1 THEN P ELSE IF i = 2 THEN Q
                                        ELSE IF i = 3 THEN R ELSE E]
    OBVIOUS
  <2>11. M[0] = D /\ M[1] = P /\ M[2] = Q /\ M[3] = R /\ M[4] = E
    BY <2>10
  <2>12. ASSUME NEW i \in 1 .. n PROVE Leads(M[i - 1], seqs[i], M[i])
    <3>1. (i = 1 /\ i - 1 = 0) \/ (i = 2 /\ i - 1 = 1) \/ (i = 3 /\ i - 1 = 2) \/ (i = 4 /\ i - 1 = 3)
      BY <1>4
    <3> QED BY <2>7, <2>9, <2>11, <2>16, <3>1 DEF a, b, c, d
  <2> QED BY <1>4, <2>11, <2>12 DEF Sweeps
<1> QED BY <1>2, <1>3, <1>4

\* The projections of one input as GEMVs.
LEMMA ForwardsProject ==
    ASSUME NEW n \in {2, 3, 4}, NEW l, NEW names, NEW x, NEW outs, NEW t, Distinct(x, outs, n),
           NEW D, NEW E,
           Leads(D, FlattenSeq([i \in 1 .. n |-> Forward(W(l, names[i]), x, outs[i], t)]), E)
    PROVE  AllProjected(D, E, x, [i \in 1 .. n |-> W(l, names[i])], outs, n, t)
<1>1. PICK seqs : seqs = [i \in 1 .. n |-> Forward(W(l, names[i]), x, outs[i], t)]
  OBVIOUS
<1>2. seqs = [i \in 1 .. n |-> seqs[i]] /\ \A i \in 1 .. n : seqs[i] = Forward(W(l, names[i]), x, outs[i], t)
  BY <1>1
<1>3. Listed(seqs, n)
  BY <1>2, TupleSeq DEF Forward, Listed
<1>4. Leads(D, FlattenSeq(seqs), E)
  BY <1>1
<1>5. PICK M : M[0] = D /\ M[n] = E /\ \A i \in 1 .. n : Leads(M[i - 1], seqs[i], M[i])
  BY <1>3, <1>4, LeadsFlatten DEF Sweeps
<1>6. PICK ws : ws = [i \in 1 .. n |-> W(l, names[i])]
  OBVIOUS
<1>7. ASSUME NEW i \in 1 .. n PROVE Projected(M[i - 1], M[i], ws[i], x, outs[i], t)
  <2>1. PICK A, B, w, y : A = M[i - 1] /\ B = M[i] /\ w = ws[i] /\ y = outs[i]
    OBVIOUS
  <2>2. Leads(A, Forward(w, x, y, t), B) /\ y \in Buffer
    BY <1>2, <1>5, <1>6, <2>1 DEF Distinct
  <2>3. Projected(A, B, w, x, y, t)
    BY <2>2, ForwardProjects
  <2> QED BY <2>1, <2>3
<1>8. AllProjected(M[0], M[n], x, ws, outs, n, t)
  BY <1>7, SweepProjects
<1> QED BY <1>5, <1>6, <1>8

\* The same as products of their own, each with its own staging.
LEMMA PrefillsProject ==
    ASSUME NEW n \in {2, 3, 4}, NEW ws, DOMAIN ws = 1 .. n,
           \A i \in 1 .. n : ws[i][2] \in DOMAIN Shape,
           NEW x, NEW ys, NEW t \in Nat, Distinct(x, ys, n), env.split \in 1 .. 3, NEW D, NEW E,
           Leads(D, FlattenSeq([i \in DOMAIN ws |-> ForwardPrefill(ws[i], x, ys[i], t)]), E)
    PROVE  AllProjected(D, E, x, ws, ys, n, t)
<1>1. PICK seqs : seqs = [i \in 1 .. n |-> ForwardPrefill(ws[i], x, ys[i], t)]
  OBVIOUS
<1>2. seqs = [i \in 1 .. n |-> seqs[i]] /\ \A i \in 1 .. n : seqs[i] = ForwardPrefill(ws[i], x, ys[i], t)
  BY <1>1
<1>3. Listed(seqs, n)
  <2>1. PICK no : no = FALSE
    OBVIOUS
  <2>2. no \in BOOLEAN
    BY <2>1
  <2>3. ASSUME NEW i \in 1 .. n PROVE IsSeq(seqs[i])
    <3>1. IsSeq(ForwardPrefill(ws[i], x, ys[i], t))
      BY <2>2, ProjectionsAreSeqs
    <3> QED BY <1>2, <3>1
  <2> QED BY <1>2, <2>3 DEF Listed
<1>4. Leads(D, FlattenSeq(seqs), E)
  BY <1>1
<1>5. PICK M : M[0] = D /\ M[n] = E /\ \A i \in 1 .. n : Leads(M[i - 1], seqs[i], M[i])
  <2>1. Sweeps(D, seqs, n, E)
    BY <1>3, <1>4, LeadsFlatten
  <2> QED BY <2>1 DEF Sweeps
<1>6. ASSUME NEW i \in 1 .. n PROVE Projected(M[i - 1], M[i], ws[i], x, ys[i], t)
  <2>1. PICK A, B, w, y : A = M[i - 1] /\ B = M[i] /\ w = ws[i] /\ y = ys[i]
    OBVIOUS
  <2>2. /\ Leads(A, ForwardPrefill(w, x, y, t), B) /\ x \in Buffer /\ y \in Buffer /\ x # y
        /\ w[2] \in DOMAIN Shape
    BY <1>2, <1>5, <2>1 DEF Distinct
  <2>3. Projected(A, B, w, x, y, t)
    BY <2>2, PrefillProjects
  <2> QED BY <2>1, <2>3
<1>7. AllProjected(M[0], M[n], x, ws, ys, n, t)
  BY <1>6, SweepProjects
<1> QED BY <1>5, <1>7

\* x staged once, as one part.
LEMMA ActivationStaged ==
    ASSUME NEW D, NEW E, NEW w, w[2] \in DOMAIN Shape, NEW x \in Buffer, NEW t \in Nat,
           Leads(D, CastActivationBf16(w, x, t), E)
    PROVE  Leaves(D, E, {}) /\ HiStaged(E, E, x, t, K(w))
<1>1. PICK G, C : G = GrowScratch(0, {"hi"}, t * K(w)) /\ C = F32ToBf16(x, t, K(w))
  OBVIOUS
<1>2. PICK M : Effect(D, G, M) /\ Effect(M, C, E)
  BY <1>1, LeadsTwo DEF CastActivationBf16
<1>3. G.kind = "grow" /\ G.parts = {"hi"} /\ G.actCells = t * K(w)
  BY <1>1 DEF GrowScratch
<1>4. C.kind = "cast" /\ C.x = x /\ C.parts = {"hi"} /\ C.rows = t /\ C.k = K(w)
  BY <1>1 DEF F32ToBf16, CastBf16
<1>5. "hi" \in Part /\ K(w) \in Nat
  BY ShapeIsNat DEF Part
<1>6. Leaves(D, M, {}) /\ M.staged.act["hi"].cells >= t * K(w)
  BY <1>2, <1>3, <1>5 DEF Effect, GrowEffect, Leaves
<1>7. CastEffect(M, C, E)
  BY <1>2 DEF Effect
<1>8. Leaves(M, E, {})
  BY <1>4, <1>7 DEF CastEffect, Leaves
<1>9. "hi" \in C.parts \intersect Part
  BY <1>4, <1>5
<1>10. /\ E.staged.act["hi"].cells = M.staged.act["hi"].cells
       /\ \A r \in BufRow : r < t =>
            E.staged.act["hi"].rows[r] = Term("part", "hi", <<{"hi"}, M.buf[x][r]>>)
  BY <1>4, <1>5, <1>7, <1>9 DEF CastEffect
<1>11. E.buf[x] = M.buf[x]
  BY <1>8 DEF Leaves, SameBut
<1>12. HiStaged(E, E, x, t, K(w))
  BY <1>6, <1>10, <1>11 DEF HiStaged
<1> QED BY <1>6, <1>8, <1>12 DEF Leaves, SameBut, SameState

\* The same over one shared staging: nothing between the cast and the last product moves it.
LEMMA SharedProjects ==
    ASSUME NEW n \in {2, 3, 4}, NEW ws, DOMAIN ws = 1 .. n,
           \A i \in 1 .. n : ws[i][2] \in DOMAIN Shape,
           NEW x, NEW ys, NEW t \in Nat, Distinct(x, ys, n), env.split \in 1 .. 3, NEW D, NEW E,
           Leads(D, ForwardPrefillSharedInput(ws, x, ys, t), E)
    PROVE  AllProjected(D, E, x, ws, ys, n, t)
<1>1. CASE ~Shareable(ws, t)
  <2>1. Leads(D, FlattenSeq([i \in DOMAIN ws |-> ForwardPrefill(ws[i], x, ys[i], t)]), E)
    BY <1>1 DEF ForwardPrefillSharedInput
  <2> QED BY <2>1, PrefillsProject
<1>2. CASE Shareable(ws, t)
  <2>1. PICK yes : yes = TRUE
    OBVIOUS
  <2>2. PICK seqs : seqs = [i \in 1 .. n |-> ForwardPrefillTensorCore(ws[i], x, ys[i], t, yes)]
    OBVIOUS
  <2>3. /\ seqs = [i \in 1 .. n |-> seqs[i]]
        /\ \A i \in 1 .. n : seqs[i] = ForwardPrefillTensorCore(ws[i], x, ys[i], t, yes)
    BY <2>2
  <2>4. yes \in BOOLEAN /\ yes
    BY <2>1
  <2>5. Listed(seqs, n)
    <3>1. ASSUME NEW i \in 1 .. n PROVE IsSeq(seqs[i])
      <4>1. IsSeq(ForwardPrefillTensorCore(ws[i], x, ys[i], t, yes))
        BY <2>4, ProjectionsAreSeqs
      <4> QED BY <2>3, <4>1
    <3>2. seqs = [i \in 1 .. n |-> seqs[i]]
      BY <2>3
    <3> QED BY <3>1, <3>2 DEF Listed
  <2>6. PICK cast : cast = CastActivationBf16(ws[1], x, t)
    OBVIOUS
  <2>7. Leads(D, cast \o FlattenSeq(seqs), E)
    BY <1>2, <2>1, <2>2, <2>6 DEF ForwardPrefillSharedInput
  <2>8. IsSeq(cast) /\ IsSeq(FlattenSeq(seqs))
    <3>1. IsSeq(cast)
      BY <2>6, TupleSeq DEF CastActivationBf16
    <3>2. seqs = [i \in 1 .. n |-> seqs[i]] /\ \A i \in 1 .. n : IsSeq(seqs[i])
      BY <2>5 DEF Listed
    <3>3. IsSeq(FlattenSeq(seqs))
      BY <3>2, FlattenIsSeq
    <3> QED BY <3>1, <3>3
  <2>9. PICK P : Leads(D, cast, P) /\ Leads(P, FlattenSeq(seqs), E)
    BY <2>7, <2>8, LeadsConcat
  <2>10. PICK k : k = K(ws[1])
    OBVIOUS
  <2>11. 1 \in 1 .. n
    OBVIOUS
  <2>12. Leaves(D, P, {}) /\ HiStaged(P, P, x, t, k)
    <3>1. PICK w : w = ws[1]
      OBVIOUS
    <3>2. w[2] \in DOMAIN Shape /\ x \in Buffer /\ Leads(D, CastActivationBf16(w, x, t), P)
      BY <2>6, <2>9, <2>11, <3>1 DEF Distinct
    <3>3. Leaves(D, P, {}) /\ HiStaged(P, P, x, t, K(w))
      BY <3>2, ActivationStaged
    <3> QED BY <2>10, <3>1, <3>3
  <2>13. PICK M : M[0] = P /\ M[n] = E /\ \A i \in 1 .. n : Leads(M[i - 1], seqs[i], M[i])
    <3>1. Leads(P, FlattenSeq(seqs), E)
      BY <2>9
    <3>2. Sweeps(P, seqs, n, E)
      BY <2>5, <3>1, LeadsFlatten
    <3> QED BY <3>2 DEF Sweeps
  <2>14. ASSUME NEW i \in 1 .. n, HiStaged(M[i - 1], M[i - 1], x, t, k)
         PROVE  Projected(M[i - 1], M[i], ws[i], x, ys[i], t) /\ HiStaged(M[i], M[i], x, t, k)
    <3>1. PICK A, B, w, y : A = M[i - 1] /\ B = M[i] /\ w = ws[i] /\ y = ys[i]
      OBVIOUS
    <3>2. /\ Leads(A, ForwardPrefillTensorCore(w, x, y, t, yes), B)
          /\ x \in Buffer /\ y \in Buffer /\ x # y /\ w[2] \in DOMAIN Shape
      BY <2>3, <2>13, <3>1 DEF Distinct
    <3>3. env.split = 1 /\ K(w) = k
      BY <1>2, <2>10, <3>1 DEF Shareable
    <3>4. HiStaged(A, A, x, t, K(w))
      BY <2>14, <3>1, <3>3
    <3>5. Projected(A, B, w, x, y, t) /\ HiStaged(B, A, x, t, K(w))
      BY <2>4, <3>2, <3>3, <3>4, TensorCoreProjects
    <3>6. B.buf[x] = A.buf[x]
      BY <3>2, <3>5 DEF Projected, Leaves, SameBut
    <3>7. HiStaged(B, B, x, t, k)
      BY <3>3, <3>5, <3>6 DEF HiStaged
    <3> QED BY <3>1, <3>5, <3>7
  <2>15. \A i \in 1 .. n : Projected(M[i - 1], M[i], ws[i], x, ys[i], t)
    <3>1. HiStaged(M[0], M[0], x, t, k)
      BY <2>12, <2>13
    <3>2. /\ Projected(M[0], M[1], ws[1], x, ys[1], t) /\ HiStaged(M[1], M[1], x, t, k)
      <4>1. 1 \in 1 .. n /\ 1 - 1 = 0
        OBVIOUS
      <4> QED BY <2>14, <3>1, <4>1
    <3>3. /\ Projected(M[1], M[2], ws[2], x, ys[2], t) /\ HiStaged(M[2], M[2], x, t, k)
      <4>1. 2 \in 1 .. n /\ 2 - 1 = 1
        OBVIOUS
      <4> QED BY <2>14, <3>2, <4>1
    <3>4. n >= 3 => Projected(M[2], M[3], ws[3], x, ys[3], t) /\ HiStaged(M[3], M[3], x, t, k)
      <4>1. n >= 3 => 3 \in 1 .. n /\ 3 - 1 = 2
        OBVIOUS
      <4> QED BY <2>14, <3>3, <4>1
    <3>5. n = 4 => Projected(M[3], M[4], ws[4], x, ys[4], t)
      <4>1. n = 4 => n >= 3 /\ 4 \in 1 .. n /\ 4 - 1 = 3
        OBVIOUS
      <4> QED BY <2>14, <3>4, <4>1
    <3>6. ASSUME NEW i \in 1 .. n PROVE Projected(M[i - 1], M[i], ws[i], x, ys[i], t)
      <4>1. \/ i = 1 /\ i - 1 = 0
            \/ i = 2 /\ i - 1 = 1
            \/ i = 3 /\ i - 1 = 2 /\ n >= 3
            \/ i = 4 /\ i - 1 = 3 /\ n = 4
        OBVIOUS
      <4> QED BY <3>2, <3>3, <3>4, <3>5, <4>1
    <3> QED BY <3>6
  <2>16. AllProjected(P, E, x, ws, ys, n, t)
    <3>1. AllProjected(M[0], M[n], x, ws, ys, n, t)
      BY <2>15, SweepProjects
    <3> QED BY <2>13, <3>1
  <2>17. P.buf[x] = D.buf[x]
    BY <2>12 DEF Leaves, SameBut, Distinct
  <2>18. Leaves(D, E, {ys[i] : i \in 1 .. n})
    <3>1. PICK A : A = {ys[i] : i \in 1 .. n}
      OBVIOUS
    <3>2. Leaves(P, E, A)
      BY <2>16, <3>1 DEF AllProjected
    <3>3. Leaves(D, E, A)
      BY <2>12, <3>2 DEF Leaves, SameBut, SameState
    <3> QED BY <3>1, <3>3
  <2>19. \A i \in 1 .. n : Maps1(D, E, ys[i], "linear", ws[i], x, t)
    BY <2>16, <2>17 DEF AllProjected, Maps1
  <2> QED BY <2>18, <2>19 DEF AllProjected
<1> QED BY <1>1, <1>2

\* What the MLP and the residual of a layer make of a row.
MlpOf(l, n) ==
    Lin(l, "down", Term("swiglu", "none", <<Lin(l, "gate", n), Lin(l, "up", n)>>))
BlockOf(l, x, mixed) ==
    LET res == Term("add", "none", <<x, mixed>>)
    IN Term("add", "none", <<res, MlpOf(l, Rms(<<l, "post_ln">>, res))>>)

\* Of the reference's rows it is the reference's block.
LEMMA BlockOfRef ==
    ASSUME NEW l, NEW h, NEW mixed
    PROVE  BlockOf(l, X(l, h), mixed) = RefBlock(l, h, mixed)
BY DEF BlockOf, MlpOf, RefBlock

\* The buffers of a pass.
LEMMA BufferNames ==
    /\ ScratchBuffer \subseteq Buffer
    /\ {"a", "b", "normed", "last", "logits", "idx", "logits_all", "idx_all"} \subseteq Buffer
<1>1. DOMAIN ModelBuffer = {"a", "b", "normed", "last", "logits", "idx", "logits_all", "idx_all"}
  BY DEF ModelBuffer
<1> QED BY <1>1 DEF Buffer

\* What the MLP leaves, whichever way it is run.
MlpBuffers == {"inter", "inter2", "down"}
MlpDone(D, E, l, t) ==
    /\ Leaves(D, E, MlpBuffers)
    /\ \A r \in BufRow : r < t => E.buf["down"][r] = MlpOf(l, D.buf["mlp_in"][r])
MlpWorks(mlp, l, t) == IsSeq(mlp) /\ \A D, E : Leads(D, mlp, E) => MlpDone(D, E, l, t)

\* The steps of the MLP, however its projections are run.
LEMMA MlpSteps ==
    ASSUME NEW D, NEW F, NEW M, NEW E, NEW l, NEW t,
           Leaves(D, F, {"inter", "inter2"}),
           Maps1(D, F, "inter", "linear", W(l, "gate"), "mlp_in", t),
           Maps1(D, F, "inter2", "linear", W(l, "up"), "mlp_in", t),
           Effect(F, SwigluInplace("inter", "inter2", t), M),
           Projected(M, E, W(l, "down"), "inter", "down", t)
    PROVE  MlpDone(D, E, l, t)
<1>1. PICK L : L = SwigluInplace("inter", "inter2", t)
  OBVIOUS
<1>2. Effect(F, L, M)
  BY <1>1
<1>3. L.kind = "rows" /\ L.rows = t /\ L.stores = {Store("inter", "swiglu", "none", <<"inter", "inter2">>)}
  BY <1>1 DEF SwigluInplace, Rows
<1>4. "inter" \in Buffer /\ "inter2" \in Buffer /\ "down" \in Buffer
  BY BufferNames DEF ScratchBuffer
<1>5. Leaves(F, M, {"inter"}) /\ Maps2(F, M, "inter", "swiglu", "none", "inter", "inter2", L.rows)
  BY <1>2, <1>3, <1>4, RowOfTwo
<1>6. Leaves(M, E, {"down"})
  BY DEF Projected
<1>7. Leaves(D, E, MlpBuffers)
  <2>1. SameBut(D, E, MlpBuffers)
    BY <1>5, <1>6 DEF MlpBuffers, Leaves, SameBut
  <2>2. SameState(D, E)
    BY <1>5, <1>6 DEF Leaves, SameState
  <2> QED BY <2>1, <2>2 DEF Leaves
<1>8. ASSUME NEW r \in BufRow, r < t
      PROVE  E.buf["down"][r] = MlpOf(l, D.buf["mlp_in"][r])
  <2>1. PICK n : n = D.buf["mlp_in"][r]
    OBVIOUS
  <2>2. F.buf["inter"][r] = Lin(l, "gate", n) /\ F.buf["inter2"][r] = Lin(l, "up", n)
    BY <1>8, <2>1 DEF Maps1, Lin, W
  <2>3. M.buf["inter"][r] = Term("swiglu", "none", <<Lin(l, "gate", n), Lin(l, "up", n)>>)
    BY <1>3, <1>5, <1>8, <2>2 DEF Maps2
  <2>4. E.buf["down"][r] = Term("linear", W(l, "down"), <<M.buf["inter"][r]>>)
    BY <1>8 DEF Projected, Maps1
  <2>5. E.buf["down"][r] = Lin(l, "down", M.buf["inter"][r])
    BY <2>4 DEF Lin, W
  <2> QED BY <2>1, <2>3, <2>5 DEF MlpOf
<1> QED BY <1>7, <1>8 DEF MlpDone

\* The MLP by GEMVs, and by products.
LEMMA MlpForwardWorks ==
    ASSUME NEW l, NEW t
    PROVE  MlpWorks(MlpForward(l, t), l, t)
<1> DEFINE a == Forward(W(l, "gate"), "mlp_in", "inter", t)
           b == Forward(W(l, "up"), "mlp_in", "inter2", t)
           c == <<SwigluInplace("inter", "inter2", t)>>
           d == Forward(W(l, "down"), "inter", "down", t)
<1>1. MlpForward(l, t) = ((a \o b) \o c) \o d
  BY DEF MlpForward
<1>2. IsSeq(a) /\ IsSeq(b) /\ IsSeq(c) /\ IsSeq(d)
  BY TupleSeq DEF Forward
<1> HIDE DEF a, b, c, d
<1>3. IsSeq(a \o b)
  BY <1>2, ConcatIsSeq
<1>4. IsSeq((a \o b) \o c)
  BY <1>2, <1>3, ConcatIsSeq
<1>5. IsSeq(MlpForward(l, t))
  BY <1>1, <1>2, <1>4, ConcatIsSeq
<1>6. ASSUME NEW D, NEW E, Leads(D, MlpForward(l, t), E)
      PROVE  MlpDone(D, E, l, t)
  <2>1. PICK M : Leads(D, (a \o b) \o c, M) /\ Leads(M, d, E)
    BY <1>1, <1>2, <1>4, <1>6, LeadsConcat
  <2>2. PICK F : Leads(D, a \o b, F) /\ Leads(F, c, M)
    BY <1>2, <1>3, <2>1, LeadsConcat
  <2>3. PICK G : Leads(D, a, G) /\ Leads(G, b, F)
    BY <1>2, <2>2, LeadsConcat
  <2>4. "inter" \in Buffer /\ "inter2" \in Buffer /\ "down" \in Buffer /\ "mlp_in" \in Buffer
    BY BufferNames DEF ScratchBuffer
  <2>5. Projected(D, G, W(l, "gate"), "mlp_in", "inter", t)
    BY <2>3, <2>4, ForwardProjects DEF a
  <2>6. Projected(G, F, W(l, "up"), "mlp_in", "inter2", t)
    BY <2>3, <2>4, ForwardProjects DEF b
  <2>7. Projected(M, E, W(l, "down"), "inter", "down", t)
    BY <2>1, <2>4, ForwardProjects DEF d
  <2>8. Effect(F, SwigluInplace("inter", "inter2", t), M)
    BY <2>2, LeadsOne DEF c
  <2>9. Leaves(D, F, {"inter", "inter2"})
    BY <2>5, <2>6 DEF Projected, Leaves, SameBut, SameState
  <2>10. Maps1(D, F, "inter", "linear", W(l, "gate"), "mlp_in", t)
    BY <2>4, <2>5, <2>6 DEF Projected, Leaves, SameBut, Maps1
  <2>11. Maps1(D, F, "inter2", "linear", W(l, "up"), "mlp_in", t)
    BY <2>4, <2>5, <2>6 DEF Projected, Leaves, SameBut, Maps1
  <2> QED BY <2>7, <2>8, <2>9, <2>10, <2>11, MlpSteps
<1> QED BY <1>5, <1>6 DEF MlpWorks

LEMMA MlpForwardPrefillWorks ==
    ASSUME NEW l, NEW t \in Nat, env.split \in 1 .. 3
    PROVE  MlpWorks(MlpForwardPrefill(l, t), l, t)
<1> DEFINE ws == Ws(l, <<"gate", "up">>)
           outs == <<"inter", "inter2">>
           a == ForwardPrefillSharedInput(ws, "mlp_in", outs, t)
           c == <<SwigluInplace("inter", "inter2", t)>>
           d == ForwardPrefill(W(l, "down"), "inter", "down", t)
<1>1. MlpForwardPrefill(l, t) = (a \o c) \o d
  BY DEF MlpForwardPrefill
<1>2. DOMAIN ws = 1 .. 2 /\ ws[1] = W(l, "gate") /\ ws[2] = W(l, "up") /\ outs[1] = "inter" /\ outs[2] = "inter2"
  BY DEF Ws
<1> HIDE DEF ws, outs
<1>3. IsSeq(a) /\ IsSeq(c) /\ IsSeq(d)
  <2>1. IsSeq(a)
    <3>1. 2 \in {2, 3, 4}
      OBVIOUS
    <3> QED BY <1>2, <3>1, SharedIsSeq
  <2>2. PICK no : no = FALSE
    OBVIOUS
  <2>3. no \in BOOLEAN
    BY <2>2
  <2>4. IsSeq(d)
    BY <2>3, ProjectionsAreSeqs
  <2> QED BY <2>1, <2>4, TupleSeq
<1>4. "gate" \in ProjectionNames /\ "up" \in ProjectionNames /\ "down" \in ProjectionNames
  BY DEF ProjectionNames
<1>5. ws[1][2] \in DOMAIN Shape /\ ws[2][2] \in DOMAIN Shape /\ W(l, "down")[2] \in DOMAIN Shape
  BY <1>2, <1>4, NamesLoaded
<1> HIDE DEF a, c, d
<1>6. IsSeq(a \o c)
  BY <1>3, ConcatIsSeq
<1>7. IsSeq(MlpForwardPrefill(l, t))
  BY <1>1, <1>3, <1>6, ConcatIsSeq
<1>8. "inter" \in Buffer /\ "inter2" \in Buffer /\ "down" \in Buffer /\ "mlp_in" \in Buffer
  BY BufferNames DEF ScratchBuffer
<1>9. Distinct("mlp_in", outs, 2)
  <2>1. \A i \in 1 .. 2 : i = 1 \/ i = 2
    OBVIOUS
  <2> QED BY <1>2, <1>8, <2>1 DEF Distinct
<1>10. ASSUME NEW D, NEW E, Leads(D, MlpForwardPrefill(l, t), E)
       PROVE  MlpDone(D, E, l, t)
  <2>1. PICK M : Leads(D, a \o c, M) /\ Leads(M, d, E)
    BY <1>1, <1>3, <1>6, <1>10, LeadsConcat
  <2>2. PICK F : Leads(D, a, F) /\ Leads(F, c, M)
    BY <1>3, <2>1, LeadsConcat
  <2>3. AllProjected(D, F, "mlp_in", ws, outs, 2, t)
    <3>1. 2 \in {2, 3, 4} /\ \A i \in 1 .. 2 : ws[i][2] \in DOMAIN Shape
      BY <1>5
    <3>2. Leads(D, ForwardPrefillSharedInput(ws, "mlp_in", outs, t), F)
      BY <2>2 DEF a
    <3>3. PICK n : n = 2
      OBVIOUS
    <3>4. AllProjected(D, F, "mlp_in", ws, outs, n, t)
      BY <1>2, <1>9, <3>1, <3>2, <3>3, SharedProjects
    <3> QED BY <3>3, <3>4
  <2>4. Projected(M, E, W(l, "down"), "inter", "down", t)
    BY <1>5, <1>8, <2>1, PrefillProjects DEF d
  <2>5. Effect(F, SwigluInplace("inter", "inter2", t), M)
    BY <2>2, LeadsOne DEF c
  <2>6. Leaves(D, F, {"inter", "inter2"})
    <3>1. {outs[i] : i \in 1 .. 2} = {"inter", "inter2"}
      BY <1>2
    <3> QED BY <2>3, <3>1 DEF AllProjected
  <2>7. /\ Maps1(D, F, "inter", "linear", W(l, "gate"), "mlp_in", t)
        /\ Maps1(D, F, "inter2", "linear", W(l, "up"), "mlp_in", t)
    <3>1. 1 \in 1 .. 2 /\ 2 \in 1 .. 2
      OBVIOUS
    <3> QED BY <1>2, <2>3, <3>1 DEF AllProjected
  <2> QED BY <2>4, <2>5, <2>6, <2>7, MlpSteps
<1> QED BY <1>7, <1>10 DEF MlpWorks

\* What the second half of a layer may change.
BlockBuffers == {"res", "mlp_in", "inter", "inter2", "down", "b"}

\* The second half of a layer: `b` from `a` and `proj`.
LEMMA ResidualWorks ==
    ASSUME NEW l, NEW t, NEW mlp, MlpWorks(mlp, l, t), NEW D, NEW E, Leads(D, Residual(l, t, mlp), E)
    PROVE  /\ Leaves(D, E, BlockBuffers)
           /\ \A r \in BufRow : r < t => E.buf["b"][r] = BlockOf(l, D.buf["a"][r], D.buf["proj"][r])
<1> DEFINE A == Add("a", "proj", "res", t)
           B == RmsnormZeroCentered("res", W(l, "post_ln"), "mlp_in", t)
           C == Add("res", "down", "b", t)
<1>1. A.kind = "rows" /\ A.rows = t /\ A.stores = {Store("res", "add", "none", <<"a", "proj">>)}
  BY DEF Add, Rows
<1>2. B.kind = "rows" /\ B.rows = t /\ B.stores = {Store("mlp_in", "rmsnorm", W(l, "post_ln"), <<"res">>)}
  BY DEF RmsnormZeroCentered, Rows
<1>3. C.kind = "rows" /\ C.rows = t /\ C.stores = {Store("b", "add", "none", <<"res", "down">>)}
  BY DEF Add, Rows
<1>4. Residual(l, t, mlp) = (<<A, B>> \o mlp) \o <<C>>
  BY DEF Residual
<1> HIDE DEF A, B, C
<1>5. IsSeq(mlp) /\ IsSeq(<<A, B>>) /\ IsSeq(<<C>>)
  BY TupleSeq DEF MlpWorks
<1>6. IsSeq(<<A, B>> \o mlp)
  BY <1>5, ConcatIsSeq
<1>7. PICK G : Leads(D, <<A, B>> \o mlp, G) /\ Leads(G, <<C>>, E)
  BY <1>4, <1>5, <1>6, LeadsConcat
<1>8. PICK F : Leads(D, <<A, B>>, F) /\ Leads(F, mlp, G)
  BY <1>5, <1>7, LeadsConcat
<1>9. PICK M : Effect(D, A, M) /\ Effect(M, B, F)
  BY <1>8, LeadsTwo
<1>10. Effect(G, C, E)
  BY <1>7, LeadsOne
<1>11. \A b \in {"a", "proj", "res", "mlp_in", "inter", "inter2", "down", "b"} : b \in Buffer
  BY BufferNames DEF ScratchBuffer
<1>12. Leaves(D, M, {"res"}) /\ Maps2(D, M, "res", "add", "none", "a", "proj", A.rows)
  <2>1. Effect(D, A, M) /\ "res" \in Buffer
    BY <1>9, <1>11
  <2> QED BY <1>1, <2>1, RowOfTwo
<1>13. Leaves(M, F, {"mlp_in"}) /\ Maps1(M, F, "mlp_in", "rmsnorm", W(l, "post_ln"), "res", B.rows)
  BY <1>2, <1>9, <1>11, RowOfOne
<1>14. Leaves(F, G, MlpBuffers) /\ \A r \in BufRow : r < t => G.buf["down"][r] = MlpOf(l, F.buf["mlp_in"][r])
  BY <1>8 DEF MlpWorks, MlpDone
<1>15. Leaves(G, E, {"b"}) /\ Maps2(G, E, "b", "add", "none", "res", "down", C.rows)
  BY <1>3, <1>10, <1>11, RowOfTwo
<1>16. Leaves(D, E, BlockBuffers)
  <2>1. SameBut(D, E, BlockBuffers)
    BY <1>12, <1>13, <1>14, <1>15 DEF BlockBuffers, MlpBuffers, Leaves, SameBut
  <2>2. SameState(D, E)
    BY <1>12, <1>13, <1>14, <1>15 DEF Leaves, SameState
  <2> QED BY <2>1, <2>2 DEF Leaves
<1>17. ASSUME NEW r \in BufRow, r < t
       PROVE  E.buf["b"][r] = BlockOf(l, D.buf["a"][r], D.buf["proj"][r])
  <2>1. PICK res : res = Term("add", "none", <<D.buf["a"][r], D.buf["proj"][r]>>)
    OBVIOUS
  <2>2. M.buf["res"][r] = res
    BY <1>1, <1>12, <1>17, <2>1 DEF Maps2
  <2>3. F.buf["mlp_in"][r] = Rms(<<l, "post_ln">>, res)
    BY <1>2, <1>13, <1>17, <2>2 DEF Maps1, Rms, W
  <2>4. F.buf["res"] = M.buf["res"]
    BY <1>11, <1>13 DEF Leaves, SameBut
  <2>5. G.buf["res"] = F.buf["res"]
    BY <1>11, <1>14 DEF Leaves, SameBut, MlpBuffers
  <2>6. G.buf["down"][r] = MlpOf(l, Rms(<<l, "post_ln">>, res))
    BY <1>14, <1>17, <2>3
  <2>7. E.buf["b"][r] = Term("add", "none", <<G.buf["res"][r], G.buf["down"][r]>>)
    BY <1>3, <1>15, <1>17 DEF Maps2
  <2>8. G.buf["res"][r] = res
    BY <2>2, <2>4, <2>5
  <2> QED BY <2>1, <2>6, <2>7, <2>8 DEF BlockOf
<1> QED BY <1>16, <1>17

-----------------------------------------------------------------------------
(* What comes before and after a mixer.                                     *)

\* Streams that do the input projections, or the output projection.
InsWork(ins, l, names, outs, n, t) ==
    /\ IsSeq(ins)
    /\ \A D, E : Leads(D, ins, E) =>
         AllProjected(D, E, "hidden", [i \in 1 .. n |-> W(l, names[i])], outs, n, t)
OutWorks(out, w, x, y, t) ==
    IsSeq(out) /\ \A D, E : Leads(D, out, E) => Projected(D, E, w, x, y, t)

\* The projections of the two kinds of layer, and where they go.
LEMMA DeltaNames ==
    /\ DOMAIN DeltaIns = 1 .. 4 /\ Distinct("hidden", DeltaOuts, 4)
    /\ DeltaIns[1] = "in_proj_qkv" /\ DeltaIns[2] = "in_proj_z"
    /\ DeltaIns[3] = "in_proj_a" /\ DeltaIns[4] = "in_proj_b"
    /\ DeltaOuts[1] = "qkv" /\ DeltaOuts[2] = "z" /\ DeltaOuts[3] = "a_proj" /\ DeltaOuts[4] = "b_proj"
    /\ \A i \in 1 .. 4 : DeltaIns[i] \in ProjectionNames
<1>1. \A i \in 1 .. 4 : i = 1 \/ i = 2 \/ i = 3 \/ i = 4
  OBVIOUS
<1>2. /\ DeltaIns[1] = "in_proj_qkv" /\ DeltaIns[2] = "in_proj_z"
      /\ DeltaIns[3] = "in_proj_a" /\ DeltaIns[4] = "in_proj_b" /\ DOMAIN DeltaIns = 1 .. 4
  BY DEF DeltaIns
<1>3. DeltaOuts[1] = "qkv" /\ DeltaOuts[2] = "z" /\ DeltaOuts[3] = "a_proj" /\ DeltaOuts[4] = "b_proj"
  BY DEF DeltaOuts
<1>4. \A b \in {"hidden", "qkv", "z", "a_proj", "b_proj"} : b \in Buffer
  BY BufferNames DEF ScratchBuffer
<1>5. Distinct("hidden", DeltaOuts, 4)
  BY <1>1, <1>3, <1>4 DEF Distinct
<1>6. \A i \in 1 .. 4 : DeltaIns[i] \in ProjectionNames
  BY <1>1, <1>2 DEF ProjectionNames
<1> QED BY <1>2, <1>3, <1>5, <1>6

LEMMA AttnNames ==
    /\ DOMAIN AttnIns = 1 .. 3 /\ Distinct("hidden", AttnOuts, 3)
    /\ AttnIns[1] = "q_proj" /\ AttnIns[2] = "k_proj" /\ AttnIns[3] = "v_proj"
    /\ AttnOuts[1] = "fused" /\ AttnOuts[2] = "kb" /\ AttnOuts[3] = "vb"
    /\ \A i \in 1 .. 3 : AttnIns[i] \in ProjectionNames
<1>1. \A i \in 1 .. 3 : i = 1 \/ i = 2 \/ i = 3
  OBVIOUS
<1>2. /\ AttnIns[1] = "q_proj" /\ AttnIns[2] = "k_proj" /\ AttnIns[3] = "v_proj"
      /\ DOMAIN AttnIns = 1 .. 3
  BY DEF AttnIns
<1>3. AttnOuts[1] = "fused" /\ AttnOuts[2] = "kb" /\ AttnOuts[3] = "vb"
  BY DEF AttnOuts
<1>4. \A b \in {"hidden", "fused", "kb", "vb"} : b \in Buffer
  BY BufferNames DEF ScratchBuffer
<1>5. Distinct("hidden", AttnOuts, 3)
  BY <1>1, <1>3, <1>4 DEF Distinct
<1>6. \A i \in 1 .. 3 : AttnIns[i] \in ProjectionNames
  BY <1>1, <1>2 DEF ProjectionNames
<1> QED BY <1>2, <1>3, <1>5, <1>6

\* The input projections by GEMVs, and over one staging.
LEMMA GemvInsWork ==
    ASSUME NEW n \in {2, 3, 4}, NEW l, NEW names, NEW outs, NEW t, Distinct("hidden", outs, n)
    PROVE  InsWork(FlattenSeq([i \in 1 .. n |-> Forward(W(l, names[i]), "hidden", outs[i], t)]),
                   l, names, outs, n, t)
<1>1. PICK seqs : seqs = [i \in 1 .. n |-> Forward(W(l, names[i]), "hidden", outs[i], t)]
  OBVIOUS
<1>2. seqs = [i \in 1 .. n |-> seqs[i]] /\ \A i \in 1 .. n : seqs[i] = Forward(W(l, names[i]), "hidden", outs[i], t)
  BY <1>1
<1>3. \A i \in 1 .. n : IsSeq(seqs[i])
  BY <1>2, TupleSeq DEF Forward
<1>4. IsSeq(FlattenSeq(seqs))
  BY <1>2, <1>3, FlattenIsSeq
<1>5. ASSUME NEW D, NEW E, Leads(D, FlattenSeq(seqs), E)
      PROVE  AllProjected(D, E, "hidden", [i \in 1 .. n |-> W(l, names[i])], outs, n, t)
  <2>1. Leads(D, FlattenSeq([i \in 1 .. n |-> Forward(W(l, names[i]), "hidden", outs[i], t)]), E)
    BY <1>1, <1>5
  <2> QED BY <2>1, ForwardsProject
<1>6. InsWork(FlattenSeq(seqs), l, names, outs, n, t)
  BY <1>4, <1>5 DEF InsWork
<1> QED BY <1>1, <1>6

LEMMA SharedInsWork ==
    ASSUME NEW n \in {2, 3, 4}, NEW l, NEW names, DOMAIN names = 1 .. n,
           \A i \in 1 .. n : names[i] \in ProjectionNames,
           NEW outs, NEW t \in Nat, Distinct("hidden", outs, n), env.split \in 1 .. 3
    PROVE  InsWork(ForwardPrefillSharedInput(Ws(l, names), "hidden", outs, t), l, names, outs, n, t)
<1>1. PICK ws : ws = Ws(l, names)
  OBVIOUS
<1>2. DOMAIN ws = 1 .. n /\ ws = [i \in 1 .. n |-> W(l, names[i])]
  BY <1>1 DEF Ws
<1>3. ASSUME NEW i \in 1 .. n PROVE ws[i][2] \in DOMAIN Shape
  BY <1>2, NamesLoaded
<1>4. IsSeq(ForwardPrefillSharedInput(ws, "hidden", outs, t))
  BY <1>2, SharedIsSeq
<1>5. ASSUME NEW D, NEW E, Leads(D, ForwardPrefillSharedInput(ws, "hidden", outs, t), E)
      PROVE  AllProjected(D, E, "hidden", ws, outs, n, t)
  BY <1>2, <1>3, <1>5, SharedProjects
<1>6. ASSUME NEW D, NEW E, Leads(D, ForwardPrefillSharedInput(ws, "hidden", outs, t), E)
      PROVE  AllProjected(D, E, "hidden", [i \in 1 .. n |-> W(l, names[i])], outs, n, t)
  BY <1>2, <1>5, <1>6
<1>7. InsWork(ForwardPrefillSharedInput(ws, "hidden", outs, t), l, names, outs, n, t)
  BY <1>4, <1>6 DEF InsWork
<1> QED BY <1>1, <1>7

\* The output projection by a GEMV, and as a product.
LEMMA GemvOutWorks ==
    ASSUME NEW w, NEW x, NEW y \in Buffer, NEW t
    PROVE  OutWorks(Forward(w, x, y, t), w, x, y, t)
<1>1. IsSeq(Forward(w, x, y, t))
  BY TupleSeq DEF Forward
<1>2. ASSUME NEW D, NEW E, Leads(D, Forward(w, x, y, t), E)
      PROVE  Projected(D, E, w, x, y, t)
  BY <1>2, ForwardProjects
<1> QED BY <1>1, <1>2 DEF OutWorks

LEMMA PrefillOutWorks ==
    ASSUME NEW w, w[2] \in DOMAIN Shape, NEW x \in Buffer, NEW y \in Buffer, x # y, NEW t \in Nat,
           env.split \in 1 .. 3
    PROVE  OutWorks(ForwardPrefill(w, x, y, t), w, x, y, t)
<1>1. IsSeq(ForwardPrefill(w, x, y, t))
  <2>1. PICK no : no = FALSE
    OBVIOUS
  <2>2. no \in BOOLEAN
    BY <2>1
  <2> QED BY <2>2, ProjectionsAreSeqs
<1>2. ASSUME NEW D, NEW E, Leads(D, ForwardPrefill(w, x, y, t), E)
      PROVE  Projected(D, E, w, x, y, t)
  BY <1>2, PrefillProjects
<1> QED BY <1>1, <1>2 DEF OutWorks

\* The input norm and the projections: row r of each output from row r of `a`.
InputOf(l, x) == Rms(<<l, "input_ln">>, x)

InsDone(D, E, l, t, n, names, outs) ==
    /\ Leaves(D, E, {"hidden"} \union {outs[i] : i \in 1 .. n})
    /\ \A i \in 1 .. n : \A r \in BufRow : r < t =>
         E.buf[outs[i]][r] = Lin(l, names[i], InputOf(l, D.buf["a"][r]))

\* What a mixer takes of each row.
LEMMA InputsProjected ==
    ASSUME NEW l, NEW t, NEW n \in Nat, NEW ins, NEW names, NEW outs, Distinct("hidden", outs, n),
           InsWork(ins, l, names, outs, n, t), NEW D, NEW E, Leads(D, InNorm(l, t) \o ins, E)
    PROVE  InsDone(D, E, l, t, n, names, outs)
<1>1. PICK A : A = RmsnormZeroCentered("a", W(l, "input_ln"), "hidden", t)
  OBVIOUS
<1>2. A.kind = "rows" /\ A.rows = t /\ A.stores = {Store("hidden", "rmsnorm", W(l, "input_ln"), <<"a">>)}
  BY <1>1 DEF RmsnormZeroCentered, Rows
<1>3. InNorm(l, t) = <<A>>
  BY <1>1 DEF InNorm
<1>4. IsSeq(ins) /\ IsSeq(InNorm(l, t))
  BY <1>3, TupleSeq DEF InsWork
<1>5. PICK M : Leads(D, InNorm(l, t), M) /\ Leads(M, ins, E)
  BY <1>4, LeadsConcat
<1>6. Effect(D, A, M)
  BY <1>3, <1>5, LeadsOne
<1>7. "hidden" \in Buffer
  BY DEF Distinct
<1>8. Leaves(D, M, {"hidden"}) /\ Maps1(D, M, "hidden", "rmsnorm", W(l, "input_ln"), "a", A.rows)
  BY <1>2, <1>6, <1>7, RowOfOne
<1>9. PICK ws : ws = [i \in 1 .. n |-> W(l, names[i])]
  OBVIOUS
<1>10. AllProjected(M, E, "hidden", ws, outs, n, t)
  BY <1>5, <1>9 DEF InsWork
<1>11. Leaves(D, E, {"hidden"} \union {outs[i] : i \in 1 .. n})
  <2>1. PICK P, Q : P = {"hidden"} /\ Q = {outs[i] : i \in 1 .. n}
    OBVIOUS
  <2>2. Leaves(D, M, P) /\ Leaves(M, E, Q)
    BY <1>8, <1>10, <2>1 DEF AllProjected
  <2>3. Leaves(D, E, P \union Q)
    BY <2>2, LeavesOn
  <2> QED BY <2>1, <2>3
<1>12. ASSUME NEW i \in 1 .. n, NEW r \in BufRow, r < t
       PROVE  E.buf[outs[i]][r] = Lin(l, names[i], InputOf(l, D.buf["a"][r]))
  <2>1. Maps1(M, E, outs[i], "linear", ws[i], "hidden", t) /\ ws[i] = W(l, names[i])
    BY <1>9, <1>10, <1>12 DEF AllProjected
  <2>2. E.buf[outs[i]][r] = Term("linear", W(l, names[i]), <<M.buf["hidden"][r]>>)
    BY <1>12, <2>1 DEF Maps1
  <2>3. M.buf["hidden"][r] = InputOf(l, D.buf["a"][r])
    BY <1>2, <1>8, <1>12 DEF Maps1, InputOf, Rms, W
  <2> QED BY <2>2, <2>3 DEF Lin, W
<1> QED BY <1>11, <1>12 DEF InsDone

-----------------------------------------------------------------------------
(* The DeltaNet mixer over a lane.                                          *)

\* Row i of a lane is that of the first n0 + i tokens of H, up to its k-th, the whole of H.
OfLane(lane, H, n0, k) ==
    H \in Past /\ n0 \in Nat /\ k \in 1 .. Len(lane.rows) /\ n0 + k = Len(H)

\* The contexts of the rows of a lane.
LEMMA OfLaneFacts ==
    ASSUME NEW lane, NEW H, NEW n0, NEW k, OfLane(lane, H, n0, k)
    PROVE  /\ H \in Context /\ n0 \in 0 .. Len(H) /\ k \in Nat /\ Len(H) \in 1 .. Ctx
           /\ Prefix(H, n0 + k) = H /\ Prefix(H, n0) \in Context /\ Len(Prefix(H, n0)) = n0
           /\ \A i \in 1 .. k : /\ i \in 1 .. Len(lane.rows) /\ n0 + i \in 1 .. Len(H)
                                /\ Prefix(H, n0 + i) \in Past /\ Len(Prefix(H, n0 + i)) = n0 + i
<1>1. H \in Context /\ Len(H) \in 1 .. Ctx /\ Prefix(H, Len(H)) = H
  BY PastFacts DEF OfLane
<1>2. n0 \in 0 .. Len(H) /\ k \in Nat /\ n0 + k = Len(H)
  <2>1. k \in Int /\ k >= 1
    BY DEF OfLane
  <2> QED BY <1>1, <2>1 DEF OfLane
<1>3. Prefix(H, n0) \in Context /\ Len(Prefix(H, n0)) = n0
  BY <1>1, <1>2, PrefixFacts
<1>4. ASSUME NEW i \in 1 .. k
      PROVE  /\ i \in 1 .. Len(lane.rows) /\ n0 + i \in 1 .. Len(H)
             /\ Prefix(H, n0 + i) \in Past /\ Len(Prefix(H, n0 + i)) = n0 + i
  <2>1. i \in 1 .. Len(lane.rows)
    BY <1>2 DEF OfLane
  <2>2. n0 + i \in 1 .. Len(H) /\ n0 + i \in 0 .. Len(H) /\ n0 + i > 0
    BY <1>1, <1>2
  <2>3. PICK m : m = n0 + i
    OBVIOUS
  <2>4. Len(Prefix(H, m)) = m /\ Prefix(H, m) \in Past
    BY <1>1, <2>2, <2>3, PrefixFacts
  <2> QED BY <2>1, <2>2, <2>3, <2>4
<1> QED BY <1>1, <1>2, <1>3, <1>4

\* The ConvHist + 1 inputs the i-th row sees.
Slid(hist, fed, i) == SubSeq(hist \o fed, i, i + ConvHist)
FedFrom(fed, l, H, n0, i) ==
    IsSeq(fed) /\ i <= Len(fed) /\ \A m \in 1 .. i : fed[m] = RefQkv(l, Prefix(H, n0 + m))

\* The inputs a row's conv sees are those of its own context: the history before the
\* lane, then the lane's rows before it.
LEMMA WindowSlides ==
    ASSUME NEW l, NEW H \in Context, NEW n0 \in Nat, NEW i \in Nat \ {0}, n0 + i <= Len(H),
           NEW hist, hist = RefWindow(l, Prefix(H, n0), ConvHist), NEW fed, FedFrom(fed, l, H, n0, i)
    PROVE  Slid(hist, fed, i) = RefWindow(l, Prefix(H, n0 + i), ConvHist + 1)
<1>1. ConvHist \in Nat /\ H \in Seq(Token) /\ Len(H) \in Nat
  BY SizesAreNat, ContextIsSeq
<1>15. IsSeq(fed) /\ i <= Len(fed) /\ \A m \in 1 .. i : fed[m] = RefQkv(l, Prefix(H, n0 + m))
  BY DEF FedFrom
<1>2. Len(Prefix(H, n0)) = n0 /\ \A m \in 0 .. n0 : Prefix(Prefix(H, n0), m) = Prefix(H, m)
  <2>1. n0 \in 0 .. Len(H)
    BY <1>1
  <2> QED BY <2>1, PrefixFacts
<1>3. Len(Prefix(H, n0 + i)) = n0 + i /\ \A m \in 0 .. n0 + i : Prefix(Prefix(H, n0 + i), m) = Prefix(H, m)
  <2>1. PICK n : n = n0 + i
    OBVIOUS
  <2>2. n \in 0 .. Len(H)
    BY <1>1, <2>1
  <2>3. Len(Prefix(H, n)) = n /\ \A m \in 0 .. n : Prefix(Prefix(H, n), m) = Prefix(H, m)
    BY <2>2, PrefixFacts
  <2> QED BY <2>1, <2>3
<1>4. hist = [j \in 1 .. ConvHist |->
                IF n0 - ConvHist + j >= 1 THEN RefQkv(l, Prefix(H, n0 - ConvHist + j)) ELSE Zero]
  <2>1. ASSUME NEW j \in 1 .. ConvHist
        PROVE  hist[j] = IF n0 - ConvHist + j >= 1 THEN RefQkv(l, Prefix(H, n0 - ConvHist + j)) ELSE Zero
    <3>1. hist[j] = IF n0 - ConvHist + j >= 1
                    THEN RefQkv(l, Prefix(Prefix(H, n0), n0 - ConvHist + j)) ELSE Zero
      BY <1>2 DEF RefWindow
    <3>2. n0 - ConvHist + j >= 1 => n0 - ConvHist + j \in 0 .. n0
      BY <1>1
    <3> QED BY <1>2, <3>1, <3>2
  <2>2. hist = [j \in 1 .. ConvHist |-> hist[j]]
    BY DEF RefWindow
  <2> QED BY <2>1, <2>2
<1>5. IsSeq(hist) /\ Len(hist) = ConvHist /\ DOMAIN hist = 1 .. ConvHist
  <2>1. hist = [j \in 1 .. ConvHist |-> hist[j]]
    BY <1>4
  <2>2. IsSeq(hist)
    BY <1>1, <2>1, FunctionIsSeq
  <2>3. DOMAIN hist = 1 .. ConvHist
    BY <2>1
  <2>4. Len(hist) = ConvHist
    BY <1>1, <2>2, <2>3 DEF IsSeq
  <2> QED BY <2>2, <2>3, <2>4
<1>6. PICK all : all = hist \o fed
  OBVIOUS
<1>7. /\ IsSeq(all) /\ Len(all) = ConvHist + Len(fed) /\ Len(fed) \in Nat
      /\ \A j \in 1 .. ConvHist : all[j] = hist[j]
      /\ \A j \in 1 .. Len(fed) : all[ConvHist + j] = fed[j]
  <2>1. /\ IsSeq(hist \o fed) /\ Len(fed) \in Nat
        /\ DOMAIN (hist \o fed) = 1 .. Len(hist) + Len(fed)
        /\ \A j \in 1 .. Len(hist) : (hist \o fed)[j] = hist[j]
        /\ \A j \in 1 .. Len(fed) : (hist \o fed)[Len(hist) + j] = fed[j]
    BY <1>5, <1>15, ConcatSeq
  <2>2. DOMAIN all = 1 .. ConvHist + Len(fed)
    BY <1>5, <1>6, <2>1
  <2>3. Len(all) = ConvHist + Len(fed)
    BY <1>1, <1>6, <2>1, <2>2 DEF IsSeq
  <2> QED BY <1>5, <1>6, <2>1, <2>3
<1>8. PICK S : all \in Seq(S)
  BY <1>7 DEF IsSeq
<1>9. SubSeq(all, i, i + ConvHist) = [j \in 1 .. ConvHist + 1 |-> all[i + j - 1]]
  <2>1. i \in 1 .. Len(all) + 1 /\ i + ConvHist \in 0 .. Len(all) /\ i + ConvHist - i + 1 = ConvHist + 1
    BY <1>1, <1>7, <1>15
  <2>2. PICK sub : sub = SubSeq(all, i, i + ConvHist)
    OBVIOUS
  <2>3. sub \in Seq(S) /\ Len(sub) = ConvHist + 1 /\ \A j \in 1 .. ConvHist + 1 : sub[j] = all[i + j - 1]
    BY <1>1, <1>8, <2>1, <2>2
  <2>4. sub = [j \in 1 .. ConvHist + 1 |-> sub[j]]
    BY <2>3
  <2> QED BY <2>2, <2>3, <2>4
<1>10. ASSUME NEW j \in 1 .. ConvHist + 1
       PROVE  all[i + j - 1]
                = IF n0 + i - (ConvHist + 1) + j >= 1
                  THEN RefQkv(l, Prefix(H, n0 + i - (ConvHist + 1) + j)) ELSE Zero
  <2>1. CASE i + j - 1 <= ConvHist
    <3>1. i + j - 1 \in 1 .. ConvHist
      BY <1>1, <2>1
    <3>2. PICK m : m = i + j - 1
      OBVIOUS
    <3>3. n0 - ConvHist + m = n0 + i - (ConvHist + 1) + j
      BY <1>1, <3>2
    <3>4. all[m] = IF n0 - ConvHist + m >= 1 THEN RefQkv(l, Prefix(H, n0 - ConvHist + m)) ELSE Zero
      BY <1>4, <1>7, <3>1, <3>2
    <3> QED BY <3>2, <3>3, <3>4
  <2>2. CASE i + j - 1 > ConvHist
    <3>1. PICK m : m = i + j - 1 - ConvHist
      OBVIOUS
    <3>2. m \in 1 .. i /\ m \in 1 .. Len(fed) /\ ConvHist + m = i + j - 1
      BY <1>1, <1>7, <1>15, <2>2, <3>1
    <3>3. n0 + m = n0 + i - (ConvHist + 1) + j /\ n0 + m >= 1
      BY <1>1, <3>1, <3>2
    <3>4. all[ConvHist + m] = RefQkv(l, Prefix(H, n0 + m))
      BY <1>7, <1>15, <3>2
    <3> QED BY <3>2, <3>3, <3>4
  <2> QED BY <1>1, <2>1, <2>2
<1>11. PICK win : win = RefWindow(l, Prefix(H, n0 + i), ConvHist + 1)
  OBVIOUS
<1>12. win = [j \in 1 .. ConvHist + 1 |-> win[j]]
  BY <1>11 DEF RefWindow
<1>13. ASSUME NEW j \in 1 .. ConvHist + 1
       PROVE  win[j] = IF n0 + i - (ConvHist + 1) + j >= 1
                       THEN RefQkv(l, Prefix(H, n0 + i - (ConvHist + 1) + j)) ELSE Zero
  <2>1. win[j] = IF n0 + i - (ConvHist + 1) + j >= 1
                 THEN RefQkv(l, Prefix(Prefix(H, n0 + i), n0 + i - (ConvHist + 1) + j)) ELSE Zero
    <3>1. PICK p, c, n : p = Prefix(H, n0 + i) /\ c = ConvHist + 1 /\ n = n0 + i
      OBVIOUS
    <3>2. win = RefWindow(l, p, c) /\ Len(p) = n /\ j \in 1 .. c
      BY <1>3, <1>11, <3>1
    <3>3. win[j] = IF n - c + j >= 1 THEN RefQkv(l, Prefix(p, n - c + j)) ELSE Zero
      BY <3>2 DEF RefWindow
    <3> QED BY <3>1, <3>3
  <2>2. CASE n0 + i - (ConvHist + 1) + j >= 1
    <3>1. n0 + i - (ConvHist + 1) + j \in 0 .. n0 + i
      BY <1>1, <2>2
    <3> QED BY <1>3, <2>1, <2>2, <3>1
  <2> QED BY <2>1, <2>2
<1>14. \A j \in 1 .. ConvHist + 1 : all[i + j - 1] = win[j]
  BY <1>10, <1>13
<1> QED BY <1>6, <1>9, <1>11, <1>12, <1>14 DEF Slid

\* What other layers keep is untouched.
Beyond(D, E, l) ==
    \A m \in Layer \ {l} : /\ E.conv[m] = D.conv[m] /\ E.rec[m] = D.rec[m]
                           /\ E.kv[m] = D.kv[m] /\ E.keys[m] = D.keys[m]

\* What a DeltaNet mixer takes of row r.
DeltaIn(D, l, r, h) ==
    /\ D.buf["qkv"][r] = RefQkv(l, h)
    /\ D.buf["a_proj"][r] = Lin(l, "in_proj_a", RefIn(l, h))
    /\ D.buf["b_proj"][r] = Lin(l, "in_proj_b", RefIn(l, h))

\* The recurrence is that of the lane's first n0 tokens, the rows are those of the next.
DeltaLane(D, l, lane, H, n0, k) ==
    /\ OfLane(lane, H, n0, k)
    /\ D.rec[l][lane.seq] = RefState(l, Prefix(H, n0))
    /\ [j \in 1 .. ConvHist |-> D.conv[l][lane.seq * ConvHist + j - 1]]
         = RefWindow(l, Prefix(H, n0), ConvHist)
    /\ \A i \in 1 .. k : DeltaIn(D, l, lane.rows[i], Prefix(H, n0 + i))

\* A row of a lane is a row of the buffers.
LEMMA LaneRow ==
    ASSUME NEW lanes, Lanes(lanes), NEW lane \in lanes, NEW H, NEW n0, NEW k, OfLane(lane, H, n0, k),
           NEW i \in 1 .. k
    PROVE  lane.rows[i] \in BufRow /\ lane.seq \in Seqs /\ Len(lane.rows) \in 1 .. Ctx
<1>1. i \in 1 .. Len(lane.rows)
  BY OfLaneFacts
<1> QED BY <1>1 DEF Lanes

\* The conv of a lane's row reads the last inputs of its own context.
LEMMA ConvWindows ==
    ASSUME NEW D, NEW L, NEW E, Effect(D, L, E), NEW l, NEW lanes, Lanes(lanes),
           L.kind = "conv", L.layer = l, L.lanes = lanes,
           NEW lane \in lanes, NEW H, NEW n0, NEW k, DeltaLane(D, l, lane, H, n0, k),
           NEW i \in 1 .. k
    PROVE  E.buf["conv"][lane.rows[i]] = Term("conv", l, RefWindow(l, Prefix(H, n0 + i), ConvHist + 1))
<1>1. OfLane(lane, H, n0, k)
  BY DEF DeltaLane
<1>2. PICK n : n = Len(lane.rows)
  OBVIOUS
<1>3. /\ i \in 1 .. n /\ n \in 1 .. Ctx /\ n0 + i \in 1 .. Len(H) /\ k \in Nat
      /\ H \in Context /\ n0 \in Nat /\ Len(H) \in 1 .. Ctx
  <2>1. i \in 1 .. n /\ n \in 1 .. Ctx
    BY <1>1, <1>2, LaneRow, OfLaneFacts
  <2>2. n0 + i \in 1 .. Len(H) /\ k \in Nat /\ H \in Context /\ Len(H) \in 1 .. Ctx
    BY <1>1, OfLaneFacts
  <2> QED BY <1>1, <2>1, <2>2 DEF OfLane
<1>4. PICK hist, fed : /\ hist = [j \in 1 .. ConvHist |-> D.conv[l][lane.seq * ConvHist + j - 1]]
                       /\ fed = [j \in 1 .. n |-> D.buf["qkv"][lane.rows[j]]]
  OBVIOUS
<1>5. E.buf["conv"][lane.rows[i]] = Term("conv", l, Slid(hist, fed, i))
  <2>1. Inputs(D, L, lane) = hist \o fed
    BY <1>2, <1>4 DEF Inputs
  <2>2. E.buf["conv"][lane.rows[i]] = Term("conv", l, SubSeq(Inputs(D, L, lane), i, i + ConvHist))
    BY <1>2, <1>3 DEF Effect, ConvEffect
  <2> QED BY <2>1, <2>2 DEF Slid
<1>6. IsSeq(fed) /\ Len(fed) = n
  <2>1. n \in Nat
    BY <1>3, SizesAreNat
  <2>2. fed = [j \in 1 .. n |-> fed[j]] /\ DOMAIN fed = 1 .. n
    BY <1>4
  <2>3. IsSeq(fed)
    BY <2>1, <2>2, FunctionIsSeq
  <2> QED BY <2>1, <2>2, <2>3 DEF IsSeq
<1>7. ASSUME NEW m \in 1 .. i
      PROVE  fed[m] = RefQkv(l, Prefix(H, n0 + m))
  <2>1. m \in 1 .. k /\ m \in 1 .. n
    BY <1>3
  <2> QED BY <1>4, <2>1 DEF DeltaLane, DeltaIn
<1>8. hist = RefWindow(l, Prefix(H, n0), ConvHist)
  BY <1>4 DEF DeltaLane
<1>9. i \in Nat \ {0} /\ n0 + i <= Len(H) /\ FedFrom(fed, l, H, n0, i)
  BY <1>3, <1>6, <1>7 DEF FedFrom
<1>10. Slid(hist, fed, i) = RefWindow(l, Prefix(H, n0 + i), ConvHist + 1)
  BY <1>3, <1>8, <1>9, WindowSlides
<1> QED BY <1>5, <1>10

\* The state a lane's rows leave, one after the other.
LEMMA RuleReads ==
    ASSUME NEW D, NEW L, NEW E, Effect(D, L, E), NEW l, NEW lanes, Lanes(lanes),
           L.kind = "rule", L.layer = l, L.lanes = lanes,
           NEW lane \in lanes, NEW H, NEW n0, NEW k, OfLane(lane, H, n0, k),
           D.rec[l][lane.seq] = RefState(l, Prefix(H, n0)),
           \A i \in 1 .. k : /\ D.buf["conv_ln"][lane.rows[i]] = RefConv(l, Prefix(H, n0 + i))
                             /\ D.buf["decay"][lane.rows[i]] = DecayOf(l, Prefix(H, n0 + i))
                             /\ D.buf["beta"][lane.rows[i]] = BetaOf(l, Prefix(H, n0 + i))
    PROVE  E.buf["attn"][lane.rows[k]] = Term("read", l, <<RefState(l, H), RefConv(l, H)>>)
<1>1. PICK n : n = Len(lane.rows)
  OBVIOUS
<1>2. /\ H \in Context /\ n0 \in Nat /\ k \in 1 .. n /\ n \in 1 .. Ctx /\ n \in Nat
      /\ n0 + k = Len(H) /\ Prefix(H, n0 + k) = H /\ Len(H) \in 1 .. Ctx
  <2>1. H \in Context /\ Prefix(H, n0 + k) = H /\ Len(H) \in 1 .. Ctx
    BY OfLaneFacts
  <2>2. n \in 1 .. Ctx
    BY <1>1 DEF Lanes
  <2> QED BY <1>1, <2>1, <2>2, SizesAreNat DEF OfLane
<1>3. PICK A, B, C : /\ A = [i \in 1 .. n |-> D.buf["conv_ln"][lane.rows[i]]]
                     /\ B = [i \in 1 .. n |-> D.buf["decay"][lane.rows[i]]]
                     /\ C = [i \in 1 .. n |-> D.buf["beta"][lane.rows[i]]]
  OBVIOUS
<1>4. PICK f : /\ Chain(f, n, RefState(l, Prefix(H, n0)), l, A, B, C)
               /\ \A i \in 1 .. n : E.buf["attn"][lane.rows[i]]
                    = Term("read", l, <<f[i], D.buf["conv_ln"][lane.rows[i]]>>)
  <2>1. PICK f : /\ Follows(D, L, lane, f)
                 /\ \A i \in 1 .. n : E.buf["attn"][lane.rows[i]]
                      = Term("read", l, <<f[i], D.buf["conv_ln"][lane.rows[i]]>>)
    <3>1. RuleEffect(D, L, E) /\ Lanes(L.lanes) /\ lane \in L.lanes
      BY DEF Effect
    <3>2. \E f : /\ Follows(D, L, lane, f)
                 /\ \A i \in 1 .. Len(lane.rows) : E.buf["attn"][lane.rows[i]]
                      = Term("read", L.layer, <<f[i], D.buf["conv_ln"][lane.rows[i]]>>)
      BY <3>1 DEF RuleEffect
    <3> QED BY <1>1, <3>2
  <2>2. Chain(f, n, RefState(l, Prefix(H, n0)), l, A, B, C)
    BY <1>1, <1>3, <2>1 DEF Follows
  <2> QED BY <2>1, <2>2
<1>5. f[0] = RefState(l, Prefix(H, n0)) /\ \A i \in 1 .. n : f[i] = Advance(l, f[i - 1], A[i], B[i], C[i])
  BY <1>2, <1>4, ChainFacts
<1>6. PICK g : g = [i \in 0 .. k |-> RefState(l, Prefix(H, n0 + i))]
  OBVIOUS
<1>7. f[0] = g[0]
  <2>1. n0 + 0 = n0 /\ 0 \in 0 .. k
    BY <1>2
  <2> QED BY <1>5, <1>6, <2>1
<1>8. FedAlike(f, g, k, l)
  <2>1. ASSUME NEW i \in 1 .. k
        PROVE  \E a, b, c : /\ f[i] = Advance(l, f[i - 1], a, b, c)
                            /\ g[i] = Advance(l, g[i - 1], a, b, c)
    <3>1. i \in 1 .. n /\ i \in 0 .. k /\ i - 1 \in 0 .. k /\ n0 + i \in 1 .. Len(H) /\ (n0 + i) - 1 = n0 + (i - 1)
      BY <1>2
    <3>2. PICK m : m = n0 + i
      OBVIOUS
    <3>3. RefState(l, Prefix(H, m))
            = Advance(l, RefState(l, Prefix(H, m - 1)), RefConv(l, Prefix(H, m)),
                      DecayOf(l, Prefix(H, m)), BetaOf(l, Prefix(H, m)))
      BY <1>2, <3>1, <3>2, RefStateChain
    <3>4. g[i] = RefState(l, Prefix(H, m)) /\ g[i - 1] = RefState(l, Prefix(H, m - 1))
      BY <1>6, <3>1, <3>2
    <3>5. A[i] = RefConv(l, Prefix(H, m)) /\ B[i] = DecayOf(l, Prefix(H, m)) /\ C[i] = BetaOf(l, Prefix(H, m))
      BY <1>3, <3>1, <3>2
    <3>6. g[i] = Advance(l, g[i - 1], A[i], B[i], C[i])
      BY <3>3, <3>4, <3>5
    <3> QED BY <1>5, <3>1, <3>6
  <2> QED BY <2>1 DEF FedAlike
<1>9. f[k] = g[k]
  <2>1. k \in Nat /\ k \in 0 .. k
    BY <1>2
  <2> QED BY <1>7, <1>8, <2>1, ChainsAgree
<1>10. f[k] = RefState(l, H) /\ D.buf["conv_ln"][lane.rows[k]] = RefConv(l, H)
  <2>1. k \in 0 .. k /\ k \in 1 .. k
    BY <1>2
  <2> QED BY <1>2, <1>6, <1>9, <2>1
<1> QED BY <1>2, <1>4, <1>10

\* What a DeltaNet mixer leaves: each lane's row read from its own recurrence.
DeltaBuffers == {"conv", "conv_ln", "decay", "beta", "attn"}
DeltaMixes(D, E, l, lanes) ==
    /\ SameBut(D, E, DeltaBuffers) /\ Beyond(D, E, l)
    /\ \A lane \in lanes : \A H, n0, k :
         DeltaLane(D, l, lane, H, n0, k) =>
           E.buf["attn"][lane.rows[k]] = Term("read", l, <<RefState(l, H), RefConv(l, H)>>)

\* The rows of the lanes are among the first t.
RowsBelow(lanes, t) == \A lane \in lanes : \A i \in 1 .. Len(lane.rows) : lane.rows[i] < t

\* The six launches of the mixer, on any of the three paths.
DeltaSix(c, cp, q, n, g, u, l, lanes, t) ==
    /\ c.kind = "conv" /\ c.layer = l /\ c.lanes = lanes
    /\ cp.kind = "copy" /\ cp.src = "conv" /\ cp.dst = "conv_ln" /\ cp.from = 0 /\ cp.rows = t
    /\ q.kind = "rows" /\ q.rows = t /\ q.stores = {Store("conv_ln", "l2norm", "q", <<"conv_ln">>)}
    /\ n.kind = "rows" /\ n.rows = t /\ n.stores = {Store("conv_ln", "l2norm", "k", <<"conv_ln">>)}
    /\ g.kind = "rows" /\ g.rows = t /\ g.stores = DeltaGateStores(l)
    /\ u.kind = "rule" /\ u.layer = l /\ u.lanes = lanes

\* The decay and the update rate of each row.
LEMMA GatesStored ==
    ASSUME NEW D, NEW L, NEW E, Effect(D, L, E), NEW l, L.kind = "rows", L.stores = DeltaGateStores(l)
    PROVE  /\ Leaves(D, E, {"decay", "beta"})
           /\ Maps1(D, E, "decay", "decay", l, "a_proj", L.rows)
           /\ Maps1(D, E, "beta", "beta", l, "b_proj", L.rows)
<1>1. RowsEffect(D, L, E)
  BY DEF Effect
<1>2. PICK v, w : /\ v = Store("decay", "decay", l, <<"a_proj">>) /\ w = Store("beta", "beta", l, <<"b_proj">>)
                  /\ L.stores = {v, w}
  BY DEF DeltaGateStores
<1>3. /\ v.out = "decay" /\ v.op = "decay" /\ v.w = l /\ v.ins = <<"a_proj">>
      /\ w.out = "beta" /\ w.op = "beta" /\ w.w = l /\ w.ins = <<"b_proj">>
  BY <1>2 DEF Store
<1>4. {x.out : x \in L.stores} = {"decay", "beta"}
  BY <1>2, <1>3
<1>5. Keeps(D, E, {"decay", "beta"})
  BY <1>1, <1>4 DEF RowsEffect
<1>6. "decay" \in Buffer /\ "beta" \in Buffer
  BY BufferNames DEF ScratchBuffer
<1>7. ASSUME NEW r \in BufRow, r < L.rows
      PROVE  /\ E.buf["decay"][r] = Term("decay", l, <<D.buf["a_proj"][r]>>)
             /\ E.buf["beta"][r] = Term("beta", l, <<D.buf["b_proj"][r]>>)
  <2>1. E.buf["decay"][r] = RowTerm(D, "decay", l, <<"a_proj">>, r)
    BY <1>1, <1>2, <1>3, <1>6, <1>7 DEF RowsEffect
  <2>2. E.buf["beta"][r] = RowTerm(D, "beta", l, <<"b_proj">>, r)
    BY <1>1, <1>2, <1>3, <1>6, <1>7 DEF RowsEffect
  <2>3. RowTerm(D, "decay", l, <<"a_proj">>, r) = Term("decay", l, <<D.buf["a_proj"][r]>>)
    BY DEF RowTerm
  <2>4. RowTerm(D, "beta", l, <<"b_proj">>, r) = Term("beta", l, <<D.buf["b_proj"][r]>>)
    BY DEF RowTerm
  <2> QED BY <2>1, <2>2, <2>3, <2>4
<1> QED BY <1>5, <1>7 DEF Keeps, Leaves, Maps1

\* On any path the mixer reads the recurrence of the row's own context.
LEMMA DeltaSixMixes ==
    ASSUME NEW c, NEW cp, NEW q, NEW n, NEW g, NEW u, NEW l, NEW lanes, NEW t,
           DeltaSix(c, cp, q, n, g, u, l, lanes, t), Lanes(lanes), RowsBelow(lanes, t),
           NEW D, NEW E, Leads(D, <<c, cp, q, n, g, u>>, E)
    PROVE  DeltaMixes(D, E, l, lanes)
<1>1. PICK D1, D2, D3, D4, D5 :
        /\ Effect(D, c, D1) /\ Effect(D1, cp, D2) /\ Effect(D2, q, D3)
        /\ Effect(D3, n, D4) /\ Effect(D4, g, D5) /\ Effect(D5, u, E)
  BY LeadsSix
<1>2. \A b \in {"qkv", "conv", "conv_ln", "decay", "beta", "attn", "a_proj", "b_proj"} : b \in Buffer
  BY BufferNames DEF ScratchBuffer
<1>3. "conv" \in Buffer /\ "conv_ln" \in Buffer
  BY <1>2
<1>4. /\ SameBut(D, D1, {"conv"}) /\ D1.rec = D.rec /\ D1.kv = D.kv /\ D1.keys = D.keys
      /\ \A m \in Layer \ {l} : D1.conv[m] = D.conv[m]
  BY <1>1 DEF DeltaSix, Effect, ConvEffect
<1>5. /\ Leaves(D1, D2, {"conv_ln"})
      /\ \A r \in BufRow : r < t => D2.buf["conv_ln"][r] = D1.buf["conv"][r]
  <2>1. CopyEffect(D1, cp, D2) /\ cp.kind = "copy"
    BY <1>1 DEF Effect, DeltaSix
  <2>2. cp.src = "conv" /\ cp.dst = "conv_ln" /\ cp.from = 0 /\ cp.rows = t
    BY DEF DeltaSix
  <2>3. Keeps(D1, D2, {"conv_ln"})
    BY <2>1, <2>2 DEF CopyEffect
  <2>4. ASSUME NEW r \in BufRow, r < t
        PROVE  D2.buf["conv_ln"][r] = D1.buf["conv"][r]
    <3>1. D2.buf["conv_ln"][r] = D1.buf["conv"][0 + r]
      BY <1>3, <2>1, <2>2, <2>4 DEF CopyEffect
    <3>2. 0 + r = r
      BY SizesAreNat DEF BufRow
    <3> QED BY <3>1, <3>2
  <2> QED BY <2>3, <2>4 DEF Keeps, Leaves
<1>6. Leaves(D2, D3, {"conv_ln"}) /\ Maps1(D2, D3, "conv_ln", "l2norm", "q", "conv_ln", t)
  <2>1. Effect(D2, q, D3) /\ q.kind = "rows" /\ q.rows = t
        /\ q.stores = {Store("conv_ln", "l2norm", "q", <<"conv_ln">>)}
    BY <1>1 DEF DeltaSix
  <2>2. Leaves(D2, D3, {"conv_ln"}) /\ Maps1(D2, D3, "conv_ln", "l2norm", "q", "conv_ln", q.rows)
    <3>1. PICK L, A, B : L = q /\ A = D2 /\ B = D3
      OBVIOUS
    <3>2. Effect(A, L, B) /\ L.kind = "rows" /\ L.stores = {Store("conv_ln", "l2norm", "q", <<"conv_ln">>)}
      BY <2>1, <3>1
    <3>3. Leaves(A, B, {"conv_ln"}) /\ Maps1(A, B, "conv_ln", "l2norm", "q", "conv_ln", L.rows)
      BY <1>3, <3>2, RowOfOne
    <3> QED BY <3>1, <3>3
  <2> QED BY <2>1, <2>2
<1>7. Leaves(D3, D4, {"conv_ln"}) /\ Maps1(D3, D4, "conv_ln", "l2norm", "k", "conv_ln", t)
  <2>1. Effect(D3, n, D4) /\ n.kind = "rows" /\ n.rows = t
        /\ n.stores = {Store("conv_ln", "l2norm", "k", <<"conv_ln">>)}
    BY <1>1 DEF DeltaSix
  <2>2. Leaves(D3, D4, {"conv_ln"}) /\ Maps1(D3, D4, "conv_ln", "l2norm", "k", "conv_ln", n.rows)
    BY <1>3, <2>1, RowOfOne
  <2> QED BY <2>1, <2>2
<1>8. /\ Leaves(D4, D5, {"decay", "beta"})
      /\ Maps1(D4, D5, "decay", "decay", l, "a_proj", t)
      /\ Maps1(D4, D5, "beta", "beta", l, "b_proj", t)
  <2>1. Effect(D4, g, D5) /\ g.kind = "rows" /\ g.rows = t /\ g.stores = DeltaGateStores(l)
    BY <1>1 DEF DeltaSix
  <2>2. /\ Leaves(D4, D5, {"decay", "beta"})
        /\ Maps1(D4, D5, "decay", "decay", l, "a_proj", g.rows)
        /\ Maps1(D4, D5, "beta", "beta", l, "b_proj", g.rows)
    BY <2>1, GatesStored
  <2> QED BY <2>1, <2>2
<1>9. /\ SameBut(D5, E, {"attn"}) /\ E.conv = D5.conv /\ E.kv = D5.kv /\ E.keys = D5.keys
      /\ \A m \in Layer \ {l} : E.rec[m] = D5.rec[m]
  BY <1>1 DEF DeltaSix, Effect, RuleEffect
<1>10. SameBut(D, E, DeltaBuffers)
  BY <1>4, <1>5, <1>6, <1>7, <1>8, <1>9 DEF Leaves, SameBut, DeltaBuffers
<1>11. Beyond(D, E, l)
  BY <1>4, <1>5, <1>6, <1>7, <1>8, <1>9 DEF Leaves, SameState, Beyond
<1>12. ASSUME NEW lane \in lanes, NEW H, NEW n0, NEW k, DeltaLane(D, l, lane, H, n0, k)
       PROVE  E.buf["attn"][lane.rows[k]] = Term("read", l, <<RefState(l, H), RefConv(l, H)>>)
  <2>1. OfLane(lane, H, n0, k)
    BY <1>12 DEF DeltaLane
  <2>2. ASSUME NEW i \in 1 .. k
        PROVE  /\ D5.buf["conv_ln"][lane.rows[i]] = RefConv(l, Prefix(H, n0 + i))
               /\ D5.buf["decay"][lane.rows[i]] = DecayOf(l, Prefix(H, n0 + i))
               /\ D5.buf["beta"][lane.rows[i]] = BetaOf(l, Prefix(H, n0 + i))
    <3>1. PICK r, p : r = lane.rows[i] /\ p = Prefix(H, n0 + i)
      OBVIOUS
    <3>2. r \in BufRow /\ r < t /\ i \in 1 .. Len(lane.rows)
      <4>1. r \in BufRow
        BY <2>1, <3>1, LaneRow
      <4>2. i \in 1 .. Len(lane.rows)
        BY <2>1, OfLaneFacts
      <4> QED BY <3>1, <4>1, <4>2 DEF RowsBelow
    <3>3. Len(p) = n0 + i
      BY <2>1, <3>1, OfLaneFacts
    <3>4. D1.buf["conv"][r] = Term("conv", l, RefWindow(l, p, ConvHist + 1))
      BY <1>1, <1>12, <3>1, ConvWindows DEF DeltaSix
    <3>5. D2.buf["conv_ln"][r] = Term("conv", l, RefWindow(l, p, ConvHist + 1))
      BY <1>5, <3>2, <3>4
    <3>6. D4.buf["conv_ln"][r] = RefConv(l, p)
      BY <1>6, <1>7, <3>2, <3>5 DEF Maps1, RefConv
    <3>7. D5.buf["conv_ln"] = D4.buf["conv_ln"]
      BY <1>3, <1>8 DEF Leaves, SameBut
    <3>8. /\ D4.buf["a_proj"] = D.buf["a_proj"] /\ D4.buf["b_proj"] = D.buf["b_proj"]
      BY <1>2, <1>4, <1>5, <1>6, <1>7 DEF Leaves, SameBut
    <3>9. DeltaIn(D, l, r, p)
      BY <1>12, <3>1 DEF DeltaLane
    <3>10. D5.buf["decay"][r] = DecayOf(l, p) /\ D5.buf["beta"][r] = BetaOf(l, p)
      BY <1>8, <3>2, <3>8, <3>9 DEF Maps1, DecayOf, BetaOf, DeltaIn
    <3> QED BY <3>1, <3>6, <3>7, <3>10
  <2>3. D5.rec[l][lane.seq] = RefState(l, Prefix(H, n0))
    <3>1. D5.rec = D.rec
      BY <1>4, <1>5, <1>6, <1>7, <1>8 DEF Leaves, SameState
    <3> QED BY <1>12, <3>1 DEF DeltaLane
  <2>4. Effect(D5, u, E) /\ u.kind = "rule" /\ u.layer = l /\ u.lanes = lanes
    BY <1>1 DEF DeltaSix
  <2> QED BY <2>1, <2>2, <2>3, <2>4, RuleReads
<1> QED BY <1>10, <1>11, <1>12 DEF DeltaMixes

\* Streams in five and in seven parts.
LEMMA LeadsFive ==
    ASSUME NEW D, NEW E, NEW s1, NEW s2, NEW s3, NEW s4, NEW s5,
           IsSeq(s1), IsSeq(s2), IsSeq(s3), IsSeq(s4), IsSeq(s5),
           Leads(D, s1 \o s2 \o s3 \o s4 \o s5, E)
    PROVE  \E D1, D2, D3, D4 :
             /\ Leads(D, s1, D1) /\ Leads(D1, s2, D2) /\ Leads(D2, s3, D3)
             /\ Leads(D3, s4, D4) /\ Leads(D4, s5, E)
<1>1. PICK a : a = s1 \o s2
  OBVIOUS
<1>2. PICK b : b = a \o s3
  OBVIOUS
<1>3. PICK c : c = b \o s4
  OBVIOUS
<1>4. IsSeq(a)
  BY <1>1, ConcatIsSeq
<1>5. IsSeq(b)
  BY <1>2, <1>4, ConcatIsSeq
<1>6. IsSeq(c)
  BY <1>3, <1>5, ConcatIsSeq
<1>7. Leads(D, c \o s5, E)
  BY <1>1, <1>2, <1>3
<1>8. PICK D4 : Leads(D, c, D4) /\ Leads(D4, s5, E)
  BY <1>6, <1>7, LeadsConcat
<1>9. PICK D3 : Leads(D, b, D3) /\ Leads(D3, s4, D4)
  BY <1>3, <1>5, <1>8, LeadsConcat
<1>10. PICK D2 : Leads(D, a, D2) /\ Leads(D2, s3, D3)
  BY <1>2, <1>4, <1>9, LeadsConcat
<1>11. PICK D1 : Leads(D, s1, D1) /\ Leads(D1, s2, D2)
  BY <1>1, <1>10, LeadsConcat
<1> QED BY <1>8, <1>9, <1>10, <1>11

LEMMA LeadsSeven ==
    ASSUME NEW D, NEW E, NEW s1, NEW s2, NEW s3, NEW s4, NEW s5, NEW s6, NEW s7,
           IsSeq(s1), IsSeq(s2), IsSeq(s3), IsSeq(s4), IsSeq(s5), IsSeq(s6), IsSeq(s7),
           Leads(D, s1 \o s2 \o s3 \o s4 \o s5 \o s6 \o s7, E)
    PROVE  \E D1, D2, D3, D4, D5, D6 :
             /\ Leads(D, s1, D1) /\ Leads(D1, s2, D2) /\ Leads(D2, s3, D3) /\ Leads(D3, s4, D4)
             /\ Leads(D4, s5, D5) /\ Leads(D5, s6, D6) /\ Leads(D6, s7, E)
<1>1. PICK a : a = s1 \o s2
  OBVIOUS
<1>2. PICK b : b = a \o s3
  OBVIOUS
<1>3. IsSeq(a)
  BY <1>1, ConcatIsSeq
<1>4. IsSeq(b)
  BY <1>2, <1>3, ConcatIsSeq
<1>5. Leads(D, b \o s4 \o s5 \o s6 \o s7, E)
  BY <1>1, <1>2
<1>6. PICK D3, D4, D5, D6 :
        /\ Leads(D, b, D3) /\ Leads(D3, s4, D4)
        /\ Leads(D4, s5, D5) /\ Leads(D5, s6, D6) /\ Leads(D6, s7, E)
  BY <1>4, <1>5, LeadsFive
<1>7. PICK D2 : Leads(D, a, D2) /\ Leads(D2, s3, D3)
  BY <1>2, <1>3, <1>6, LeadsConcat
<1>8. PICK D1 : Leads(D, s1, D1) /\ Leads(D1, s2, D2)
  BY <1>1, <1>7, LeadsConcat
<1> QED BY <1>6, <1>7, <1>8

\* The second half of a layer is a stream.
LEMMA ResidualIsSeq ==
    ASSUME NEW l, NEW t, NEW mlp, IsSeq(mlp)
    PROVE  IsSeq(Residual(l, t, mlp))
<1>1. PICK a, b : /\ a = <<Add("a", "proj", "res", t), RmsnormZeroCentered("res", W(l, "post_ln"), "mlp_in", t)>>
                  /\ b = <<Add("res", "down", "b", t)>>
  OBVIOUS
<1>2. IsSeq(a) /\ IsSeq(b)
  BY <1>1, TupleSeq
<1>3. IsSeq(a \o mlp)
  BY <1>2, ConcatIsSeq
<1>4. IsSeq((a \o mlp) \o b)
  BY <1>2, <1>3, ConcatIsSeq
<1> QED BY <1>1, <1>4 DEF Residual

\* What only changes buffers leaves the other layers alone.
LEMMA LeavesBeyond ==
    ASSUME NEW D, NEW E, NEW outs, Leaves(D, E, outs), NEW l
    PROVE  Beyond(D, E, l)
BY DEF Leaves, SameState, Beyond

LEMMA BeyondOn ==
    ASSUME NEW D, NEW E, NEW F, NEW l, Beyond(D, E, l), Beyond(E, F, l)
    PROVE  Beyond(D, F, l)
BY DEF Beyond

\* A lane of a layer's rows as the layer begins.
DeltaStart(D, l, lane, H, n0, k) ==
    /\ OfLane(lane, H, n0, k)
    /\ D.rec[l][lane.seq] = RefState(l, Prefix(H, n0))
    /\ [j \in 1 .. ConvHist |-> D.conv[l][lane.seq * ConvHist + j - 1]]
         = RefWindow(l, Prefix(H, n0), ConvHist)
    /\ \A i \in 1 .. k : D.buf["a"][lane.rows[i]] = X(l, Prefix(H, n0 + i))

\* The projections of a lane's rows are what its mixer takes.
LEMMA DeltaTakes ==
    ASSUME NEW D, NEW E, NEW l, NEW t, NEW lanes, Lanes(lanes), RowsBelow(lanes, t),
           Leaves(D, E, {"hidden"} \union {DeltaOuts[i] : i \in 1 .. 4}),
           \A i \in 1 .. 4 : \A r \in BufRow : r < t =>
             E.buf[DeltaOuts[i]][r] = Lin(l, DeltaIns[i], InputOf(l, D.buf["a"][r])),
           NEW lane \in lanes, NEW H, NEW n0, NEW k, DeltaStart(D, l, lane, H, n0, k)
    PROVE  DeltaLane(E, l, lane, H, n0, k) /\ E.buf["z"][lane.rows[k]] = Lin(l, "in_proj_z", RefIn(l, H))
<1>1. OfLane(lane, H, n0, k)
  BY DEF DeltaStart
<1>2. ASSUME NEW i \in 1 .. k
      PROVE  DeltaIn(E, l, lane.rows[i], Prefix(H, n0 + i))
             /\ E.buf["z"][lane.rows[i]] = Lin(l, "in_proj_z", RefIn(l, Prefix(H, n0 + i)))
  <2>1. PICK r, p : r = lane.rows[i] /\ p = Prefix(H, n0 + i)
    OBVIOUS
  <2>2. r \in BufRow
    BY <1>1, <2>1, LaneRow
  <2>3. r < t
    <3>1. i \in 1 .. Len(lane.rows)
      BY <1>1, OfLaneFacts
    <3> QED BY <2>1, <3>1 DEF RowsBelow
  <2>4. InputOf(l, D.buf["a"][r]) = RefIn(l, p)
    BY <2>1 DEF DeltaStart, InputOf, RefIn
  <2>5. \A j \in 1 .. 4 : E.buf[DeltaOuts[j]][r] = Lin(l, DeltaIns[j], RefIn(l, p))
    BY <2>2, <2>3, <2>4
  <2>6. /\ E.buf["qkv"][r] = Lin(l, "in_proj_qkv", RefIn(l, p))
        /\ E.buf["z"][r] = Lin(l, "in_proj_z", RefIn(l, p))
        /\ E.buf["a_proj"][r] = Lin(l, "in_proj_a", RefIn(l, p))
        /\ E.buf["b_proj"][r] = Lin(l, "in_proj_b", RefIn(l, p))
    <3>1. 1 \in 1 .. 4 /\ 2 \in 1 .. 4 /\ 3 \in 1 .. 4 /\ 4 \in 1 .. 4
      OBVIOUS
    <3> QED BY <2>5, <3>1, DeltaNames
  <2> QED BY <2>1, <2>6 DEF DeltaIn, RefQkv
<1>3. E.rec = D.rec /\ E.conv = D.conv
  BY DEF Leaves, SameState
<1>4. k \in 1 .. k /\ Prefix(H, n0 + k) = H
  <2>1. k >= 1
    BY <1>1 DEF OfLane
  <2> QED BY <1>1, <2>1, OfLaneFacts
<1>5. E.buf["z"][lane.rows[k]] = Lin(l, "in_proj_z", RefIn(l, H))
  BY <1>2, <1>4
<1>6. DeltaLane(E, l, lane, H, n0, k)
  BY <1>2, <1>3 DEF DeltaStart, DeltaLane
<1> QED BY <1>5, <1>6

\* What comes after a mixer makes the layer's output of its row.
Ended(D, E, l, t, w, x) ==
    /\ Beyond(D, E, l)
    /\ \A r \in BufRow : r < t =>
         E.buf["b"][r] = BlockOf(l, D.buf["a"][r], Term("linear", w, <<D.buf[x][r]>>))

\* The output projection and the second half of a layer.
LEMMA LayerEnds ==
    ASSUME NEW l, NEW t, NEW w, NEW x, NEW out, OutWorks(out, w, x, "proj", t),
           NEW mlp, MlpWorks(mlp, l, t), NEW D, NEW M, NEW E,
           Leads(D, out, M), Leads(M, Residual(l, t, mlp), E)
    PROVE  Ended(D, E, l, t, w, x)
<1>1. Leaves(D, M, {"proj"}) /\ Maps1(D, M, "proj", "linear", w, x, t)
  BY DEF OutWorks, Projected
<1>2. /\ Leaves(M, E, BlockBuffers)
      /\ \A r \in BufRow : r < t => E.buf["b"][r] = BlockOf(l, M.buf["a"][r], M.buf["proj"][r])
  BY ResidualWorks
<1>3. M.buf["a"] = D.buf["a"]
  <2>1. "a" \in Buffer
    BY BufferNames
  <2> QED BY <1>1, <2>1 DEF Leaves, SameBut
<1>4. Beyond(D, M, l) /\ Beyond(M, E, l)
  BY <1>1, <1>2, LeavesBeyond
<1>5. Beyond(D, E, l)
  BY <1>4, BeyondOn
<1>6. ASSUME NEW r \in BufRow, r < t
      PROVE  E.buf["b"][r] = BlockOf(l, D.buf["a"][r], Term("linear", w, <<D.buf[x][r]>>))
  <2>1. M.buf["proj"][r] = Term("linear", w, <<D.buf[x][r]>>)
    BY <1>1, <1>6 DEF Maps1
  <2>2. E.buf["b"][r] = BlockOf(l, M.buf["a"][r], M.buf["proj"][r])
    BY <1>2, <1>6
  <2> QED BY <1>3, <2>1, <2>2
<1> QED BY <1>5, <1>6 DEF Ended

\* A recurrent layer, whatever its parts are, leaves the reference in `b`.
DeltaEnds(D, E, l, lanes) ==
    /\ Beyond(D, E, l)
    /\ \A lane \in lanes : \A H, n0, k :
         DeltaStart(D, l, lane, H, n0, k) => E.buf["b"][lane.rows[k]] = OutTable[l][H]

\* The parts of a DeltaNet layer make the whole of it.
LEMMA DeltaWhole ==
    ASSUME NEW l \in DeltaLayer, NEW t, NEW lanes, Lanes(lanes), RowsBelow(lanes, t),
           NEW ins, InsWork(ins, l, DeltaIns, DeltaOuts, 4, t),
           NEW c, NEW cp, NEW q, NEW n, NEW g, NEW u, DeltaSix(c, cp, q, n, g, u, l, lanes, t),
           NEW out, OutWorks(out, W(l, "out_proj"), "gnorm", "proj", t),
           NEW mlp, MlpWorks(mlp, l, t), NEW D, NEW E,
           Leads(D, InNorm(l, t) \o ins \o <<c, cp, q, n, g, u>> \o GatedNorm(l, t) \o out
                      \o Residual(l, t, mlp), E)
    PROVE  DeltaEnds(D, E, l, lanes)
<1>1. PICK head : head = InNorm(l, t) \o ins
  OBVIOUS
<1>2. PICK six : six = <<c, cp, q, n, g, u>>
  OBVIOUS
<1>3. IsSeq(head) /\ IsSeq(six) /\ IsSeq(GatedNorm(l, t)) /\ IsSeq(out) /\ IsSeq(Residual(l, t, mlp))
  <2>1. IsSeq(InNorm(l, t))
    BY TupleSeq DEF InNorm
  <2>2. IsSeq(ins)
    BY DEF InsWork
  <2>3. IsSeq(head)
    BY <1>1, <2>1, <2>2, ConcatIsSeq
  <2>4. IsSeq(six)
    BY <1>2, LongTupleIsSeq
  <2>5. IsSeq(GatedNorm(l, t))
    BY TupleSeq DEF GatedNorm
  <2>6. IsSeq(out) /\ IsSeq(mlp)
    BY DEF OutWorks, MlpWorks
  <2>7. IsSeq(Residual(l, t, mlp))
    BY <2>6, ResidualIsSeq
  <2> QED BY <2>3, <2>4, <2>5, <2>6, <2>7
<1>4. Leads(D, head \o six \o GatedNorm(l, t) \o out \o Residual(l, t, mlp), E)
  BY <1>1, <1>2
<1>5. PICK D1, D2, D3, D4 :
        /\ Leads(D, head, D1) /\ Leads(D1, six, D2) /\ Leads(D2, GatedNorm(l, t), D3)
        /\ Leads(D3, out, D4) /\ Leads(D4, Residual(l, t, mlp), E)
  BY <1>3, <1>4, LeadsFive
<1>6. /\ Leaves(D, D1, {"hidden"} \union {DeltaOuts[i] : i \in 1 .. 4})
      /\ \A i \in 1 .. 4 : \A r \in BufRow : r < t =>
           D1.buf[DeltaOuts[i]][r] = Lin(l, DeltaIns[i], InputOf(l, D.buf["a"][r]))
  <2>1. Leads(D, InNorm(l, t) \o ins, D1)
    BY <1>1, <1>5
  <2>2. InsDone(D, D1, l, t, 4, DeltaIns, DeltaOuts)
    BY <2>1, DeltaNames, InputsProjected
  <2> QED BY <2>2 DEF InsDone
<1>7. DeltaMixes(D1, D2, l, lanes)
  <2>1. Leads(D1, <<c, cp, q, n, g, u>>, D2)
    BY <1>2, <1>5
  <2> QED BY <2>1, DeltaSixMixes
<1>8. /\ Leaves(D2, D3, {"gnorm"})
      /\ Maps2(D2, D3, "gnorm", "rmsnorm_gated", W(l, "norm"), "attn", "z", t)
  <2>1. PICK L : L = RmsnormGated("attn", "z", W(l, "norm"), "gnorm", t)
    OBVIOUS
  <2>2. Effect(D2, L, D3)
    BY <1>5, <2>1, LeadsOne DEF GatedNorm
  <2>3. /\ L.kind = "rows" /\ L.rows = t
        /\ L.stores = {Store("gnorm", "rmsnorm_gated", W(l, "norm"), <<"attn", "z">>)}
    BY <2>1 DEF RmsnormGated, Rows
  <2>4. "gnorm" \in Buffer
    BY BufferNames DEF ScratchBuffer
  <2>5. Leaves(D2, D3, {"gnorm"})
        /\ Maps2(D2, D3, "gnorm", "rmsnorm_gated", W(l, "norm"), "attn", "z", L.rows)
    BY <2>2, <2>3, <2>4, RowOfTwo
  <2> QED BY <2>3, <2>5
<1>9. /\ Beyond(D3, E, l)
      /\ \A r \in BufRow : r < t =>
           E.buf["b"][r] = BlockOf(l, D3.buf["a"][r],
                                   Term("linear", W(l, "out_proj"), <<D3.buf["gnorm"][r]>>))
  <2>1. PICK w, x : w = W(l, "out_proj") /\ x = "gnorm"
    OBVIOUS
  <2>2. OutWorks(out, w, x, "proj", t)
    BY <2>1
  <2>3. Leads(D3, out, D4) /\ Leads(D4, Residual(l, t, mlp), E)
    BY <1>5
  <2>4. Ended(D3, E, l, t, w, x)
    BY <2>2, <2>3, LayerEnds
  <2> QED BY <2>1, <2>4 DEF Ended
<1>10. Beyond(D, E, l)
  <2>1. Beyond(D, D1, l) /\ Beyond(D2, D3, l)
    BY <1>6, <1>8, LeavesBeyond
  <2>2. Beyond(D1, D2, l)
    BY <1>7 DEF DeltaMixes
  <2> QED BY <1>9, <2>1, <2>2, BeyondOn
<1>11. D3.buf["a"] = D.buf["a"] /\ D2.buf["z"] = D1.buf["z"]
  <2>1. "a" \in Buffer /\ "z" \in Buffer
    BY BufferNames DEF ScratchBuffer
  <2>2. "a" \notin {"hidden"} \union {DeltaOuts[i] : i \in 1 .. 4}
    BY DeltaNames DEF DeltaOuts
  <2>3. D1.buf["a"] = D.buf["a"]
    BY <1>6, <2>1, <2>2 DEF Leaves, SameBut
  <2>4. D2.buf["a"] = D1.buf["a"] /\ D2.buf["z"] = D1.buf["z"]
    BY <1>7, <2>1 DEF DeltaMixes, SameBut, DeltaBuffers
  <2>5. D3.buf["a"] = D2.buf["a"]
    BY <1>8, <2>1 DEF Leaves, SameBut
  <2> QED BY <2>3, <2>4, <2>5
<1>12. ASSUME NEW lane \in lanes, NEW H, NEW n0, NEW k, DeltaStart(D, l, lane, H, n0, k)
       PROVE  E.buf["b"][lane.rows[k]] = OutTable[l][H]
  <2>1. DeltaLane(D1, l, lane, H, n0, k) /\ D1.buf["z"][lane.rows[k]] = Lin(l, "in_proj_z", RefIn(l, H))
    BY <1>6, <1>12, DeltaTakes
  <2>2. PICK r : r = lane.rows[k]
    OBVIOUS
  <2>3. OfLane(lane, H, n0, k)
    BY <1>12 DEF DeltaStart
  <2>4. k \in 1 .. k /\ Prefix(H, n0 + k) = H /\ k \in 1 .. Len(lane.rows) /\ H \in Past
    <3>1. k >= 1 /\ k \in 1 .. Len(lane.rows) /\ H \in Past
      BY <2>3 DEF OfLane
    <3> QED BY <2>3, <3>1, OfLaneFacts
  <2>5. r \in BufRow /\ r < t
    <3>1. r \in BufRow
      BY <2>2, <2>3, <2>4, LaneRow
    <3> QED BY <2>2, <2>4, <3>1 DEF RowsBelow
  <2>6. D2.buf["attn"][r] = Term("read", l, <<RefState(l, H), RefConv(l, H)>>)
    BY <1>7, <2>1, <2>2 DEF DeltaMixes
  <2>7. D2.buf["z"][r] = Lin(l, "in_proj_z", RefIn(l, H))
    BY <1>11, <2>1, <2>2
  <2>8. D3.buf["gnorm"][r] = Term("rmsnorm_gated", W(l, "norm"), <<D2.buf["attn"][r], D2.buf["z"][r]>>)
    BY <1>8, <2>5 DEF Maps2
  <2>9. Term("linear", W(l, "out_proj"), <<D3.buf["gnorm"][r]>>) = DeltaMixed(l, H)
    BY <2>6, <2>7, <2>8 DEF DeltaMixed, Lin, W
  <2>10. D3.buf["a"][r] = X(l, H)
    BY <1>11, <1>12, <2>2, <2>4 DEF DeltaStart
  <2>11. E.buf["b"][r] = BlockOf(l, X(l, H), DeltaMixed(l, H))
    BY <1>9, <2>5, <2>9, <2>10
  <2>12. E.buf["b"][r] = RefBlock(l, H, DeltaMixed(l, H))
    BY <2>11, BlockOfRef
  <2>13. OutTable[l][H] = RefBlock(l, H, DeltaMixed(l, H))
    <3>1. l \in Layer
      BY DEF DeltaLayer
    <3> QED BY <2>4, <3>1, OutIsBlock
  <2> QED BY <2>2, <2>12, <2>13
<1> QED BY <1>10, <1>12 DEF DeltaEnds

\* The lanes of one sequence, and of a batch.
LEMMA LanesOfOne ==
    ASSUME NEW s \in Seqs, NEW t \in 1 .. ScratchRows
    PROVE  Lanes(OneLane(s, t)) /\ RowsBelow(OneLane(s, t), t)
<1>1. PICK x : x = [seq |-> s, rows |-> [i \in 1 .. t |-> i - 1]]
  OBVIOUS
<1>2. OneLane(s, t) = {x}
  BY <1>1 DEF OneLane
<1>3. t \in Nat /\ t >= 1 /\ t <= Ctx /\ Ctx \in Nat
  BY SizesAreNat
<1>4. Len(x.rows) = t /\ x.seq = s /\ \A i \in 1 .. t : x.rows[i] = i - 1
  BY <1>1, <1>3
<1>5. t \in 1 .. Ctx /\ \A i \in 1 .. t : i - 1 \in BufRow /\ i - 1 < t
  BY <1>3 DEF BufRow
<1>6. \A i, j \in 1 .. t : x.rows[i] = x.rows[j] => i = j
  BY <1>4, <1>3
<1> QED BY <1>2, <1>4, <1>5, <1>6 DEF Lanes, RowsBelow

LEMMA LanesOfSeqs ==
    ASSUME NEW n \in 1 .. NSeq
    PROVE  /\ Lanes(LanePerSeq(n)) /\ RowsBelow(LanePerSeq(n), n)
           /\ \A lane \in LanePerSeq(n) : lane = [seq |-> lane.seq, rows |-> <<lane.seq>>]
                                          /\ lane.seq \in 0 .. n - 1 /\ lane.seq \in Seqs
           /\ \A s \in 0 .. n - 1 : [seq |-> s, rows |-> <<s>>] \in LanePerSeq(n)
<1>1. n \in Nat /\ n >= 1 /\ n <= Ctx /\ Ctx \in Nat /\ NSeq \in Nat /\ n <= NSeq
  BY SizesAreNat
<1>2. ASSUME NEW lane \in LanePerSeq(n)
      PROVE  /\ lane = [seq |-> lane.seq, rows |-> <<lane.seq>>]
             /\ lane.seq \in 0 .. n - 1 /\ lane.seq \in Seqs /\ lane.seq \in BufRow /\ lane.seq < n
             /\ lane.rows = <<lane.seq>> /\ Len(lane.rows) = 1 /\ lane.rows[1] = lane.seq
  <2>1. PICK s \in 0 .. n - 1 : lane = [seq |-> s, rows |-> <<s>>]
    BY DEF LanePerSeq
  <2>2. s \in Seqs /\ s \in BufRow /\ s < n
    BY <1>1 DEF Seqs, BufRow
  <2> QED BY <2>1, <2>2
<1>3. 1 \in 1 .. Ctx /\ \A i \in 1 .. 1 : i = 1
  BY <1>1
<1>4. \A s \in 0 .. n - 1 : [seq |-> s, rows |-> <<s>>] \in LanePerSeq(n)
  BY DEF LanePerSeq
<1>5. ASSUME NEW x \in LanePerSeq(n), NEW y \in LanePerSeq(n), x.seq = y.seq
      PROVE  x = y
  BY <1>2, <1>5
<1>6. Lanes(LanePerSeq(n))
  <2>1. ASSUME NEW x \in LanePerSeq(n)
        PROVE  x.seq \in Seqs /\ Len(x.rows) \in 1 .. Ctx /\ \A i \in 1 .. Len(x.rows) : x.rows[i] \in BufRow
    BY <1>2, <1>3
  <2>2. ASSUME NEW x \in LanePerSeq(n), NEW y \in LanePerSeq(n), NEW i \in 1 .. Len(x.rows),
               NEW j \in 1 .. Len(y.rows), x.rows[i] = y.rows[j]
        PROVE  x = y /\ i = j
    <3>1. i = 1 /\ j = 1
      BY <1>2, <1>3, <2>2
    <3>2. x.seq = y.seq
      BY <1>2, <2>2, <3>1
    <3> QED BY <1>5, <3>1, <3>2
  <2> QED BY <2>1, <2>2 DEF Lanes
<1>7. RowsBelow(LanePerSeq(n), n)
  BY <1>2, <1>3 DEF RowsBelow
<1> QED BY <1>2, <1>4, <1>6, <1>7

\* The whole of a chunk's rows is copied: the scratch holds them.
LEMMA CopyLiveCopies ==
    ASSUME NEW t \in 1 .. ScratchRows, NEW L, L = CopyLive("conv", "conv_ln", t)
    PROVE  /\ L.kind = "copy" /\ L.src = "conv" /\ L.dst = "conv_ln" /\ L.from = 0 /\ L.rows = t
<1>1. Capacity("conv_ln") = ScratchRows
  BY DEF Capacity, ScratchBuffer
<1>2. (IF t < ScratchRows THEN t ELSE ScratchRows) = t
  BY SizesAreNat
<1>3. L = Copy("conv", "conv_ln", 0, t, Sizes)
  BY <1>1, <1>2 DEF CopyLive
<1> QED BY <1>3 DEF Copy

\* The six launches of every path are the six of DeltaSix.
LEMMA SixStand ==
    ASSUME NEW l, NEW t \in 1 .. ScratchRows, NEW lanes, NEW a, NEW b, NEW d, NEW e, NEW f
    PROVE  DeltaSix(Stateful("conv", l, lanes, 0, FALSE, a), CopyLive("conv", "conv_ln", t),
                    Rows({Store("conv_ln", "l2norm", "q", <<"conv_ln">>)}, t, b),
                    Rows({Store("conv_ln", "l2norm", "k", <<"conv_ln">>)}, t, d),
                    Rows(DeltaGateStores(l), t, e), Stateful("rule", l, lanes, 0, FALSE, f),
                    l, lanes, t)
<1>1. PICK c : c = Stateful("conv", l, lanes, 0, FALSE, a)
  OBVIOUS
<1>2. PICK cp : cp = CopyLive("conv", "conv_ln", t)
  OBVIOUS
<1>3. PICK q : q = Rows({Store("conv_ln", "l2norm", "q", <<"conv_ln">>)}, t, b)
  OBVIOUS
<1>4. PICK n : n = Rows({Store("conv_ln", "l2norm", "k", <<"conv_ln">>)}, t, d)
  OBVIOUS
<1>5. PICK g : g = Rows(DeltaGateStores(l), t, e)
  OBVIOUS
<1>6. PICK u : u = Stateful("rule", l, lanes, 0, FALSE, f)
  OBVIOUS
<1>7. c.kind = "conv" /\ c.layer = l /\ c.lanes = lanes
  BY <1>1 DEF Stateful
<1>8. cp.kind = "copy" /\ cp.src = "conv" /\ cp.dst = "conv_ln" /\ cp.from = 0 /\ cp.rows = t
  BY <1>2, CopyLiveCopies
<1>9. q.kind = "rows" /\ q.rows = t /\ q.stores = {Store("conv_ln", "l2norm", "q", <<"conv_ln">>)}
  BY <1>3 DEF Rows
<1>10. n.kind = "rows" /\ n.rows = t /\ n.stores = {Store("conv_ln", "l2norm", "k", <<"conv_ln">>)}
  BY <1>4 DEF Rows
<1>11. g.kind = "rows" /\ g.rows = t /\ g.stores = DeltaGateStores(l)
  BY <1>5 DEF Rows
<1>12. u.kind = "rule" /\ u.layer = l /\ u.lanes = lanes
  BY <1>6 DEF Stateful
<1>13. DeltaSix(c, cp, q, n, g, u, l, lanes, t)
  BY <1>7, <1>8, <1>9, <1>10, <1>11, <1>12 DEF DeltaSix
<1> QED BY <1>1, <1>2, <1>3, <1>4, <1>5, <1>6, <1>13

\* The three paths through a DeltaNet layer: a token, a batch, a chunk.
LEMMA DeltaForwardEnds ==
    ASSUME NEW l \in DeltaLayer, NEW D, NEW E, Leads(D, DeltaForward(l), E)
    PROVE  DeltaEnds(D, E, l, OneLane(0, 1))
<1>1. 1 \in 1 .. ScratchRows /\ 0 \in Seqs
  BY SizesAreNat, OneRow DEF Seqs
<1>2. PICK lanes : lanes = OneLane(0, 1)
  OBVIOUS
<1>3. Lanes(lanes) /\ RowsBelow(lanes, 1)
  BY <1>1, <1>2, LanesOfOne
<1>4. PICK ins : ins = FlattenSeq([i \in 1 .. 4 |-> Forward(W(l, DeltaIns[i]), "hidden", DeltaOuts[i], 1)])
  OBVIOUS
<1>5. InsWork(ins, l, DeltaIns, DeltaOuts, 4, 1)
  BY <1>4, DeltaNames, GemvInsWork
<1>6. PICK c, cp, q, n, g, u :
        /\ c = Conv1dStepSilu(l) /\ cp = CopyLive("conv", "conv_ln", 1) /\ q = L2normScale("q")
        /\ n = L2normScale("k") /\ g = DeltaGate(l) /\ u = GatedDeltaRuleStep(l)
  OBVIOUS
<1>7. DeltaSix(c, cp, q, n, g, u, l, lanes, 1)
  BY <1>1, <1>2, <1>6, SixStand DEF Conv1dStepSilu, L2normScale, DeltaGate, GatedDeltaRuleStep
<1>8. PICK out : out = Forward(W(l, "out_proj"), "gnorm", "proj", 1)
  OBVIOUS
<1>9. OutWorks(out, W(l, "out_proj"), "gnorm", "proj", 1)
  <2>1. "proj" \in Buffer
    BY BufferNames DEF ScratchBuffer
  <2> QED BY <1>8, <2>1, GemvOutWorks
<1>10. PICK mlp : mlp = MlpForward(l, 1)
  OBVIOUS
<1>11. MlpWorks(mlp, l, 1)
  BY <1>10, MlpForwardWorks
<1>12. Leads(D, InNorm(l, 1) \o ins \o <<c, cp, q, n, g, u>> \o GatedNorm(l, 1) \o out
                  \o Residual(l, 1, mlp), E)
  BY <1>4, <1>6, <1>8, <1>10 DEF DeltaForward
<1>13. DeltaEnds(D, E, l, lanes)
  BY <1>3, <1>5, <1>7, <1>9, <1>11, <1>12, DeltaWhole
<1> QED BY <1>2, <1>13

LEMMA DeltaForwardBatchEnds ==
    ASSUME NEW l \in DeltaLayer, NEW t \in 1 .. NSeq, NEW D, NEW E, Leads(D, DeltaForwardBatch(l, t), E)
    PROVE  DeltaEnds(D, E, l, LanePerSeq(t))
<1>1. t \in 1 .. ScratchRows
  BY SizesAreNat
<1>2. PICK lanes : lanes = LanePerSeq(t)
  OBVIOUS
<1>3. Lanes(lanes) /\ RowsBelow(lanes, t)
  BY <1>2, LanesOfSeqs
<1>4. PICK ins : ins = FlattenSeq([i \in 1 .. 4 |-> Forward(W(l, DeltaIns[i]), "hidden", DeltaOuts[i], t)])
  OBVIOUS
<1>5. InsWork(ins, l, DeltaIns, DeltaOuts, 4, t)
  BY <1>4, DeltaNames, GemvInsWork
<1>6. PICK c, cp, q, n, g, u :
        /\ c = Conv1dStepSiluMulti(l, t) /\ cp = CopyLive("conv", "conv_ln", t)
        /\ q = L2normScaleBatched("q", t) /\ n = L2normScaleBatched("k", t)
        /\ g = DeltaGateBatched(l, t) /\ u = GatedDeltaRuleStepMulti(l, t)
  OBVIOUS
<1>7. DeltaSix(c, cp, q, n, g, u, l, lanes, t)
  BY <1>1, <1>2, <1>6, SixStand
     DEF Conv1dStepSiluMulti, L2normScaleBatched, DeltaGateBatched, GatedDeltaRuleStepMulti
<1>8. PICK out : out = Forward(W(l, "out_proj"), "gnorm", "proj", t)
  OBVIOUS
<1>9. OutWorks(out, W(l, "out_proj"), "gnorm", "proj", t)
  <2>1. "proj" \in Buffer
    BY BufferNames DEF ScratchBuffer
  <2> QED BY <1>8, <2>1, GemvOutWorks
<1>10. PICK mlp : mlp = MlpForward(l, t)
  OBVIOUS
<1>11. MlpWorks(mlp, l, t)
  BY <1>10, MlpForwardWorks
<1>12. Leads(D, InNorm(l, t) \o ins \o <<c, cp, q, n, g, u>> \o GatedNorm(l, t) \o out
                  \o Residual(l, t, mlp), E)
  BY <1>4, <1>6, <1>8, <1>10 DEF DeltaForwardBatch
<1>13. DeltaEnds(D, E, l, lanes)
  BY <1>3, <1>5, <1>7, <1>9, <1>11, <1>12, DeltaWhole
<1> QED BY <1>2, <1>13

LEMMA DeltaForwardPrefillEnds ==
    ASSUME NEW l \in DeltaLayer, NEW s \in Seqs, NEW t \in 1 .. ScratchRows, env.split \in 1 .. 3,
           NEW D, NEW E, Leads(D, DeltaForwardPrefill(l, s, t), E)
    PROVE  DeltaEnds(D, E, l, OneLane(s, t))
<1>1. t \in Nat
  OBVIOUS
<1>2. PICK lanes : lanes = OneLane(s, t)
  OBVIOUS
<1>3. Lanes(lanes) /\ RowsBelow(lanes, t)
  BY <1>2, LanesOfOne
<1>4. PICK ins : ins = ForwardPrefillSharedInput(Ws(l, DeltaIns), "hidden", DeltaOuts, t)
  OBVIOUS
<1>5. InsWork(ins, l, DeltaIns, DeltaOuts, 4, t)
  BY <1>1, <1>4, DeltaNames, SharedInsWork
<1>6. PICK c, cp, q, n, g, u :
        /\ c = Conv1dPrefillSilu(l, s, t) /\ cp = CopyLive("conv", "conv_ln", t)
        /\ q = L2normScaleBatched("q", t) /\ n = L2normScaleBatched("k", t)
        /\ g = DeltaGateBatched(l, t) /\ u = GatedDeltaRuleChunk(l, s, t)
  OBVIOUS
<1>7. DeltaSix(c, cp, q, n, g, u, l, lanes, t)
  BY <1>2, <1>6, SixStand
     DEF Conv1dPrefillSilu, L2normScaleBatched, DeltaGateBatched, GatedDeltaRuleChunk
<1>8. PICK out : out = ForwardPrefill(W(l, "out_proj"), "gnorm", "proj", t)
  OBVIOUS
<1>9. OutWorks(out, W(l, "out_proj"), "gnorm", "proj", t)
  <2>1. "proj" \in Buffer /\ "gnorm" \in Buffer
    BY BufferNames DEF ScratchBuffer
  <2>2. W(l, "out_proj")[2] \in DOMAIN Shape
    BY NamesLoaded DEF ProjectionNames
  <2>3. "gnorm" # "proj"
    OBVIOUS
  <2> QED BY <1>1, <1>8, <2>1, <2>2, <2>3, PrefillOutWorks
<1>10. PICK mlp : mlp = MlpForwardPrefill(l, t)
  OBVIOUS
<1>11. MlpWorks(mlp, l, t)
  BY <1>1, <1>10, MlpForwardPrefillWorks
<1>12. Leads(D, InNorm(l, t) \o ins \o <<c, cp, q, n, g, u>> \o GatedNorm(l, t) \o out
                  \o Residual(l, t, mlp), E)
  BY <1>4, <1>6, <1>8, <1>10 DEF DeltaForwardPrefill
<1>13. DeltaEnds(D, E, l, lanes)
  BY <1>3, <1>5, <1>7, <1>9, <1>11, <1>12, DeltaWhole
<1> QED BY <1>2, <1>13

-----------------------------------------------------------------------------
(* The attention mixer over a lane.                                         *)

\* What is written before the rotation.
HeadBuffers == {"hidden", "fused", "kb", "vb", "q", "gate", "kb_ln", "cos", "sin"}

\* A launch that stores one buffer from one, and what it leaves.
Rowed(L, out, op, w, x, t) == L.kind = "rows" /\ L.rows = t /\ L.stores = {Store(out, op, w, <<x>>)}
Stored(D, E, out, op, w, x, t) == Leaves(D, E, {out}) /\ Maps1(D, E, out, op, w, x, t)

\* It leaves that.
LEMMA RowedStores ==
    ASSUME NEW L, NEW out, NEW op, NEW w, NEW x, NEW t, Rowed(L, out, op, w, x, t), out \in Buffer,
           NEW D, NEW E, Effect(D, L, E)
    PROVE  Stored(D, E, out, op, w, x, t)
<1>1. L.kind = "rows" /\ L.rows = t /\ L.stores = {Store(out, op, w, <<x>>)}
  BY DEF Rowed
<1>2. Leaves(D, E, {out}) /\ Maps1(D, E, out, op, w, x, L.rows)
  BY <1>1, RowOfOne
<1> QED BY <1>1, <1>2 DEF Stored

\* What the rotation and the cache take of row r.
AttnRow(D, l, r, h) ==
    /\ D.buf["q"][r] = Rms(W(l, "q_norm"), RefHalf(l, h, "query"))
    /\ D.buf["kb_ln"][r] = Rms(W(l, "k_norm"), Lin(l, "k_proj", RefIn(l, h)))
    /\ D.buf["vb"][r] = Lin(l, "v_proj", RefIn(l, h))
    /\ D.buf["cos"][r] = Angle("cos", Len(h) - 1) /\ D.buf["sin"][r] = Angle("sin", Len(h) - 1)
    /\ D.buf["gate"][r] = RefHalf(l, h, "gate")

\* All of it for each row whose position is the one ps gives.
HeadDone(D, E, l, t, ps) ==
    /\ Leaves(D, E, HeadBuffers)
    /\ \A r \in BufRow : \A h : r < t /\ D.buf["a"][r] = X(l, h) /\ ps[r + 1] = Len(h) - 1 =>
         AttnRow(E, l, r, h)

\* The two halves of the fused projection.
Halves(p, g, t) ==
    /\ p.kind = "rows" /\ p.rows = t /\ p.stores = {Store("q", "half", "query", <<"fused">>)}
    /\ g.kind = "rows" /\ g.rows = t /\ g.stores = {Store("gate", "half", "gate", <<"fused">>)}

\* They are split into the query and the gate.
LEMMA HalvesSplit ==
    ASSUME NEW p, NEW g, NEW t, Halves(p, g, t), NEW D, NEW E, Leads(D, <<p, g>>, E)
    PROVE  /\ Leaves(D, E, {"q", "gate"})
           /\ Maps1(D, E, "q", "half", "query", "fused", t) /\ Maps1(D, E, "gate", "half", "gate", "fused", t)
<1>1. PICK M : Effect(D, p, M) /\ Effect(M, g, E)
  BY LeadsTwo
<1>2. "q" \in Buffer /\ "gate" \in Buffer /\ "fused" \in Buffer
  BY BufferNames DEF ScratchBuffer
<1>3. Leaves(D, M, {"q"}) /\ Maps1(D, M, "q", "half", "query", "fused", t)
  <2>1. Rowed(p, "q", "half", "query", "fused", t)
    BY DEF Halves, Rowed
  <2>2. Stored(D, M, "q", "half", "query", "fused", t)
    BY <1>1, <1>2, <2>1, RowedStores
  <2> QED BY <2>2 DEF Stored
<1>4. Leaves(M, E, {"gate"}) /\ Maps1(M, E, "gate", "half", "gate", "fused", t)
  <2>1. Rowed(g, "gate", "half", "gate", "fused", t)
    BY DEF Halves, Rowed
  <2>2. Stored(M, E, "gate", "half", "gate", "fused", t)
    BY <1>1, <1>2, <2>1, RowedStores
  <2> QED BY <2>2 DEF Stored
<1>5. M.buf["fused"] = D.buf["fused"] /\ E.buf["q"] = M.buf["q"]
  BY <1>2, <1>3, <1>4 DEF Leaves, SameBut
<1>6. Leaves(D, E, {"q", "gate"})
  BY <1>3, <1>4 DEF Leaves, SameBut, SameState
<1>7. Maps1(D, E, "q", "half", "query", "fused", t)
  BY <1>3, <1>5 DEF Maps1
<1>8. Maps1(D, E, "gate", "half", "gate", "fused", t)
  BY <1>4, <1>5 DEF Maps1
<1> QED BY <1>6, <1>7, <1>8

\* The queries and keys are normed in heads.
LEMMA HeadsNormed ==
    ASSUME NEW l, NEW t, NEW D, NEW E, Leads(D, HeadNorms(l, t), E)
    PROVE  /\ Leaves(D, E, {"q", "kb_ln"})
           /\ Maps1(D, E, "q", "rmsnorm", W(l, "q_norm"), "q", t)
           /\ Maps1(D, E, "kb_ln", "rmsnorm", W(l, "k_norm"), "kb", t)
<1>1. PICK p : p = RmsnormZeroCenteredInplace("q", W(l, "q_norm"), t)
  OBVIOUS
<1>2. PICK g : g = RmsnormZeroCentered("kb", W(l, "k_norm"), "kb_ln", t)
  OBVIOUS
<1>3. PICK M : Effect(D, p, M) /\ Effect(M, g, E)
  BY <1>1, <1>2, LeadsTwo DEF HeadNorms
<1>4. "q" \in Buffer /\ "kb" \in Buffer /\ "kb_ln" \in Buffer
  BY BufferNames DEF ScratchBuffer
<1>5. PICK v, w : v = W(l, "q_norm") /\ w = W(l, "k_norm")
  OBVIOUS
<1>6. Leaves(D, M, {"q"}) /\ Maps1(D, M, "q", "rmsnorm", v, "q", t)
  <2>1. Rowed(p, "q", "rmsnorm", v, "q", t)
    BY <1>1, <1>5 DEF RmsnormZeroCenteredInplace, Rows, Rowed
  <2>2. Stored(D, M, "q", "rmsnorm", v, "q", t)
    BY <1>3, <1>4, <2>1, RowedStores
  <2> QED BY <2>2 DEF Stored
<1>7. Leaves(M, E, {"kb_ln"}) /\ Maps1(M, E, "kb_ln", "rmsnorm", w, "kb", t)
  <2>1. Rowed(g, "kb_ln", "rmsnorm", w, "kb", t)
    BY <1>2, <1>5 DEF RmsnormZeroCentered, Rows, Rowed
  <2>2. Stored(M, E, "kb_ln", "rmsnorm", w, "kb", t)
    BY <1>3, <1>4, <2>1, RowedStores
  <2> QED BY <2>2 DEF Stored
<1>8. M.buf["kb"] = D.buf["kb"] /\ E.buf["q"] = M.buf["q"]
  BY <1>4, <1>6, <1>7 DEF Leaves, SameBut
<1>9. Leaves(D, E, {"q", "kb_ln"})
  BY <1>6, <1>7 DEF Leaves, SameBut, SameState
<1>10. Maps1(D, E, "q", "rmsnorm", v, "q", t)
  BY <1>6, <1>8 DEF Maps1
<1>11. Maps1(D, E, "kb_ln", "rmsnorm", w, "kb", t)
  BY <1>7, <1>8 DEF Maps1
<1> QED BY <1>5, <1>9, <1>10, <1>11

\* Values uploaded to the rows of a buffer.
Uploaded(D, E, out, values, t) ==
    /\ Leaves(D, E, {out})
    /\ \A r \in BufRow : r < t => E.buf[out][r] = values[r + 1]

\* An upload leaves its values.
LEMMA UploadStands ==
    ASSUME NEW D, NEW L, NEW E, Effect(D, L, E), NEW out, out \in Buffer, NEW values, NEW checked,
           L = Upload(out, values, checked), NEW t, Len(values) = t
    PROVE  Uploaded(D, E, out, values, t)
<1>1. L.kind = "upload" /\ L.out = out /\ L.values = values /\ L.rows = t
  BY DEF Upload
<1>2. UploadEffect(D, L, E)
  BY DEF Effect
<1> QED BY <1>1, <1>2 DEF UploadEffect, Keeps, Leaves, Uploaded

\* The angles of the rows' positions.
LEMMA TablesStand ==
    ASSUME NEW t \in Nat, NEW ps, DOMAIN ps = 1 .. t, NEW D, NEW E, Leads(D, RopeTables(ps), E)
    PROVE  /\ Leaves(D, E, {"cos", "sin"})
           /\ \A r \in BufRow : r < t => /\ E.buf["cos"][r] = Angle("cos", ps[r + 1])
                                         /\ E.buf["sin"][r] = Angle("sin", ps[r + 1])
<1>1. PICK v : v = [i \in DOMAIN ps |-> Angle("cos", ps[i])]
  OBVIOUS
<1>2. PICK w : w = [i \in DOMAIN ps |-> Angle("sin", ps[i])]
  OBVIOUS
<1>3. Len(v) = t /\ Len(w) = t
  BY <1>1, <1>2
<1>4. PICK p, g : p = Upload("cos", v, Sizes) /\ g = Upload("sin", w, Sizes)
  OBVIOUS
<1>5. PICK M : Effect(D, p, M) /\ Effect(M, g, E)
  BY <1>1, <1>2, <1>4, LeadsTwo DEF RopeTables
<1>6. "cos" \in Buffer /\ "sin" \in Buffer
  BY BufferNames DEF ScratchBuffer
<1>7. Leaves(D, M, {"cos"}) /\ \A r \in BufRow : r < t => M.buf["cos"][r] = v[r + 1]
  <2>1. Effect(D, p, M) /\ p = Upload("cos", v, Sizes)
    BY <1>4, <1>5
  <2>2. Uploaded(D, M, "cos", v, t)
    BY <1>3, <1>6, <2>1, UploadStands
  <2> QED BY <2>2 DEF Uploaded
<1>8. Leaves(M, E, {"sin"}) /\ \A r \in BufRow : r < t => E.buf["sin"][r] = w[r + 1]
  <2>1. Effect(M, g, E) /\ g = Upload("sin", w, Sizes)
    BY <1>4, <1>5
  <2>2. Uploaded(M, E, "sin", w, t)
    BY <1>3, <1>6, <2>1, UploadStands
  <2> QED BY <2>2 DEF Uploaded
<1>9. E.buf["cos"] = M.buf["cos"]
  BY <1>6, <1>8 DEF Leaves, SameBut
<1>10. Leaves(D, E, {"cos", "sin"})
  BY <1>7, <1>8 DEF Leaves, SameBut, SameState
<1>11. ASSUME NEW r \in BufRow, r < t
       PROVE  /\ E.buf["cos"][r] = Angle("cos", ps[r + 1])
              /\ E.buf["sin"][r] = Angle("sin", ps[r + 1])
  <2>1. r + 1 \in DOMAIN ps
    BY <1>11, SizesAreNat DEF BufRow
  <2>2. E.buf["cos"][r] = v[r + 1] /\ E.buf["sin"][r] = w[r + 1]
    BY <1>7, <1>8, <1>9, <1>11
  <2> QED BY <1>1, <1>2, <2>1, <2>2
<1> QED BY <1>10, <1>11

\* All that comes before the rotation: projections, halves, norms and tables.
LEMMA HeadsWork ==
    ASSUME NEW l, NEW t \in Nat, NEW ins, InsWork(ins, l, AttnIns, AttnOuts, 3, t),
           NEW p, NEW g, Halves(p, g, t), NEW ps, DOMAIN ps = 1 .. t,
           NEW D, NEW D1, NEW D2, NEW D3, NEW E, Leads(D, InNorm(l, t) \o ins, D1), Leads(D1, <<p, g>>, D2),
           Leads(D2, HeadNorms(l, t), D3), Leads(D3, RopeTables(ps), E)
    PROVE  HeadDone(D, E, l, t, ps)
<1>1. /\ Leaves(D, D1, {"hidden"} \union {AttnOuts[i] : i \in 1 .. 3})
      /\ \A i \in 1 .. 3 : \A r \in BufRow : r < t =>
           D1.buf[AttnOuts[i]][r] = Lin(l, AttnIns[i], InputOf(l, D.buf["a"][r]))
  <2>1. InsDone(D, D1, l, t, 3, AttnIns, AttnOuts)
    BY AttnNames, InputsProjected
  <2> QED BY <2>1 DEF InsDone
<1>2. /\ Leaves(D1, D2, {"q", "gate"})
      /\ Maps1(D1, D2, "q", "half", "query", "fused", t) /\ Maps1(D1, D2, "gate", "half", "gate", "fused", t)
  BY HalvesSplit
<1>3. /\ Leaves(D2, D3, {"q", "kb_ln"})
      /\ Maps1(D2, D3, "q", "rmsnorm", W(l, "q_norm"), "q", t)
      /\ Maps1(D2, D3, "kb_ln", "rmsnorm", W(l, "k_norm"), "kb", t)
  BY HeadsNormed
<1>4. /\ Leaves(D3, E, {"cos", "sin"})
      /\ \A r \in BufRow : r < t => /\ E.buf["cos"][r] = Angle("cos", ps[r + 1])
                                    /\ E.buf["sin"][r] = Angle("sin", ps[r + 1])
  BY TablesStand
<1>5. \A b \in HeadBuffers : b \in Buffer
  BY BufferNames DEF ScratchBuffer, HeadBuffers
<1>6. {"hidden"} \union {AttnOuts[i] : i \in 1 .. 3} \subseteq {"hidden", "fused", "kb", "vb"}
  BY DEF AttnOuts
<1>7. Leaves(D, D1, {"hidden", "fused", "kb", "vb"})
  BY <1>1, <1>6 DEF Leaves, SameBut
<1>8. Leaves(D, E, HeadBuffers)
  BY <1>2, <1>3, <1>4, <1>7 DEF Leaves, SameBut, SameState, HeadBuffers
<1>9. /\ D2.buf["kb"] = D1.buf["kb"] /\ E.buf["vb"] = D1.buf["vb"]
      /\ E.buf["q"] = D3.buf["q"] /\ E.buf["kb_ln"] = D3.buf["kb_ln"] /\ E.buf["gate"] = D2.buf["gate"]
  BY <1>2, <1>3, <1>4, <1>5 DEF Leaves, SameBut, HeadBuffers
<1>10. ASSUME NEW r \in BufRow, NEW h, r < t, D.buf["a"][r] = X(l, h), ps[r + 1] = Len(h) - 1
       PROVE  AttnRow(E, l, r, h)
  <2>1. InputOf(l, D.buf["a"][r]) = RefIn(l, h)
    BY <1>10 DEF InputOf, RefIn
  <2>2. \A i \in 1 .. 3 : D1.buf[AttnOuts[i]][r] = Lin(l, AttnIns[i], RefIn(l, h))
    BY <1>1, <1>10, <2>1
  <2>3. /\ D1.buf["fused"][r] = Lin(l, "q_proj", RefIn(l, h))
        /\ D1.buf["kb"][r] = Lin(l, "k_proj", RefIn(l, h))
        /\ D1.buf["vb"][r] = Lin(l, "v_proj", RefIn(l, h))
    <3>1. 1 \in 1 .. 3 /\ 2 \in 1 .. 3 /\ 3 \in 1 .. 3
      OBVIOUS
    <3> QED BY <2>2, <3>1, AttnNames
  <2>4. D2.buf["q"][r] = RefHalf(l, h, "query") /\ D2.buf["gate"][r] = RefHalf(l, h, "gate")
    BY <1>2, <1>10, <2>3 DEF Maps1, RefHalf
  <2>5. E.buf["q"][r] = Rms(W(l, "q_norm"), RefHalf(l, h, "query"))
    BY <1>3, <1>9, <1>10, <2>4 DEF Maps1, Rms
  <2>6. E.buf["kb_ln"][r] = Rms(W(l, "k_norm"), Lin(l, "k_proj", RefIn(l, h)))
    BY <1>3, <1>9, <1>10, <2>3 DEF Maps1, Rms
  <2>7. E.buf["cos"][r] = Angle("cos", Len(h) - 1) /\ E.buf["sin"][r] = Angle("sin", Len(h) - 1)
    BY <1>4, <1>10
  <2> QED BY <1>9, <2>3, <2>4, <2>5, <2>6, <2>7 DEF AttnRow
<1> QED BY <1>8, <1>10 DEF HeadDone

\* The rotated query of a context's last token.
RefQuery(l, h) == RefRope(h, Rms(<<l, "q_norm">>, RefHalf(l, h, "query")))

\* What the cache takes and the attention asks of row r.
KvRow(D, l, r, h) ==
    D.buf["q"][r] = RefQuery(l, h)
    /\ Term("kv", l, <<D.buf["kb_ln"][r], D.buf["vb"][r]>>) = RefKv(l, h)

\* The rotation stores queries and keys in one launch.
LEMMA Ropes ==
    ASSUME NEW D, NEW L, NEW E, Effect(D, L, E), L.kind = "rows", L.stores = RopeStores
    PROVE  /\ Leaves(D, E, {"q", "kb_ln"})
           /\ Maps3(D, E, "q", "rope", "none", "q", "cos", "sin", L.rows)
           /\ Maps3(D, E, "kb_ln", "rope", "none", "kb_ln", "cos", "sin", L.rows)
<1>1. RowsEffect(D, L, E)
  BY DEF Effect
<1>2. PICK v, w : /\ v = Store("q", "rope", "none", <<"q", "cos", "sin">>)
                  /\ w = Store("kb_ln", "rope", "none", <<"kb_ln", "cos", "sin">>)
                  /\ L.stores = {v, w}
  <2>1. RopeStores = {Store("q", "rope", "none", <<"q", "cos", "sin">>),
                      Store("kb_ln", "rope", "none", <<"kb_ln", "cos", "sin">>)}
    BY DEF RopeStores
  <2> QED BY <2>1
<1>3. /\ v.out = "q" /\ v.op = "rope" /\ v.w = "none" /\ v.ins = <<"q", "cos", "sin">>
      /\ w.out = "kb_ln" /\ w.op = "rope" /\ w.w = "none" /\ w.ins = <<"kb_ln", "cos", "sin">>
  BY <1>2 DEF Store
<1>4. {x.out : x \in L.stores} = {"q", "kb_ln"}
  BY <1>2, <1>3
<1>5. Keeps(D, E, {"q", "kb_ln"})
  BY <1>1, <1>4 DEF RowsEffect
<1>6. "q" \in Buffer /\ "kb_ln" \in Buffer
  BY BufferNames DEF ScratchBuffer
<1>7. ASSUME NEW r \in BufRow, r < L.rows
      PROVE  /\ E.buf["q"][r] = Term("rope", "none", <<D.buf["q"][r], D.buf["cos"][r], D.buf["sin"][r]>>)
             /\ E.buf["kb_ln"][r]
                  = Term("rope", "none", <<D.buf["kb_ln"][r], D.buf["cos"][r], D.buf["sin"][r]>>)
  <2>1. E.buf["q"][r] = RowTerm(D, "rope", "none", <<"q", "cos", "sin">>, r)
    BY <1>1, <1>2, <1>3, <1>6, <1>7 DEF RowsEffect
  <2>2. E.buf["kb_ln"][r] = RowTerm(D, "rope", "none", <<"kb_ln", "cos", "sin">>, r)
    BY <1>1, <1>2, <1>3, <1>6, <1>7 DEF RowsEffect
  <2>3. RowTerm(D, "rope", "none", <<"q", "cos", "sin">>, r)
          = Term("rope", "none", <<D.buf["q"][r], D.buf["cos"][r], D.buf["sin"][r]>>)
    BY DEF RowTerm
  <2>4. RowTerm(D, "rope", "none", <<"kb_ln", "cos", "sin">>, r)
          = Term("rope", "none", <<D.buf["kb_ln"][r], D.buf["cos"][r], D.buf["sin"][r]>>)
    BY DEF RowTerm
  <2> QED BY <2>1, <2>2, <2>3, <2>4
<1> QED BY <1>5, <1>7 DEF Keeps, Leaves, Maps3

\* A rotated row is what the cache takes of its context.
LEMMA RopesRow ==
    ASSUME NEW D, NEW L, NEW E, Effect(D, L, E), L.kind = "rows", L.stores = RopeStores,
           NEW l, NEW r \in BufRow, r < L.rows, NEW h, AttnRow(D, l, r, h)
    PROVE  KvRow(E, l, r, h)
<1>1. /\ Leaves(D, E, {"q", "kb_ln"})
      /\ Maps3(D, E, "q", "rope", "none", "q", "cos", "sin", L.rows)
      /\ Maps3(D, E, "kb_ln", "rope", "none", "kb_ln", "cos", "sin", L.rows)
  BY Ropes
<1>2. E.buf["q"][r] = RefQuery(l, h)
  BY <1>1 DEF Maps3, AttnRow, RefQuery, RefRope, W
<1>3. E.buf["kb_ln"][r] = RefRope(h, Rms(<<l, "k_norm">>, Lin(l, "k_proj", RefIn(l, h))))
  BY <1>1 DEF Maps3, AttnRow, RefRope, W
<1>4. E.buf["vb"][r] = Lin(l, "v_proj", RefIn(l, h))
  <2>1. "vb" \in Buffer
    BY BufferNames DEF ScratchBuffer
  <2>2. E.buf["vb"] = D.buf["vb"]
    BY <1>1, <2>1 DEF Leaves, SameBut
  <2> QED BY <2>2 DEF AttnRow
<1> QED BY <1>2, <1>3, <1>4 DEF KvRow, RefKv

-----------------------------------------------------------------------------
(* The rows of the cache.                                                   *)

\* The j-th row of sequence s.
Spot(s, j) == s * Ctx + j - 1

\* No two sequences share a row of the cache.
LEMMA SpotFacts ==
    ASSUME NEW s \in Seqs, NEW j \in 1 .. Ctx
    PROVE  /\ Spot(s, j) \in 0 .. NSeq * Ctx - 1
           /\ \A u \in Seqs, m \in 1 .. Ctx : Spot(s, j) = Spot(u, m) => s = u /\ j = m
<1>1. Ctx \in Nat /\ NSeq \in Nat /\ s \in Nat /\ s <= NSeq - 1
  BY SizesAreNat DEF Seqs
<1>2. ASSUME NEW x \in Nat, NEW y \in Nat, x < y
      PROVE  x * Ctx + Ctx <= y * Ctx /\ x * Ctx \in Nat /\ y * Ctx \in Nat
  <2>1. PICK d \in Nat : y = x + 1 + d
    <3>1. y - x - 1 \in Nat /\ y = x + 1 + (y - x - 1)
      BY <1>2
    <3> QED BY <3>1
  <2>2. y * Ctx = x * Ctx + Ctx + d * Ctx
    BY <1>1, <2>1
  <2>3. d * Ctx \in Nat /\ x * Ctx \in Nat
    BY <1>1
  <2> QED BY <1>1, <2>2, <2>3
<1>3. Spot(s, j) \in 0 .. NSeq * Ctx - 1
  BY <1>1, <1>2 DEF Spot
<1>4. ASSUME NEW u \in Seqs, NEW m \in 1 .. Ctx, Spot(s, j) = Spot(u, m)
      PROVE  s = u /\ j = m
  <2>1. u \in Nat
    BY <1>1 DEF Seqs
  <2>2. CASE s < u
    BY <1>1, <1>2, <1>4, <2>1, <2>2 DEF Spot
  <2>3. CASE u < s
    BY <1>1, <1>2, <1>4, <2>1, <2>3 DEF Spot
  <2>4. CASE s = u
    <3>1. s * Ctx \in Int
      BY <1>1
    <3> QED BY <1>4, <2>4, <3>1 DEF Spot
  <2> QED BY <1>1, <2>1, <2>2, <2>3, <2>4
<1> QED BY <1>3, <1>4

\* The rows before the lane, and its own, before the rotation and after it.
RowsBefore(D, l, lane, H, n0) == \A j \in 1 .. n0 : D.kv[l][Spot(lane.seq, j)] = RefKv(l, Prefix(H, j))
HeadLane(D, l, lane, H, n0, k) ==
    OfLane(lane, H, n0, k) /\ RowsBefore(D, l, lane, H, n0)
    /\ \A i \in 1 .. k : AttnRow(D, l, lane.rows[i], Prefix(H, n0 + i))
KvLane(D, l, lane, H, n0, k) ==
    OfLane(lane, H, n0, k) /\ RowsBefore(D, l, lane, H, n0)
    /\ \A i \in 1 .. k : KvRow(D, l, lane.rows[i], Prefix(H, n0 + i))

\* What attention reads for a context.
Attended(l, H) ==
    Term("attend", "none", <<RefQuery(l, H), [i \in 1 .. Len(H) |-> RefKv(l, Prefix(H, i))]>>)

\* The append leaves the lane's own first n0 rows alone.
Clear(D, L, lane, n0) ==
    \A x \in L.lanes : \A i \in 1 .. Len(x.rows) : \A j \in 1 .. n0 :
        Target(D, L, x, i) # Spot(lane.seq, j)

\* An append, and the attention over it when only counts have moved in between.
AppendAttend(A, B, l, lanes) ==
    /\ A.kind = "append" /\ A.layer = l /\ A.lanes = lanes
    /\ B.kind = "attend" /\ B.layer = l /\ B.lanes = lanes

\* A row attends to exactly the rows of its own context: those before the lane and the
\* lane's own up to it.
LEMMA AppendsAttends ==
    ASSUME NEW l \in Layer, NEW lanes, Lanes(lanes), NEW A, NEW B, AppendAttend(A, B, l, lanes),
           NEW D, NEW M, NEW F, NEW E, Effect(D, A, M), Effect(F, B, E),
           F.kv = M.kv, SameBut(M, F, {}), Apart(D, A),
           NEW lane \in lanes, NEW n0, FirstPos(D, A, lane) = n0, FirstPos(F, B, lane) = n0,
           Clear(D, A, lane, n0), NEW H, NEW k, KvLane(D, l, lane, H, n0, k)
    PROVE  E.buf["attn"][lane.rows[k]] = Attended(l, H)
<1>1. /\ AppendEffect(D, A, M) /\ A.kind = "append" /\ A.layer = l /\ A.lanes = lanes
      /\ AttendEffect(F, B, E) /\ B.kind = "attend" /\ B.layer = l /\ B.lanes = lanes
  BY DEF AppendAttend, Effect
<1>2. OfLane(lane, H, n0, k)
  BY DEF KvLane
<1>3. /\ n0 \in Nat /\ k \in Nat /\ k >= 1 /\ n0 + k = Len(H) /\ Len(H) \in 1 .. Ctx /\ k \in 1 .. Len(lane.rows)
      /\ \A i \in 1 .. k : i \in 1 .. Len(lane.rows)
  <2>1. n0 \in Nat /\ k >= 1 /\ n0 + k = Len(H) /\ k \in 1 .. Len(lane.rows)
    BY <1>2 DEF OfLane
  <2>2. k \in Nat /\ Len(H) \in 1 .. Ctx /\ \A i \in 1 .. k : i \in 1 .. Len(lane.rows)
    BY <1>2, OfLaneFacts
  <2> QED BY <2>1, <2>2
<1>4. lane.seq \in Seqs /\ Ctx \in Nat /\ lane.seq \in Nat /\ NSeq * Ctx \in Nat
  BY <1>2, SizesAreNat DEF Lanes, Seqs
<1>5. \A d \in 0 .. NSeq * Ctx - 1 :
        /\ \A x \in lanes : \A i \in 1 .. Len(x.rows) :
             Target(D, A, x, i) = d =>
               M.kv[l][d] = Term("kv", l, <<D.buf["kb_ln"][x.rows[i]], D.buf["vb"][x.rows[i]]>>)
        /\ (\A x \in lanes : \A i \in 1 .. Len(x.rows) : Target(D, A, x, i) # d) => M.kv[l][d] = D.kv[l][d]
  BY <1>1 DEF AppendEffect
<1>6. ASSUME NEW j \in 1 .. Len(H)
      PROVE  M.kv[l][Spot(lane.seq, j)] = RefKv(l, Prefix(H, j))
  <2>1. PICK d : d = Spot(lane.seq, j)
    OBVIOUS
  <2>2. d \in 0 .. NSeq * Ctx - 1
    <3>1. j \in 1 .. Ctx
      BY <1>3, <1>4
    <3> QED BY <1>4, <2>1, <3>1, SpotFacts
  <2>3. CASE j <= n0
    <3>1. j \in 1 .. n0
      BY <1>3, <2>3
    <3>2. \A x \in lanes : \A i \in 1 .. Len(x.rows) : Target(D, A, x, i) # d
      BY <1>1, <2>1, <3>1 DEF Clear
    <3>3. M.kv[l][d] = D.kv[l][d]
      BY <1>5, <2>2, <3>2
    <3> QED BY <2>1, <3>1, <3>3 DEF KvLane, RowsBefore
  <2>4. CASE j > n0
    <3>1. PICK i \in 1 .. k : j = n0 + i
      <4>1. j - n0 \in 1 .. k /\ j = n0 + (j - n0)
        BY <1>3, <2>4
      <4> QED BY <4>1
    <3>2. i \in 1 .. Len(lane.rows)
      BY <1>3
    <3>3. Target(D, A, lane, i) = d
      <4>1. lane.seq * Ctx \in Int
        BY <1>4
      <4>2. Target(D, A, lane, i) = lane.seq * Ctx + n0 + i - 1
        BY DEF Target
      <4> QED BY <1>3, <2>1, <3>1, <4>1, <4>2 DEF Spot
    <3>4. M.kv[l][d] = Term("kv", l, <<D.buf["kb_ln"][lane.rows[i]], D.buf["vb"][lane.rows[i]]>>)
      BY <1>5, <2>2, <3>2, <3>3
    <3>5. KvRow(D, l, lane.rows[i], Prefix(H, n0 + i))
      BY DEF KvLane
    <3> QED BY <2>1, <3>1, <3>4, <3>5 DEF KvRow
  <2> QED BY <1>3, <2>3, <2>4
<1>7. PICK f : f = [j \in 1 .. FirstPos(F, B, lane) + k |-> F.kv[l][lane.seq * Ctx + j - 1]]
  OBVIOUS
<1>8. E.buf["attn"][lane.rows[k]] = Term("attend", "none", <<F.buf["q"][lane.rows[k]], f>>)
  <2>1. Inside(lane, FirstPos(F, B, lane) + k)
    <3>1. \A j \in 1 .. Len(H) : Spot(lane.seq, j) \in 0 .. NSeq * Ctx - 1
      BY <1>3, <1>4, SpotFacts
    <3> QED BY <1>3, <3>1 DEF Inside, Spot
  <2> QED BY <1>1, <1>3, <1>7, <2>1 DEF AttendEffect
<1>9. f = [i \in 1 .. Len(H) |-> RefKv(l, Prefix(H, i))]
  <2>1. f = [j \in 1 .. Len(H) |-> F.kv[l][lane.seq * Ctx + j - 1]]
    BY <1>3, <1>7
  <2>2. \A j \in 1 .. Len(H) : F.kv[l][lane.seq * Ctx + j - 1] = RefKv(l, Prefix(H, j))
    BY <1>6 DEF Spot
  <2> QED BY <2>1, <2>2
<1>10. F.buf["q"][lane.rows[k]] = RefQuery(l, H)
  <2>1. "q" \in Buffer
    BY BufferNames DEF ScratchBuffer
  <2>2. F.buf["q"] = D.buf["q"]
    BY <1>1, <2>1 DEF AppendEffect, SameBut
  <2>3. k \in 1 .. k /\ Prefix(H, n0 + k) = H
    BY <1>2, <1>3, OfLaneFacts
  <2>4. KvRow(D, l, lane.rows[k], H)
    BY <2>3 DEF KvLane
  <2> QED BY <2>2, <2>4 DEF KvRow
<1> QED BY <1>8, <1>9, <1>10 DEF Attended

\* Rotation, append and attention, for the lanes `near` whose counts are ks.
CoreDone(D, E, l, near, ks) ==
    /\ SameBut(D, E, {"q", "kb_ln", "attn"}) /\ Beyond(D, E, l)
    /\ \A lane \in near : \A H, k :
         HeadLane(D, l, lane, H, ks[lane.seq], k) => E.buf["attn"][lane.rows[k]] = Attended(l, H)
CoreWorks(core, l, near, ks) ==
    IsSeq(core) /\ \A D, E : D.keys[l] = ks /\ Leads(D, core, E) => CoreDone(D, E, l, near, ks)

\* The rotation of a lane's rows.
LEMMA RopesLane ==
    ASSUME NEW D, NEW L, NEW E, Effect(D, L, E), NEW t, L.kind = "rows", L.rows = t, L.stores = RopeStores,
           NEW near, RowsBelow(near, t), Lanes(near),
           NEW lane \in near, NEW l, NEW H, NEW n0, NEW k, HeadLane(D, l, lane, H, n0, k)
    PROVE  KvLane(E, l, lane, H, n0, k)
<1>1. OfLane(lane, H, n0, k)
  BY DEF HeadLane
<1>2. E.kv = D.kv
  <2>1. Leaves(D, E, {"q", "kb_ln"})
    BY Ropes
  <2> QED BY <2>1 DEF Leaves, SameState
<1>3. ASSUME NEW i \in 1 .. k
      PROVE  KvRow(E, l, lane.rows[i], Prefix(H, n0 + i))
  <2>1. PICK r, h : r = lane.rows[i] /\ h = Prefix(H, n0 + i)
    OBVIOUS
  <2>2. r \in BufRow
    BY <1>1, <2>1, LaneRow
  <2>3. r < L.rows
    <3>1. i \in 1 .. Len(lane.rows)
      BY <1>1, OfLaneFacts
    <3> QED BY <2>1, <3>1 DEF RowsBelow
  <2>4. AttnRow(D, l, r, h)
    BY <2>1 DEF HeadLane
  <2>5. KvRow(E, l, r, h)
    BY <2>2, <2>3, <2>4, RopesRow
  <2> QED BY <2>1, <2>5
<1>4. RowsBefore(E, l, lane, H, n0)
  BY <1>2 DEF HeadLane, RowsBefore
<1> QED BY <1>1, <1>3, <1>4 DEF KvLane

\* The four launches of one lane's attention, whose positions the host gives.
CoreFour(p, A, c, B, l, lanes, pos, t) ==
    /\ p.kind = "rows" /\ p.rows = t /\ p.stores = RopeStores
    /\ AppendAttend(A, B, l, lanes) /\ c.kind = "keys" /\ c.layer = l
    /\ A.pos = pos /\ A.fromDevice = FALSE /\ B.pos = pos /\ B.fromDevice = FALSE

\* They attend as the reference does.
LEMMA CoreFourWorks ==
    ASSUME NEW l \in Layer, NEW s \in Seqs, NEW t \in 1 .. ScratchRows, NEW ks, ks[s] \in Nat,
           NEW p, NEW A, NEW c, NEW B, CoreFour(p, A, c, B, l, OneLane(s, t), ks[s], t)
    PROVE  CoreWorks(<<p, A, c, B>>, l, OneLane(s, t), ks)
<1>1. PICK lanes : lanes = OneLane(s, t)
  OBVIOUS
<1>2. Lanes(lanes) /\ RowsBelow(lanes, t)
  BY <1>1, LanesOfOne
<1>3. AppendAttend(A, B, l, lanes)
  BY <1>1 DEF CoreFour
<1>4. SUFFICES ASSUME NEW D, NEW E, Leads(D, <<p, A, c, B>>, E)
               PROVE  CoreDone(D, E, l, lanes, ks)
  BY <1>1, LongTupleIsSeq DEF CoreWorks
<1>5. PICK D1, D2, D3 : Effect(D, p, D1) /\ Effect(D1, A, D2) /\ Effect(D2, c, D3) /\ Effect(D3, B, E)
  BY <1>4, LeadsFour
<1>6. Leaves(D, D1, {"q", "kb_ln"})
  BY <1>5, Ropes DEF CoreFour
<1>7. /\ SameBut(D1, D2, {}) /\ D2.conv = D1.conv /\ D2.rec = D1.rec /\ D2.keys = D1.keys
      /\ \A m \in Layer \ {l} : D2.kv[m] = D1.kv[m]
  BY <1>3, <1>5 DEF AppendAttend, Effect, AppendEffect
<1>8. /\ SameBut(D2, D3, {}) /\ D3.conv = D2.conv /\ D3.rec = D2.rec /\ D3.kv = D2.kv
      /\ \A m \in Layer \ {l} : D3.keys[m] = D2.keys[m]
  BY <1>5 DEF CoreFour, Effect, KeysEffect
<1>9. Leaves(D3, E, {"attn"})
  BY <1>3, <1>5 DEF AppendAttend, Effect, AttendEffect, Keeps, Leaves
<1>10. SameBut(D, E, {"q", "kb_ln", "attn"})
  BY <1>6, <1>7, <1>8, <1>9 DEF SameBut, Leaves
<1>11. Beyond(D, E, l)
  BY <1>6, <1>7, <1>8, <1>9 DEF Beyond, Leaves, SameState
<1>12. \A x \in lanes : x.seq = s /\ Len(x.rows) = t /\ \A y \in lanes : y = x
  BY <1>1, SizesAreNat DEF OneLane
<1>13. s \in Nat /\ s * Ctx \in Int /\ t \in Nat
  BY SizesAreNat DEF Seqs
<1>14. \A x \in lanes : \A i \in Int : Target(D1, A, x, i) = s * Ctx + ks[s] + i - 1
  BY <1>12 DEF CoreFour, Target, FirstPos
<1>15. Apart(D1, A)
  <2>1. ASSUME NEW x \in lanes, NEW y \in lanes, NEW i \in 1 .. Len(x.rows), NEW j \in 1 .. Len(y.rows),
               Target(D1, A, x, i) = Target(D1, A, y, j)
        PROVE  x = y /\ i = j
    <3>1. i \in Int /\ j \in Int
      BY <1>12
    <3>2. s * Ctx + ks[s] + i - 1 = s * Ctx + ks[s] + j - 1
      BY <1>14, <2>1, <3>1
    <3> QED BY <1>12, <1>13, <3>1, <3>2
  <2> QED BY <1>3, <2>1 DEF Apart, AppendAttend
<1>16. ASSUME NEW lane \in lanes, NEW H, NEW k, HeadLane(D, l, lane, H, ks[lane.seq], k)
       PROVE  E.buf["attn"][lane.rows[k]] = Attended(l, H)
  <2>1. PICK n0 : n0 = ks[s]
    OBVIOUS
  <2>2. HeadLane(D, l, lane, H, n0, k)
    BY <1>12, <1>16, <2>1
  <2>3. KvLane(D1, l, lane, H, n0, k)
    <3>1. Effect(D, p, D1) /\ p.kind = "rows" /\ p.rows = t /\ p.stores = RopeStores
      BY <1>5 DEF CoreFour
    <3> QED BY <1>2, <2>2, <3>1, RopesLane
  <2>4. FirstPos(D1, A, lane) = n0 /\ FirstPos(D3, B, lane) = n0
    BY <2>1 DEF CoreFour, FirstPos
  <2>5. Clear(D1, A, lane, n0)
    <3>1. ASSUME NEW x \in lanes, NEW i \in 1 .. Len(x.rows), NEW j \in 1 .. n0
          PROVE  Target(D1, A, x, i) # Spot(lane.seq, j)
      <4>1. i \in Int /\ i >= 1
        BY <1>12
      <4>2. Target(D1, A, x, i) = s * Ctx + n0 + i - 1
        BY <1>14, <2>1, <4>1
      <4>3. Spot(lane.seq, j) = s * Ctx + j - 1
        BY <1>12 DEF Spot
      <4>4. j \in Int /\ j <= n0 /\ n0 \in Nat
        BY <2>1
      <4> QED BY <1>13, <4>1, <4>2, <4>3, <4>4
    <3> QED BY <1>3, <3>1 DEF Clear, AppendAttend
  <2>6. D3.kv = D2.kv /\ SameBut(D2, D3, {})
    BY <1>8
  <2>7. Effect(D1, A, D2) /\ Effect(D3, B, E)
    BY <1>5
  <2> QED BY <1>2, <1>3, <1>15, <2>3, <2>4, <2>5, <2>6, <2>7, AppendsAttends
<1> QED BY <1>10, <1>11, <1>16 DEF CoreDone

\* The six of a batch, whose positions are read from the device: the append and the
\* attention run over every sequence, those of the batch are the first n.
CoreSix(p, S, A, c, S2, B, l, ks, t) ==
    /\ p.kind = "rows" /\ p.rows = t /\ p.stores = RopeStores
    /\ S.kind = "sync" /\ S.layer = l /\ S2.kind = "sync" /\ S2.layer = l
    /\ AppendAttend(A, B, l, LanePerSeq(NSeq)) /\ c.kind = "keys" /\ c.layer = l
    /\ c.keys = [s \in Seqs |-> ks[s] + 1]
    /\ A.pos = 0 /\ A.fromDevice = TRUE /\ B.pos = -1 /\ B.fromDevice = TRUE

\* They do too, whatever the sequences outside the batch append: each stays in its window.
LEMMA CoreSixWorks ==
    ASSUME NEW l \in Layer, NEW t \in 1 .. NSeq, NEW ks, \A s \in Seqs : ks[s] \in 0 .. Ctx - 1,
           NEW p, NEW S, NEW A, NEW c, NEW S2, NEW B, CoreSix(p, S, A, c, S2, B, l, ks, t)
    PROVE  CoreWorks(<<p, S, A, c, S2, B>>, l, LanePerSeq(t), ks)
<1>1. PICK lanes, near : lanes = LanePerSeq(NSeq) /\ near = LanePerSeq(t)
  OBVIOUS
<1>2. Ctx \in Nat /\ NSeq \in Nat /\ t <= NSeq /\ NSeq \in 1 .. NSeq
  BY SizesAreNat
<1>3. Lanes(lanes) /\ Lanes(near) /\ RowsBelow(near, t)
  BY <1>1, <1>2, LanesOfSeqs
<1>4. \A x \in lanes : x.seq \in Seqs /\ x.rows = <<x.seq>> /\ Len(x.rows) = 1
  <2>1. ASSUME NEW x \in lanes
        PROVE  x.seq \in Seqs /\ x.rows = <<x.seq>> /\ Len(x.rows) = 1
    <3>1. x = [seq |-> x.seq, rows |-> <<x.seq>>] /\ x.seq \in Seqs
      BY <1>1, <1>2, LanesOfSeqs
    <3>2. x.rows = <<x.seq>>
      BY <3>1
    <3> QED BY <3>1, <3>2
  <2> QED BY <2>1
<1>5. near \subseteq lanes /\ \A x \in lanes : \A y \in lanes : x.seq = y.seq => x = y
  BY <1>1, <1>2 DEF LanePerSeq
<1>6. AppendAttend(A, B, l, lanes)
  BY <1>1 DEF CoreSix
<1>7. SUFFICES ASSUME NEW D, NEW E, D.keys[l] = ks, Leads(D, <<p, S, A, c, S2, B>>, E)
               PROVE  CoreDone(D, E, l, near, ks)
  BY <1>1, LongTupleIsSeq DEF CoreWorks
<1>8. PICK D1, D2, D3, D4, D5 :
        /\ Effect(D, p, D1) /\ Effect(D1, S, D2) /\ Effect(D2, A, D3)
        /\ Effect(D3, c, D4) /\ Effect(D4, S2, D5) /\ Effect(D5, B, E)
  BY <1>7, LeadsSix
<1>9. Leaves(D, D1, {"q", "kb_ln"})
  BY <1>8, Ropes DEF CoreSix
<1>10. /\ SameBut(D1, D2, {}) /\ D2.conv = D1.conv /\ D2.rec = D1.rec /\ D2.kv = D1.kv
       /\ D2.keys = D1.keys /\ D2.pos[l] = D1.keys[l]
  BY <1>8 DEF CoreSix, Effect, SyncEffect
<1>11. /\ SameBut(D2, D3, {}) /\ D3.conv = D2.conv /\ D3.rec = D2.rec /\ D3.keys = D2.keys
       /\ \A m \in Layer \ {l} : D3.kv[m] = D2.kv[m]
  BY <1>6, <1>8 DEF AppendAttend, Effect, AppendEffect
<1>12. /\ SameBut(D3, D4, {}) /\ D4.conv = D3.conv /\ D4.rec = D3.rec /\ D4.kv = D3.kv
       /\ D4.keys[l] = [s \in Seqs |-> ks[s] + 1]
       /\ \A m \in Layer \ {l} : D4.keys[m] = D3.keys[m]
  BY <1>8 DEF CoreSix, Effect, KeysEffect
<1>13. /\ SameBut(D4, D5, {}) /\ D5.conv = D4.conv /\ D5.rec = D4.rec /\ D5.kv = D4.kv
       /\ D5.keys = D4.keys /\ D5.pos[l] = D4.keys[l]
  BY <1>8 DEF CoreSix, Effect, SyncEffect
<1>14. Leaves(D5, E, {"attn"})
  BY <1>6, <1>8 DEF AppendAttend, Effect, AttendEffect, Keeps, Leaves
<1>15. SameBut(D, E, {"q", "kb_ln", "attn"})
  BY <1>9, <1>10, <1>11, <1>12, <1>13, <1>14 DEF SameBut, Leaves
<1>16. Beyond(D, E, l)
  BY <1>9, <1>10, <1>11, <1>12, <1>13, <1>14 DEF Beyond, Leaves, SameState
<1>17. D2.pos[l] = ks /\ D5.pos[l] = [s \in Seqs |-> ks[s] + 1]
  BY <1>7, <1>9, <1>10, <1>12, <1>13 DEF Leaves, SameState
<1>18. ASSUME NEW x \in lanes
       PROVE  /\ FirstPos(D2, A, x) = ks[x.seq] /\ FirstPos(D5, B, x) = ks[x.seq]
              /\ Target(D2, A, x, 1) = Spot(x.seq, ks[x.seq] + 1)
  <2>1. x.seq \in Seqs /\ ks[x.seq] \in 0 .. Ctx - 1
    BY <1>4
  <2>2. FirstPos(D2, A, x) = 0 + ks[x.seq] /\ FirstPos(D5, B, x) = -1 + (ks[x.seq] + 1)
    BY <1>6, <1>17, <2>1 DEF CoreSix, AppendAttend, FirstPos
  <2>3. FirstPos(D2, A, x) = ks[x.seq] /\ FirstPos(D5, B, x) = ks[x.seq]
    BY <1>2, <2>1, <2>2
  <2>4. x.seq * Ctx \in Int
    BY <1>2, <2>1 DEF Seqs
  <2> QED BY <1>2, <2>1, <2>3, <2>4 DEF Target, Spot
<1>19. Apart(D2, A)
  <2>1. ASSUME NEW x \in lanes, NEW y \in lanes, NEW i \in 1 .. Len(x.rows), NEW j \in 1 .. Len(y.rows),
               Target(D2, A, x, i) = Target(D2, A, y, j)
        PROVE  x = y /\ i = j
    <3>1. i = 1 /\ j = 1
      <4>1. Len(x.rows) = 1 /\ Len(y.rows) = 1
        BY <1>4
      <4>2. i \in 1 .. 1 /\ j \in 1 .. 1
        BY <4>1
      <4> QED BY <4>2
    <3>2. Spot(x.seq, ks[x.seq] + 1) = Spot(y.seq, ks[y.seq] + 1)
      BY <1>18, <2>1, <3>1
    <3>3. x.seq \in Seqs /\ y.seq \in Seqs /\ ks[x.seq] + 1 \in 1 .. Ctx /\ ks[y.seq] + 1 \in 1 .. Ctx
      BY <1>2, <1>4
    <3>4. x.seq = y.seq
      BY <3>2, <3>3, SpotFacts
    <3> QED BY <1>5, <3>1, <3>4
  <2> QED BY <1>6, <2>1 DEF Apart, AppendAttend
<1>20. ASSUME NEW lane \in near, NEW H, NEW k, HeadLane(D, l, lane, H, ks[lane.seq], k)
       PROVE  E.buf["attn"][lane.rows[k]] = Attended(l, H)
  <2>1. PICK n0 : n0 = ks[lane.seq]
    OBVIOUS
  <2>2. HeadLane(D, l, lane, H, n0, k)
    BY <1>20, <2>1
  <2>3. KvLane(D1, l, lane, H, n0, k)
    <3>1. Effect(D, p, D1) /\ p.kind = "rows" /\ p.rows = t /\ p.stores = RopeStores
      BY <1>8 DEF CoreSix
    <3> QED BY <1>3, <2>2, <3>1, RopesLane
  <2>4. lane \in lanes
    BY <1>5
  <2>5. KvLane(D2, l, lane, H, n0, k)
    <3>1. D2.buf["q"] = D1.buf["q"] /\ D2.buf["kb_ln"] = D1.buf["kb_ln"] /\ D2.buf["vb"] = D1.buf["vb"]
      <4>1. "q" \in Buffer /\ "kb_ln" \in Buffer /\ "vb" \in Buffer
        BY BufferNames DEF ScratchBuffer
      <4> QED BY <1>10, <4>1 DEF SameBut
    <3> QED BY <1>10, <2>3, <3>1 DEF KvLane, KvRow, RowsBefore
  <2>6. FirstPos(D2, A, lane) = n0 /\ FirstPos(D5, B, lane) = n0
    BY <1>18, <2>1, <2>4
  <2>7. Clear(D2, A, lane, n0)
    <3>1. ASSUME NEW x \in lanes, NEW i \in 1 .. Len(x.rows), NEW j \in 1 .. n0
          PROVE  Target(D2, A, x, i) # Spot(lane.seq, j)
      <4>1. i = 1
        <5>1. Len(x.rows) = 1
          BY <1>4
        <5>2. i \in 1 .. 1
          BY <5>1
        <5> QED BY <5>2
      <4>2. Target(D2, A, x, i) = Spot(x.seq, ks[x.seq] + 1)
        BY <1>18, <4>1
      <4>3. x.seq \in Seqs /\ lane.seq \in Seqs /\ ks[x.seq] \in 0 .. Ctx - 1 /\ n0 \in 0 .. Ctx - 1
        BY <1>4, <2>1, <2>4
      <4>4. ks[x.seq] + 1 \in 1 .. Ctx /\ j \in 1 .. Ctx /\ j <= n0
        BY <1>2, <4>3
      <4>5. SUFFICES ASSUME Spot(x.seq, ks[x.seq] + 1) = Spot(lane.seq, j)
                     PROVE  FALSE
        BY <4>2
      <4>6. x.seq = lane.seq /\ ks[x.seq] + 1 = j
        BY <4>3, <4>4, <4>5, SpotFacts
      <4> QED BY <1>2, <2>1, <4>3, <4>4, <4>6
    <3> QED BY <1>6, <3>1 DEF Clear, AppendAttend
  <2>8. D5.kv = D3.kv /\ SameBut(D3, D5, {})
    BY <1>12, <1>13 DEF SameBut
  <2>9. Effect(D2, A, D3) /\ Effect(D5, B, E)
    BY <1>8
  <2> QED BY <1>3, <1>6, <1>19, <2>4, <2>5, <2>6, <2>7, <2>8, <2>9, AppendsAttends
<1> QED BY <1>15, <1>16, <1>20 DEF CoreDone

\* A lane of an attention layer's rows as the layer begins.
AttnStart(D, l, lane, H, n0, k) ==
    OfLane(lane, H, n0, k) /\ RowsBefore(D, l, lane, H, n0)
    /\ \A i \in 1 .. k : D.buf["a"][lane.rows[i]] = X(l, Prefix(H, n0 + i))

\* The rotation's tables are those of the lanes' own positions.
TablesOf(ps, lanes, ks) ==
    \A lane \in lanes : \A i \in 1 .. Len(lane.rows) : ps[lane.rows[i] + 1] = ks[lane.seq] + i - 1

\* The projections of a lane's rows are what the rotation and the cache take.
LEMMA HeadTakes ==
    ASSUME NEW D, NEW E, NEW l, NEW t, NEW ps, HeadDone(D, E, l, t, ps),
           NEW near, Lanes(near), RowsBelow(near, t), NEW ks, TablesOf(ps, near, ks),
           NEW lane \in near, NEW H, NEW k, AttnStart(D, l, lane, H, ks[lane.seq], k)
    PROVE  HeadLane(E, l, lane, H, ks[lane.seq], k)
<1>1. PICK n0 : n0 = ks[lane.seq]
  OBVIOUS
<1>2. AttnStart(D, l, lane, H, n0, k) /\ OfLane(lane, H, n0, k)
  BY <1>1 DEF AttnStart
<1>3. E.kv = D.kv
  BY DEF HeadDone, Leaves, SameState
<1>4. ASSUME NEW i \in 1 .. k
      PROVE  AttnRow(E, l, lane.rows[i], Prefix(H, n0 + i))
  <2>1. PICK r, h : r = lane.rows[i] /\ h = Prefix(H, n0 + i)
    OBVIOUS
  <2>2. r \in BufRow
    BY <1>2, <2>1, LaneRow
  <2>3. i \in 1 .. Len(lane.rows) /\ Len(h) = n0 + i
    BY <1>2, <2>1, OfLaneFacts
  <2>4. r < t
    BY <2>1, <2>3 DEF RowsBelow
  <2>5. D.buf["a"][r] = X(l, h)
    BY <1>2, <2>1 DEF AttnStart
  <2>6. ps[r + 1] = Len(h) - 1
    <3>1. ps[r + 1] = n0 + i - 1
      BY <1>1, <2>1, <2>3 DEF TablesOf
    <3>2. Len(h) - 1 = n0 + i - 1
      <4>1. n0 \in Nat /\ i \in Int
        BY <1>2 DEF OfLane
      <4> QED BY <2>3, <4>1
    <3> QED BY <3>1, <3>2
  <2> QED BY <2>1, <2>2, <2>4, <2>5, <2>6 DEF HeadDone
<1>5. RowsBefore(E, l, lane, H, n0)
  BY <1>2, <1>3 DEF AttnStart, RowsBefore
<1> QED BY <1>1, <1>2, <1>4, <1>5 DEF HeadLane

\* The gate on what attention read.
LEMMA GateApplied ==
    ASSUME NEW t, NEW D, NEW E, Leads(D, <<SigmoidMul("attn", "gate", t)>>, E)
    PROVE  /\ Leaves(D, E, {"attn"})
           /\ Maps2(D, E, "attn", "sigmoid_mul", "none", "attn", "gate", t)
<1>1. PICK L : L = SigmoidMul("attn", "gate", t)
  OBVIOUS
<1>2. Effect(D, L, E)
  BY <1>1, LeadsOne
<1>3. /\ L.kind = "rows" /\ L.rows = t
      /\ L.stores = {Store("attn", "sigmoid_mul", "none", <<"attn", "gate">>)}
  BY <1>1 DEF SigmoidMul, Rows
<1>4. "attn" \in Buffer
  BY BufferNames DEF ScratchBuffer
<1>5. Leaves(D, E, {"attn"}) /\ Maps2(D, E, "attn", "sigmoid_mul", "none", "attn", "gate", L.rows)
  BY <1>2, <1>3, <1>4, RowOfTwo
<1> QED BY <1>3, <1>5

\* An attention layer, whatever its parts are, leaves the reference in `b`.
AttnEnds(D, E, l, near, ks) ==
    /\ Beyond(D, E, l)
    /\ \A lane \in near : \A H, k :
         AttnStart(D, l, lane, H, ks[lane.seq], k) => E.buf["b"][lane.rows[k]] = OutTable[l][H]

\* The parts of an attention layer make the whole of it.
LEMMA AttnWhole ==
    ASSUME NEW l \in AttnLayer, NEW t \in Nat, NEW near, Lanes(near), RowsBelow(near, t),
           NEW ins, InsWork(ins, l, AttnIns, AttnOuts, 3, t), NEW p, NEW g, Halves(p, g, t),
           NEW ps, DOMAIN ps = 1 .. t, NEW ks, TablesOf(ps, near, ks),
           NEW core, CoreWorks(core, l, near, ks),
           NEW out, OutWorks(out, W(l, "o_proj"), "attn", "proj", t),
           NEW mlp, MlpWorks(mlp, l, t), NEW D, NEW E, D.keys[l] = ks,
           Leads(D, InNorm(l, t) \o ins \o <<p, g>> \o HeadNorms(l, t) \o RopeTables(ps) \o core
                      \o GateAndProject(l, t, out) \o Residual(l, t, mlp), E)
    PROVE  AttnEnds(D, E, l, near, ks)
<1>1. PICK head : head = InNorm(l, t) \o ins
  OBVIOUS
<1>2. PICK two : two = <<p, g>>
  OBVIOUS
<1>3. PICK gate : gate = <<SigmoidMul("attn", "gate", t)>>
  OBVIOUS
<1>4. GateAndProject(l, t, out) = gate \o out
  BY <1>3 DEF GateAndProject
<1>5. /\ IsSeq(head) /\ IsSeq(two) /\ IsSeq(HeadNorms(l, t)) /\ IsSeq(RopeTables(ps)) /\ IsSeq(core)
      /\ IsSeq(gate) /\ IsSeq(out) /\ IsSeq(GateAndProject(l, t, out)) /\ IsSeq(Residual(l, t, mlp))
  <2>1. IsSeq(InNorm(l, t))
    BY TupleSeq DEF InNorm
  <2>2. IsSeq(ins) /\ IsSeq(core) /\ IsSeq(out) /\ IsSeq(mlp)
    BY DEF InsWork, CoreWorks, OutWorks, MlpWorks
  <2>3. IsSeq(head)
    BY <1>1, <2>1, <2>2, ConcatIsSeq
  <2>4. IsSeq(two) /\ IsSeq(gate)
    BY <1>2, <1>3, TupleSeq
  <2>5. IsSeq(HeadNorms(l, t)) /\ IsSeq(RopeTables(ps))
    BY PrefillPartsAreSeqs
  <2>6. IsSeq(gate \o out)
    BY <2>2, <2>4, ConcatIsSeq
  <2>7. IsSeq(Residual(l, t, mlp))
    BY <2>2, ResidualIsSeq
  <2> QED BY <1>4, <2>2, <2>3, <2>4, <2>5, <2>6, <2>7
<1>6. Leads(D, head \o two \o HeadNorms(l, t) \o RopeTables(ps) \o core
                 \o GateAndProject(l, t, out) \o Residual(l, t, mlp), E)
  BY <1>1, <1>2
<1>7. PICK D1, D2, D3, D4, D5, D6 :
        /\ Leads(D, head, D1) /\ Leads(D1, two, D2) /\ Leads(D2, HeadNorms(l, t), D3)
        /\ Leads(D3, RopeTables(ps), D4) /\ Leads(D4, core, D5)
        /\ Leads(D5, GateAndProject(l, t, out), D6) /\ Leads(D6, Residual(l, t, mlp), E)
  BY <1>5, <1>6, LeadsSeven
<1>8. HeadDone(D, D4, l, t, ps)
  <2>1. Leads(D, InNorm(l, t) \o ins, D1) /\ Leads(D1, <<p, g>>, D2)
    BY <1>1, <1>2, <1>7
  <2>2. Leads(D2, HeadNorms(l, t), D3) /\ Leads(D3, RopeTables(ps), D4)
    BY <1>7
  <2> QED BY <2>1, <2>2, HeadsWork
<1>9. CoreDone(D4, D5, l, near, ks)
  <2>1. D4.keys = D.keys
    BY <1>8 DEF HeadDone, Leaves, SameState
  <2>2. D4.keys[l] = ks /\ Leads(D4, core, D5)
    BY <1>7, <2>1
  <2> QED BY <2>2 DEF CoreWorks
<1>10. PICK G : Leads(D5, gate, G) /\ Leads(G, out, D6)
  <2>1. Leads(D5, gate \o out, D6)
    BY <1>4, <1>7
  <2> QED BY <1>5, <2>1, LeadsConcat
<1>11. Leaves(D5, G, {"attn"}) /\ Maps2(D5, G, "attn", "sigmoid_mul", "none", "attn", "gate", t)
  BY <1>3, <1>10, GateApplied
<1>12. PICK w, x : w = W(l, "o_proj") /\ x = "attn"
  OBVIOUS
<1>13. Ended(G, E, l, t, w, x)
  <2>1. OutWorks(out, w, x, "proj", t)
    BY <1>12
  <2>2. Leads(G, out, D6) /\ Leads(D6, Residual(l, t, mlp), E)
    BY <1>7, <1>10
  <2> QED BY <2>1, <2>2, LayerEnds
<1>14. Beyond(D, E, l)
  <2>1. Beyond(D, D4, l)
    BY <1>8, LeavesBeyond DEF HeadDone
  <2>2. Beyond(D4, D5, l)
    BY <1>9 DEF CoreDone
  <2>3. Beyond(D5, G, l)
    BY <1>11, LeavesBeyond
  <2>4. Beyond(G, E, l)
    BY <1>13 DEF Ended
  <2> QED BY <2>1, <2>2, <2>3, <2>4, BeyondOn
<1>15. G.buf["a"] = D.buf["a"] /\ D5.buf["gate"] = D4.buf["gate"]
  <2>1. "a" \in Buffer /\ "gate" \in Buffer
    BY BufferNames DEF ScratchBuffer
  <2>2. D4.buf["a"] = D.buf["a"]
    BY <1>8, <2>1 DEF HeadDone, Leaves, SameBut, HeadBuffers
  <2>3. D5.buf["a"] = D4.buf["a"] /\ D5.buf["gate"] = D4.buf["gate"]
    BY <1>9, <2>1 DEF CoreDone, SameBut
  <2>4. G.buf["a"] = D5.buf["a"]
    BY <1>11, <2>1 DEF Leaves, SameBut
  <2> QED BY <2>2, <2>3, <2>4
<1>16. ASSUME NEW lane \in near, NEW H, NEW k, AttnStart(D, l, lane, H, ks[lane.seq], k)
       PROVE  E.buf["b"][lane.rows[k]] = OutTable[l][H]
  <2>1. PICK r, n0 : r = lane.rows[k] /\ n0 = ks[lane.seq]
    OBVIOUS
  <2>2. HeadLane(D4, l, lane, H, ks[lane.seq], k)
    BY <1>8, <1>16, HeadTakes
  <2>3. OfLane(lane, H, n0, k)
    BY <1>16, <2>1 DEF AttnStart
  <2>4. k \in 1 .. k /\ Prefix(H, n0 + k) = H /\ k \in 1 .. Len(lane.rows) /\ H \in Past
    <3>1. k >= 1 /\ k \in 1 .. Len(lane.rows) /\ H \in Past
      BY <2>3 DEF OfLane
    <3> QED BY <2>3, <3>1, OfLaneFacts
  <2>5. r \in BufRow /\ r < t
    <3>1. r \in BufRow
      BY <2>1, <2>3, <2>4, LaneRow
    <3> QED BY <2>1, <2>4, <3>1 DEF RowsBelow
  <2>6. D5.buf["attn"][r] = Attended(l, H)
    BY <1>9, <2>1, <2>2 DEF CoreDone
  <2>7. D5.buf["gate"][r] = RefHalf(l, H, "gate")
    <3>1. AttnRow(D4, l, r, H)
      BY <2>1, <2>2, <2>4 DEF HeadLane
    <3> QED BY <1>15, <3>1 DEF AttnRow
  <2>8. G.buf["attn"][r] = Term("sigmoid_mul", "none", <<Attended(l, H), RefHalf(l, H, "gate")>>)
    BY <1>11, <2>5, <2>6, <2>7 DEF Maps2
  <2>9. Term("linear", w, <<G.buf[x][r]>>) = AttnMixed(l, H)
    BY <1>12, <2>8 DEF AttnMixed, Attended, RefQuery, Lin, W
  <2>10. G.buf["a"][r] = X(l, H)
    BY <1>15, <1>16, <2>1, <2>4 DEF AttnStart
  <2>11. E.buf["b"][r] = BlockOf(l, X(l, H), AttnMixed(l, H))
    BY <1>13, <2>5, <2>9, <2>10 DEF Ended
  <2>12. E.buf["b"][r] = RefBlock(l, H, AttnMixed(l, H))
    BY <2>11, BlockOfRef
  <2>13. OutTable[l][H] = RefBlock(l, H, AttnMixed(l, H))
    <3>1. l \in Layer /\ l \notin DeltaLayer
      BY DEF AttnLayer, DeltaLayer
    <3> QED BY <2>4, <3>1, OutIsBlock
  <2> QED BY <2>1, <2>12, <2>13
<1> QED BY <1>14, <1>16 DEF AttnEnds

\* The one lane of a chunk.
LEMMA LaneOfOne ==
    ASSUME NEW s \in Seqs, NEW t \in 1 .. ScratchRows, NEW lane \in OneLane(s, t)
    PROVE  /\ lane.seq = s /\ Len(lane.rows) = t /\ \A i \in 1 .. t : lane.rows[i] = i - 1
BY SizesAreNat DEF OneLane

\* The launches of the three paths are those of Halves, CoreFour and CoreSix.
LEMMA HalvesStand ==
    ASSUME NEW t, NEW a, NEW b
    PROVE  Halves(Rows(HeadStores("q", "query"), t, a), Rows(HeadStores("gate", "gate"), t, b), t)
<1>1. PICK p : p = Rows(HeadStores("q", "query"), t, a)
  OBVIOUS
<1>2. PICK g : g = Rows(HeadStores("gate", "gate"), t, b)
  OBVIOUS
<1>3. Halves(p, g, t)
  BY <1>1, <1>2 DEF Halves, Rows, HeadStores
<1> QED BY <1>1, <1>2, <1>3

LEMMA CoreFourStands ==
    ASSUME NEW l, NEW lanes, NEW pos \in Nat, NEW t, NEW a, NEW b, NEW d, NEW ks, NEW last, last = pos
    PROVE  CoreFour(Rows(RopeStores, t, a), Stateful("append", l, lanes, pos, FALSE, b), SetKeys(l, ks),
                    Stateful("attend", l, lanes, last, FALSE, d), l, lanes, pos, t)
<1>1. PICK p : p = Rows(RopeStores, t, a)
  OBVIOUS
<1>2. PICK A : A = Stateful("append", l, lanes, pos, FALSE, b)
  OBVIOUS
<1>3. PICK c : c = SetKeys(l, ks)
  OBVIOUS
<1>4. PICK B : B = Stateful("attend", l, lanes, last, FALSE, d)
  OBVIOUS
<1>5. p.kind = "rows" /\ p.rows = t /\ p.stores = RopeStores
  BY <1>1 DEF Rows
<1>6. A.kind = "append" /\ A.layer = l /\ A.lanes = lanes /\ A.pos = pos /\ A.fromDevice = FALSE
  BY <1>2 DEF Stateful
<1>7. c.kind = "keys" /\ c.layer = l
  BY <1>3 DEF SetKeys
<1>8. B.kind = "attend" /\ B.layer = l /\ B.lanes = lanes /\ B.pos = pos /\ B.fromDevice = FALSE
  BY <1>4 DEF Stateful
<1>9. CoreFour(p, A, c, B, l, lanes, pos, t)
  BY <1>5, <1>6, <1>7, <1>8 DEF CoreFour, AppendAttend
<1> QED BY <1>1, <1>2, <1>3, <1>4, <1>9

LEMMA CoreSixStands ==
    ASSUME NEW l, NEW t, NEW ks
    PROVE  CoreSix(RopeNeoxBatched(t), SyncPositions(l), KvCacheAppendMulti(l),
                   SetKeys(l, [s \in Seqs |-> ks[s] + 1]), SyncPositions(l), AttnDecodeMulti(l), l, ks, t)
<1>1. PICK p : p = RopeNeoxBatched(t)
  OBVIOUS
<1>2. PICK A : A = KvCacheAppendMulti(l)
  OBVIOUS
<1>3. PICK c : c = SetKeys(l, [s \in Seqs |-> ks[s] + 1])
  OBVIOUS
<1>4. PICK B : B = AttnDecodeMulti(l)
  OBVIOUS
<1>5. PICK S : S = SyncPositions(l)
  OBVIOUS
<1>6. p.kind = "rows" /\ p.rows = t /\ p.stores = RopeStores
  BY <1>1 DEF RopeNeoxBatched, Rows
<1>7. A.kind = "append" /\ A.layer = l /\ A.lanes = LanePerSeq(NSeq) /\ A.pos = 0 /\ A.fromDevice = TRUE
  BY <1>2 DEF KvCacheAppendMulti, Stateful
<1>8. c.kind = "keys" /\ c.layer = l /\ c.keys = [s \in Seqs |-> ks[s] + 1]
  BY <1>3 DEF SetKeys
<1>9. B.kind = "attend" /\ B.layer = l /\ B.lanes = LanePerSeq(NSeq) /\ B.pos = -1 /\ B.fromDevice = TRUE
  BY <1>4 DEF AttnDecodeMulti, Stateful
<1>10. S.kind = "sync" /\ S.layer = l
  BY <1>5 DEF SyncPositions
<1>11. CoreSix(p, S, A, c, S, B, l, ks, t)
  BY <1>6, <1>7, <1>8, <1>9, <1>10 DEF CoreSix, AppendAttend
<1> QED BY <1>1, <1>2, <1>3, <1>4, <1>5, <1>11

\* The three paths through an attention layer: a token, a chunk, a batch.
LEMMA AttnForwardEnds ==
    ASSUME NEW l \in AttnLayer, NEW ks, ks[0] \in Nat, NEW D, NEW E, D.keys[l] = ks,
           Leads(D, AttnForward(l, ks), E)
    PROVE  AttnEnds(D, E, l, OneLane(0, 1), ks)
<1>1. 1 \in 1 .. ScratchRows /\ 0 \in Seqs /\ 1 \in Nat
  BY SizesAreNat, OneRow DEF Seqs
<1>2. PICK lanes : lanes = OneLane(0, 1)
  OBVIOUS
<1>3. Lanes(lanes) /\ RowsBelow(lanes, 1)
  BY <1>1, <1>2, LanesOfOne
<1>4. PICK ins : ins = FlattenSeq([i \in 1 .. 3 |-> Forward(W(l, AttnIns[i]), "hidden", AttnOuts[i], 1)])
  OBVIOUS
<1>5. InsWork(ins, l, AttnIns, AttnOuts, 3, 1)
  BY <1>4, AttnNames, GemvInsWork
<1>6. PICK p, g : p = DeinterleaveHeads("q", "query") /\ g = DeinterleaveHeads("gate", "gate")
  OBVIOUS
<1>7. Halves(p, g, 1)
  BY <1>6, HalvesStand DEF DeinterleaveHeads
<1>8. PICK ps : ps = <<ks[0]>>
  OBVIOUS
<1>9. DOMAIN ps = 1 .. 1 /\ TablesOf(ps, lanes, ks)
  <2>1. ASSUME NEW lane \in lanes, NEW i \in 1 .. Len(lane.rows)
        PROVE  ps[lane.rows[i] + 1] = ks[lane.seq] + i - 1
    <3>1. lane.seq = 0 /\ Len(lane.rows) = 1 /\ lane.rows[1] = 0
      <4>1. lane.seq = 0 /\ Len(lane.rows) = 1 /\ \A j \in 1 .. 1 : lane.rows[j] = j - 1
        BY <1>1, <1>2, LaneOfOne
      <4>2. 1 \in 1 .. 1 /\ 1 - 1 = 0
        OBVIOUS
      <4> QED BY <4>1, <4>2
    <3>2. i \in 1 .. 1
      BY <3>1
    <3>3. i = 1 /\ ps[0 + 1] = ks[0] /\ ks[0] + 1 - 1 = ks[0]
      BY <1>8, <3>2
    <3> QED BY <3>1, <3>3
  <2>2. DOMAIN ps = 1 .. 1
    BY <1>8
  <2> QED BY <2>1, <2>2 DEF TablesOf
<1>10. PICK a, b, c, d : /\ a = RopeNeox /\ b = KvCacheAppend(l, ks[0])
                         /\ c = SetKeys(l, [ks EXCEPT ![0] = ks[0] + 1]) /\ d = AttnDecode(l, ks[0] + 1)
  OBVIOUS
<1>11. PICK core : core = <<a, b, c, d>>
  OBVIOUS
<1>12. CoreWorks(core, l, lanes, ks)
  <2>1. PICK pos, last, kk : pos = ks[0] /\ last = ks[0] + 1 - 1 /\ kk = [ks EXCEPT ![0] = ks[0] + 1]
    OBVIOUS
  <2>5. last = pos /\ pos \in Nat
    BY <2>1
  <2>6. b = Stateful("append", l, OneLane(0, 1), pos, FALSE, Sizes)
    BY <1>10, <2>1 DEF KvCacheAppend
  <2>7. d = Stateful("attend", l, OneLane(0, 1), last, FALSE, {"cache"})
    <3>1. PICK n : n = ks[0] + 1
      OBVIOUS
    <3>2. d = AttnDecode(l, n)
      BY <1>10, <3>1
    <3>3. last = n - 1
      BY <2>1, <3>1
    <3>4. d = Stateful("attend", l, OneLane(0, 1), n - 1, FALSE, {"cache"})
      BY <3>2 DEF AttnDecode
    <3> QED BY <3>3, <3>4
  <2>8. a = Rows(RopeStores, 1, {"cos", "sin"}) /\ c = SetKeys(l, kk)
    BY <1>10, <2>1 DEF RopeNeox
  <2>9. CoreFour(a, b, c, d, l, OneLane(0, 1), pos, 1)
    BY <2>5, <2>6, <2>7, <2>8, CoreFourStands
  <2>2. CoreFour(a, b, c, d, l, OneLane(0, 1), ks[0], 1)
    BY <2>1, <2>9
  <2>3. l \in Layer
    BY DEF AttnLayer
  <2>4. CoreWorks(<<a, b, c, d>>, l, OneLane(0, 1), ks)
    BY <1>1, <2>2, <2>3, CoreFourWorks
  <2> QED BY <1>2, <1>11, <2>4
<1>13. PICK out : out = Forward(W(l, "o_proj"), "attn", "proj", 1)
  OBVIOUS
<1>14. OutWorks(out, W(l, "o_proj"), "attn", "proj", 1)
  <2>1. "proj" \in Buffer
    BY BufferNames DEF ScratchBuffer
  <2> QED BY <1>13, <2>1, GemvOutWorks
<1>15. PICK mlp : mlp = MlpForward(l, 1)
  OBVIOUS
<1>16. MlpWorks(mlp, l, 1)
  BY <1>15, MlpForwardWorks
<1>17. Leads(D, InNorm(l, 1) \o ins \o <<p, g>> \o HeadNorms(l, 1) \o RopeTables(ps) \o core
                  \o GateAndProject(l, 1, out) \o Residual(l, 1, mlp), E)
  BY <1>4, <1>6, <1>8, <1>10, <1>11, <1>13, <1>15 DEF AttnForward
<1>18. AttnEnds(D, E, l, lanes, ks)
  BY <1>1, <1>3, <1>5, <1>7, <1>9, <1>12, <1>14, <1>16, <1>17, AttnWhole
<1> QED BY <1>2, <1>18

LEMMA AttnForwardPrefillEnds ==
    ASSUME NEW l \in AttnLayer, NEW s \in Seqs, NEW t \in 1 .. ScratchRows, env.split \in 1 .. 3,
           NEW ks, ks[s] \in Nat, NEW D, NEW E, D.keys[l] = ks,
           Leads(D, AttnForwardPrefill(l, ks, s, t), E)
    PROVE  AttnEnds(D, E, l, OneLane(s, t), ks)
<1>1. t \in Nat
  OBVIOUS
<1>2. PICK lanes : lanes = OneLane(s, t)
  OBVIOUS
<1>3. Lanes(lanes) /\ RowsBelow(lanes, t)
  BY <1>2, LanesOfOne
<1>4. PICK ins : ins = ForwardPrefillSharedInput(Ws(l, AttnIns), "hidden", AttnOuts, t)
  OBVIOUS
<1>5. InsWork(ins, l, AttnIns, AttnOuts, 3, t)
  BY <1>1, <1>4, AttnNames, SharedInsWork
<1>6. PICK p, g : p = DeinterleaveHeadsBatched("q", "query", t) /\ g = DeinterleaveHeadsBatched("gate", "gate", t)
  OBVIOUS
<1>7. Halves(p, g, t)
  BY <1>6, HalvesStand DEF DeinterleaveHeadsBatched
<1>8. PICK ps : ps = [i \in 1 .. t |-> ks[s] + i - 1]
  OBVIOUS
<1>9. DOMAIN ps = 1 .. t /\ TablesOf(ps, lanes, ks)
  <2>1. ASSUME NEW lane \in lanes, NEW i \in 1 .. Len(lane.rows)
        PROVE  ps[lane.rows[i] + 1] = ks[lane.seq] + i - 1
    <3>1. lane.seq = s /\ Len(lane.rows) = t /\ \A j \in 1 .. t : lane.rows[j] = j - 1
      BY <1>2, LaneOfOne
    <3>2. i \in 1 .. t
      BY <3>1
    <3>3. lane.rows[i] + 1 = i
      BY <3>1, <3>2
    <3> QED BY <1>8, <3>1, <3>2, <3>3
  <2>2. DOMAIN ps = 1 .. t
    BY <1>8
  <2> QED BY <2>1, <2>2 DEF TablesOf
<1>10. PICK a, b, c, d : /\ a = RopeNeoxBatched(t) /\ b = KvCacheAppendBatched(l, s, ks[s], t)
                         /\ c = SetKeys(l, [ks EXCEPT ![s] = ks[s] + t]) /\ d = AttnPrefill(l, s, ks[s], t)
  OBVIOUS
<1>11. PICK core : core = <<a, b, c, d>>
  OBVIOUS
<1>12. CoreWorks(core, l, lanes, ks)
  <2>1. CoreFour(a, b, c, d, l, OneLane(s, t), ks[s], t)
    BY <1>10, CoreFourStands DEF RopeNeoxBatched, KvCacheAppendBatched, AttnPrefill, AttnPrefillTiled
  <2>2. l \in Layer
    BY DEF AttnLayer
  <2>3. CoreWorks(<<a, b, c, d>>, l, OneLane(s, t), ks)
    BY <2>1, <2>2, CoreFourWorks
  <2> QED BY <1>2, <1>11, <2>3
<1>13. PICK out : out = ForwardPrefill(W(l, "o_proj"), "attn", "proj", t)
  OBVIOUS
<1>14. OutWorks(out, W(l, "o_proj"), "attn", "proj", t)
  <2>1. "proj" \in Buffer /\ "attn" \in Buffer
    BY BufferNames DEF ScratchBuffer
  <2>2. W(l, "o_proj")[2] \in DOMAIN Shape
    BY NamesLoaded DEF ProjectionNames
  <2>3. "attn" # "proj"
    OBVIOUS
  <2> QED BY <1>1, <1>13, <2>1, <2>2, <2>3, PrefillOutWorks
<1>15. PICK mlp : mlp = MlpForwardPrefill(l, t)
  OBVIOUS
<1>16. MlpWorks(mlp, l, t)
  BY <1>1, <1>15, MlpForwardPrefillWorks
<1>17. Leads(D, InNorm(l, t) \o ins \o <<p, g>> \o HeadNorms(l, t) \o RopeTables(ps) \o core
                  \o GateAndProject(l, t, out) \o Residual(l, t, mlp), E)
  BY <1>4, <1>6, <1>8, <1>10, <1>11, <1>13, <1>15 DEF AttnForwardPrefill
<1>18. AttnEnds(D, E, l, lanes, ks)
  BY <1>1, <1>3, <1>5, <1>7, <1>9, <1>12, <1>14, <1>16, <1>17, AttnWhole
<1> QED BY <1>2, <1>18

LEMMA AttnForwardBatchEnds ==
    ASSUME NEW l \in AttnLayer, NEW t \in 1 .. NSeq, NEW ks, \A s \in Seqs : ks[s] \in 0 .. Ctx - 1,
           NEW D, NEW E, D.keys[l] = ks, Leads(D, AttnForwardBatch(l, ks, t), E)
    PROVE  AttnEnds(D, E, l, LanePerSeq(t), ks)
<1>1. t \in Nat
  OBVIOUS
<1>2. PICK lanes : lanes = LanePerSeq(t)
  OBVIOUS
<1>3. Lanes(lanes) /\ RowsBelow(lanes, t)
  BY <1>2, LanesOfSeqs
<1>4. PICK ins : ins = FlattenSeq([i \in 1 .. 3 |-> Forward(W(l, AttnIns[i]), "hidden", AttnOuts[i], t)])
  OBVIOUS
<1>5. InsWork(ins, l, AttnIns, AttnOuts, 3, t)
  BY <1>4, AttnNames, GemvInsWork
<1>6. PICK p, g : p = DeinterleaveHeadsBatched("q", "query", t) /\ g = DeinterleaveHeadsBatched("gate", "gate", t)
  OBVIOUS
<1>7. Halves(p, g, t)
  BY <1>6, HalvesStand DEF DeinterleaveHeadsBatched
<1>8. PICK ps : ps = [i \in 1 .. t |-> ks[i - 1]]
  OBVIOUS
<1>9. DOMAIN ps = 1 .. t /\ TablesOf(ps, lanes, ks)
  <2>1. ASSUME NEW lane \in lanes, NEW i \in 1 .. Len(lane.rows)
        PROVE  ps[lane.rows[i] + 1] = ks[lane.seq] + i - 1
    <3>1. lane = [seq |-> lane.seq, rows |-> <<lane.seq>>] /\ lane.seq \in 0 .. t - 1 /\ lane.seq \in Seqs
      BY <1>2, LanesOfSeqs
    <3>2. lane.rows = <<lane.seq>>
      BY <3>1
    <3>3. i = 1 /\ lane.rows[i] = lane.seq
      BY <3>2
    <3>4. lane.seq + 1 \in 1 .. t /\ (lane.seq + 1) - 1 = lane.seq
      BY <1>1, <3>1
    <3>5. ps[lane.seq + 1] = ks[lane.seq]
      BY <1>8, <3>4
    <3>6. ks[lane.seq] + 1 - 1 = ks[lane.seq]
      <4>1. ks[lane.seq] \in Int
        BY <3>1, SizesAreNat
      <4> QED BY <4>1
    <3> QED BY <3>3, <3>5, <3>6
  <2>2. DOMAIN ps = 1 .. t
    BY <1>8
  <2> QED BY <2>1, <2>2 DEF TablesOf
<1>10. PICK a, b, c, d, e : /\ a = RopeNeoxBatched(t) /\ b = SyncPositions(l) /\ c = KvCacheAppendMulti(l)
                            /\ d = SetKeys(l, [s \in Seqs |-> ks[s] + 1]) /\ e = AttnDecodeMulti(l)
  OBVIOUS
<1>11. PICK core : core = <<a, b, c, d, b, e>>
  OBVIOUS
<1>12. CoreWorks(core, l, lanes, ks)
  <2>1. CoreSix(a, b, c, d, b, e, l, ks, t)
    BY <1>10, CoreSixStands
  <2>2. l \in Layer
    BY DEF AttnLayer
  <2>3. CoreWorks(<<a, b, c, d, b, e>>, l, LanePerSeq(t), ks)
    BY <2>1, <2>2, CoreSixWorks
  <2> QED BY <1>2, <1>11, <2>3
<1>13. PICK out : out = Forward(W(l, "o_proj"), "attn", "proj", t)
  OBVIOUS
<1>14. OutWorks(out, W(l, "o_proj"), "attn", "proj", t)
  <2>1. "proj" \in Buffer
    BY BufferNames DEF ScratchBuffer
  <2> QED BY <1>13, <2>1, GemvOutWorks
<1>15. PICK mlp : mlp = MlpForward(l, t)
  OBVIOUS
<1>16. MlpWorks(mlp, l, t)
  BY <1>15, MlpForwardWorks
<1>17. Leads(D, InNorm(l, t) \o ins \o <<p, g>> \o HeadNorms(l, t) \o RopeTables(ps) \o core
                  \o GateAndProject(l, t, out) \o Residual(l, t, mlp), E)
  BY <1>4, <1>6, <1>8, <1>10, <1>11, <1>13, <1>15 DEF AttnForwardBatch
<1>18. AttnEnds(D, E, l, lanes, ks)
  BY <1>1, <1>3, <1>5, <1>7, <1>9, <1>12, <1>14, <1>16, <1>17, AttnWhole
<1> QED BY <1>2, <1>18

-----------------------------------------------------------------------------
(* The rows of a pass, and the lanes they are in.                            *)

\* A pass whose chunk the scratch holds, and the contexts its sequences began with.
Sized(p) ==
    /\ p.kind \in Computes /\ p.seq \in Seqs /\ p.tokens \in Seq(Token) /\ TokensFit(p)
    /\ Len(p.tokens) <= ScratchRows
Began0(bg) == \A s \in Seqs : bg[s] \in Context \union {Junk}

\* RowContext, of a pass and what its sequences began with.
RowOf(p, bg, r) ==
    LET batched == p.kind = "step_batch"
        h == bg[IF batched THEN r ELSE p.seq]
        ts == IF batched THEN <<p.tokens[r + 1]>> ELSE Prefix(p.tokens, r + 1)
    IN IF h = Junk \/ Len(h) + Len(ts) > Ctx THEN Junk ELSE h \o ts

\* The lanes of a pass.
LanesOf(p) ==
    IF p.kind = "step_batch" THEN LanePerSeq(Len(p.tokens)) ELSE OneLane(p.seq, Len(p.tokens))

\* How many tokens a pass may have.
LEMMA SizedCount ==
    ASSUME NEW p, Sized(p)
    PROVE  /\ Len(p.tokens) \in 1 .. ScratchRows
           /\ p.kind = "step_batch" => Len(p.tokens) \in 1 .. NSeq
           /\ p.kind = "step" => Len(p.tokens) = 1 /\ p.seq = 0
           /\ p.kind = "verify" => Len(p.tokens) <= VerifyMax
<1>1. p.kind \in Computes /\ TokensFit(p) /\ Len(p.tokens) <= ScratchRows
  BY DEF Sized
<1>2. Len(p.tokens) \in 1 .. Ctx
  BY <1>1, TokenCount
<1>3. Len(p.tokens) \in 1 .. ScratchRows
  BY <1>1, <1>2, SizesAreNat
<1> QED BY <1>1, <1>3 DEF TokensFit

\* A context and the first tokens of a chunk.
LEMMA GrownPrefix ==
    ASSUME NEW h \in Context, NEW toks \in Seq(Token), NEW n \in 1 .. Len(toks), Len(h) + n <= Ctx
    PROVE  /\ h \o Prefix(toks, n) \in Past /\ Len(h \o Prefix(toks, n)) = Len(h) + n
           /\ Prefix(h \o Prefix(toks, n), Len(h)) = h
           /\ \A i \in 1 .. n : Prefix(h \o Prefix(toks, n), Len(h) + i) = h \o Prefix(toks, i)
           /\ (h \o Prefix(toks, n))[Len(h) + n] = toks[n]
<1>1. h \in Seq(Token) /\ Len(h) \in Nat /\ Ctx \in Nat
  BY ContextIsSeq, SizesAreNat
<1>2. PICK u : u = Prefix(toks, n)
  OBVIOUS
<1>3. u \in Seq(Token) /\ Len(u) = n /\ \A i \in 1 .. n : u[i] = toks[i]
  BY <1>2 DEF Prefix
<1>4. h \o u \in Seq(Token) /\ Len(h \o u) = Len(h) + n
  BY <1>1, <1>3
<1>5. h \o u \in Past
  <2>1. h \o u \in Context
    BY <1>4, ContextIsSeq
  <2>2. h \o u # << >>
    BY <1>1, <1>4
  <2> QED BY <2>1, <2>2 DEF Past
<1>6. Prefix(h \o u, Len(h)) = h
  BY <1>1, <1>3 DEF Prefix
<1>7. ASSUME NEW i \in 1 .. n
      PROVE  Prefix(h \o u, Len(h) + i) = h \o Prefix(toks, i)
  <2>1. PICK v : v = Prefix(toks, i)
    OBVIOUS
  <2>2. v \in Seq(Token) /\ Len(v) = i /\ \A j \in 1 .. i : v[j] = toks[j]
    BY <2>1 DEF Prefix
  <2>3. PICK a, b : a = Prefix(h \o u, Len(h) + i) /\ b = h \o v
    OBVIOUS
  <2>4. a \in Seq(Token) /\ Len(a) = Len(h) + i /\ \A j \in 1 .. Len(h) + i : a[j] = (h \o u)[j]
    BY <1>1, <1>4, <2>3 DEF Prefix
  <2>5. b \in Seq(Token) /\ Len(b) = Len(h) + i
    <3>1. h \o v \in Seq(Token) /\ Len(h \o v) = Len(h) + Len(v)
      BY <1>1, <2>2
    <3> QED BY <2>2, <2>3, <3>1
  <2>6. ASSUME NEW j \in 1 .. Len(h) + i PROVE a[j] = b[j]
    <3>1. CASE j <= Len(h)
      <4>1. (h \o u)[j] = h[j] /\ (h \o v)[j] = h[j]
        BY <1>1, <1>3, <2>2, <3>1
      <4> QED BY <2>3, <2>4, <4>1
    <3>2. CASE j > Len(h)
      <4>1. j - Len(h) \in 1 .. i /\ j - Len(h) \in 1 .. n
        BY <1>1, <3>2
      <4>2. (h \o u)[j] = u[j - Len(h)] /\ (h \o v)[j] = v[j - Len(h)]
        BY <1>1, <1>3, <2>2, <3>2, <4>1
      <4> QED BY <1>3, <2>2, <2>3, <2>4, <4>1, <4>2
    <3> QED BY <1>1, <3>1, <3>2
  <2>7. PICK m : m = Len(h) + i
    OBVIOUS
  <2>8. a = [j \in 1 .. m |-> a[j]] /\ b = [j \in 1 .. m |-> b[j]]
    BY <2>4, <2>5, <2>7
  <2>9. a = b
    BY <2>6, <2>7, <2>8
  <2> QED BY <2>1, <2>3, <2>9
<1>8. (h \o u)[Len(h) + n] = toks[n]
  <2>1. n \in 1 .. n /\ (h \o u)[Len(h) + n] = u[n]
    BY <1>1, <1>3
  <2> QED BY <1>3, <2>1
<1> QED BY <1>2, <1>4, <1>5, <1>6, <1>7, <1>8

\* The lane of row r: it is the last of the rows its own context was grown by.
RowIn(p, bg, r, lane, n0, k) ==
    /\ lane \in LanesOf(p) /\ lane.seq \in Seqs /\ bg[lane.seq] \in Context
    /\ n0 = Len(bg[lane.seq]) /\ OfLane(lane, RowOf(p, bg, r), n0, k)
    /\ Prefix(RowOf(p, bg, r), n0) = bg[lane.seq] /\ lane.rows[k] = r
    /\ \A i \in 1 .. k : /\ lane.rows[i] \in 0 .. Len(p.tokens) - 1
                         /\ RowOf(p, bg, lane.rows[i]) = Prefix(RowOf(p, bg, r), n0 + i)
                         /\ RowOf(p, bg, lane.rows[i]) # Junk

\* Every row has its lane: in a batch, in a chunk, and so in any pass.
LEMMA BatchRowIn ==
    ASSUME NEW p, Sized(p), p.kind = "step_batch", NEW bg, Began0(bg),
           NEW r \in 0 .. Len(p.tokens) - 1, RowOf(p, bg, r) # Junk
    PROVE  /\ \E lane, n0, k : RowIn(p, bg, r, lane, n0, k)
           /\ RowOf(p, bg, r) \in Past /\ RowOf(p, bg, r)[Len(RowOf(p, bg, r))] = p.tokens[r + 1]
<1>1. p.tokens \in Seq(Token) /\ Len(p.tokens) \in 1 .. NSeq
  BY SizedCount DEF Sized
<1>2. r \in Seqs /\ r \in Nat /\ r + 1 \in 1 .. Len(p.tokens)
  BY <1>1, SizesAreNat DEF Seqs
<1>3. PICK h, tok : h = bg[r] /\ tok = p.tokens[r + 1]
  OBVIOUS
<1>4. tok \in Token
  BY <1>1, <1>2, <1>3
<1>5. PICK one : one = <<tok>>
  OBVIOUS
<1>6. one \in Seq(Token) /\ Len(one) = 1 /\ one[1] = tok
  BY <1>4, <1>5
<1>7. RowOf(p, bg, r) = IF h = Junk \/ Len(h) + Len(one) > Ctx THEN Junk ELSE h \o one
  BY <1>3, <1>5 DEF RowOf
<1>8. h \in Context /\ ~(Len(h) + 1 > Ctx) /\ RowOf(p, bg, r) = h \o one
  BY <1>2, <1>3, <1>6, <1>7 DEF Began0
<1>9. Len(h) \in Nat /\ Ctx \in Nat /\ Len(h) + 1 <= Ctx
  BY <1>8, ContextIsSeq, SizesAreNat
<1>10. Prefix(one, 1) = one /\ 1 \in 1 .. Len(one)
  BY <1>6 DEF Prefix
<1>11. PICK H : H = RowOf(p, bg, r)
  OBVIOUS
<1>12. H \in Past /\ Len(H) = Len(h) + 1 /\ Prefix(H, Len(h)) = h /\ H[Len(h) + 1] = tok
       /\ \A i \in 1 .. 1 : Prefix(H, Len(h) + i) = h \o Prefix(one, i)
  <2>1. PICK u : u = Prefix(one, 1)
    OBVIOUS
  <2>2. H = h \o u
    BY <1>8, <1>10, <1>11, <2>1
  <2> QED BY <1>6, <1>8, <1>9, <1>10, <2>1, <2>2, GrownPrefix
<1>13. PICK lane : lane = [seq |-> r, rows |-> <<r>>]
  OBVIOUS
<1>14. lane \in LanesOf(p)
  <2>1. r \in 0 .. Len(p.tokens) - 1
    OBVIOUS
  <2>2. lane \in LanePerSeq(Len(p.tokens))
    BY <1>1, <1>13, <2>1, LanesOfSeqs
  <2> QED BY <2>2 DEF LanesOf
<1>15. lane.seq = r /\ Len(lane.rows) = 1 /\ lane.rows[1] = r
  BY <1>13
<1>16. OfLane(lane, H, Len(h), 1)
  BY <1>9, <1>12, <1>15 DEF OfLane
<1>17. ASSUME NEW i \in 1 .. 1
       PROVE  /\ lane.rows[i] \in 0 .. Len(p.tokens) - 1
              /\ RowOf(p, bg, lane.rows[i]) = Prefix(H, Len(h) + i)
              /\ RowOf(p, bg, lane.rows[i]) # Junk
  <2>1. i = 1
    OBVIOUS
  <2>2. lane.rows[i] = r
    BY <1>15, <2>1
  <2>3. Prefix(H, Len(h) + i) = h \o one
    BY <1>10, <1>12, <2>1
  <2> QED BY <1>8, <2>2, <2>3
<1>18. RowIn(p, bg, r, lane, Len(h), 1)
  BY <1>2, <1>3, <1>8, <1>11, <1>12, <1>14, <1>15, <1>16, <1>17 DEF RowIn
<1>19. H[Len(H)] = p.tokens[r + 1]
  BY <1>3, <1>12
<1> QED BY <1>11, <1>12, <1>18, <1>19

LEMMA ChunkRowIn ==
    ASSUME NEW p, Sized(p), p.kind # "step_batch", NEW bg, Began0(bg),
           NEW r \in 0 .. Len(p.tokens) - 1, RowOf(p, bg, r) # Junk
    PROVE  /\ \E lane, n0, k : RowIn(p, bg, r, lane, n0, k)
           /\ RowOf(p, bg, r) \in Past /\ RowOf(p, bg, r)[Len(RowOf(p, bg, r))] = p.tokens[r + 1]
<1>1. p.tokens \in Seq(Token) /\ Len(p.tokens) \in 1 .. ScratchRows /\ p.seq \in Seqs
  BY SizedCount DEF Sized
<1>2. r \in Nat /\ r + 1 \in 1 .. Len(p.tokens) /\ Len(p.tokens) \in Nat
  BY <1>1, SizesAreNat
<1>3. PICK toks, h, n : toks = p.tokens /\ h = bg[p.seq] /\ n = r + 1
  OBVIOUS
<1>4. toks \in Seq(Token) /\ n \in 1 .. Len(toks) /\ n \in Nat
  BY <1>1, <1>2, <1>3
<1>5. ASSUME NEW j \in 1 .. Len(toks)
      PROVE  Len(Prefix(toks, j)) = j
  BY <1>4 DEF Prefix
<1>6. ASSUME NEW q
      PROVE  RowOf(p, bg, q) = IF h = Junk \/ Len(h) + Len(Prefix(toks, q + 1)) > Ctx THEN Junk
                               ELSE h \o Prefix(toks, q + 1)
  BY <1>3 DEF RowOf
<1>7. RowOf(p, bg, r) = IF h = Junk \/ Len(h) + n > Ctx THEN Junk ELSE h \o Prefix(toks, n)
  BY <1>3, <1>4, <1>5, <1>6
<1>8. h \in Context /\ ~(Len(h) + n > Ctx) /\ RowOf(p, bg, r) = h \o Prefix(toks, n)
  BY <1>1, <1>3, <1>7 DEF Began0
<1>9. Len(h) \in Nat /\ Ctx \in Nat /\ Len(h) + n <= Ctx
  BY <1>4, <1>8, ContextIsSeq, SizesAreNat
<1>10. PICK H : H = RowOf(p, bg, r)
  OBVIOUS
<1>11. H \in Past /\ Len(H) = Len(h) + n /\ Prefix(H, Len(h)) = h /\ H[Len(h) + n] = toks[n]
       /\ \A i \in 1 .. n : Prefix(H, Len(h) + i) = h \o Prefix(toks, i)
  <2>1. h \in Context /\ Len(h) + n <= Ctx
    BY <1>8, <1>9
  <2>2. PICK u : u = h \o Prefix(toks, n)
    OBVIOUS
  <2>3. /\ u \in Past /\ Len(u) = Len(h) + n /\ Prefix(u, Len(h)) = h /\ u[Len(h) + n] = toks[n]
        /\ \A i \in 1 .. n : Prefix(u, Len(h) + i) = h \o Prefix(toks, i)
    BY <1>4, <2>1, <2>2, GrownPrefix
  <2> QED BY <1>8, <1>10, <2>2, <2>3
<1>12. PICK lane : lane = [seq |-> p.seq, rows |-> [i \in 1 .. Len(p.tokens) |-> i - 1]]
  OBVIOUS
<1>13. lane \in LanesOf(p)
  BY <1>12 DEF LanesOf, OneLane
<1>14. lane.seq = p.seq /\ Len(lane.rows) = Len(toks) /\ \A i \in 1 .. Len(toks) : lane.rows[i] = i - 1
  BY <1>2, <1>3, <1>12
<1>15. OfLane(lane, H, Len(h), n)
  BY <1>4, <1>9, <1>11, <1>14 DEF OfLane
<1>16. ASSUME NEW i \in 1 .. n
       PROVE  /\ lane.rows[i] \in 0 .. Len(p.tokens) - 1
              /\ RowOf(p, bg, lane.rows[i]) = Prefix(H, Len(h) + i)
              /\ RowOf(p, bg, lane.rows[i]) # Junk
  <2>1. i \in 1 .. Len(toks) /\ i - 1 \in 0 .. Len(toks) - 1 /\ (i - 1) + 1 = i /\ i <= n
    BY <1>4
  <2>2. lane.rows[i] = i - 1
    BY <1>14, <2>1
  <2>3. Len(Prefix(toks, i)) = i
    BY <1>5, <2>1
  <2>4. ~(Len(h) + i > Ctx)
    BY <1>4, <1>9, <2>1
  <2>5. h # Junk
    BY <1>8, JunkAssumption
  <2>6. PICK q : q = i - 1
    OBVIOUS
  <2>7. RowOf(p, bg, q) = h \o Prefix(toks, i)
    BY <1>6, <2>1, <2>3, <2>4, <2>5, <2>6
  <2>8. Prefix(H, Len(h) + i) = h \o Prefix(toks, i)
    BY <1>11
  <2>9. h \o Prefix(toks, i) \in Past
    BY <1>8, <1>4, <2>1, <1>9, GrownPrefix, <2>4
  <2>10. h \o Prefix(toks, i) # Junk
    BY <2>9, JunkAssumption DEF Past
  <2> QED BY <1>3, <2>1, <2>2, <2>6, <2>7, <2>8, <2>10
<1>17. lane.rows[n] = r
  BY <1>3, <1>4, <1>14
<1>18. RowIn(p, bg, r, lane, Len(h), n)
  BY <1>1, <1>3, <1>8, <1>10, <1>11, <1>13, <1>14, <1>15, <1>16, <1>17 DEF RowIn
<1>19. H[Len(H)] = p.tokens[r + 1]
  BY <1>3, <1>11
<1> QED BY <1>10, <1>11, <1>18, <1>19

LEMMA RowHasLane ==
    ASSUME NEW p, Sized(p), NEW bg, Began0(bg),
           NEW r \in 0 .. Len(p.tokens) - 1, RowOf(p, bg, r) # Junk
    PROVE  /\ \E lane, n0, k : RowIn(p, bg, r, lane, n0, k)
           /\ RowOf(p, bg, r) \in Past /\ RowOf(p, bg, r)[Len(RowOf(p, bg, r))] = p.tokens[r + 1]
BY BatchRowIn, ChunkRowIn

-----------------------------------------------------------------------------
(* A layer of a pass: from the state the pass began with and the rows of the *)
(* layer before it to the rows of this one.                                  *)

\* What layer l keeps of sequence s is that of the context h.
Stands(D, l, s, h) ==
    /\ l \in DeltaLayer =>
         /\ D.rec[l][s] = RefState(l, h)
         /\ [j \in 1 .. ConvHist |-> D.conv[l][s * ConvHist + j - 1]] = RefWindow(l, h, ConvHist)
    /\ l \in AttnLayer => \A j \in 1 .. Len(h) : D.kv[l][Spot(s, j)] = RefKv(l, Prefix(h, j))

\* Layer l is as the pass found it: its counts, and the context of every sequence.
AsBegun(D, l, nk, bg) ==
    /\ l \in AttnLayer => D.keys[l] = nk
    /\ \A s \in Seqs : bg[s] \in Context =>
         Stands(D, l, s, bg[s]) /\ nk[s] = Len(bg[s])

\* The rows a layer takes, and the rows it leaves, are the reference of their contexts.
XRows(D, l, p, bg) ==
    \A r \in 0 .. Len(p.tokens) - 1 :
        RowOf(p, bg, r) # Junk => D.buf["a"][r] = X(l, RowOf(p, bg, r))
OutRows(D, l, p, bg) ==
    \A r \in 0 .. Len(p.tokens) - 1 :
        RowOf(p, bg, r) # Junk => D.buf["b"][r] = OutTable[l][RowOf(p, bg, r)]

\* The counts of the pass: no sequence of a batch appends outside its window.
Counted(p, nk) ==
    nk \in [Seqs -> Nat] /\ (p.kind = "step_batch" => \A s \in Seqs : nk[s] < Ctx)

\* A layer leaves what the others keep.
LEMMA StandsKept ==
    ASSUME NEW D, NEW E, NEW l, NEW m \in Layer \ {l}, Beyond(D, E, l), NEW nk, NEW bg, AsBegun(D, m, nk, bg)
    PROVE  AsBegun(E, m, nk, bg)
<1>1. E.conv[m] = D.conv[m] /\ E.rec[m] = D.rec[m] /\ E.kv[m] = D.kv[m] /\ E.keys[m] = D.keys[m]
  BY DEF Beyond
<1>2. ASSUME NEW s \in Seqs, bg[s] \in Context
      PROVE  Stands(E, m, s, bg[s]) /\ nk[s] = Len(bg[s])
  <2>1. Stands(D, m, s, bg[s]) /\ nk[s] = Len(bg[s])
    BY <1>2 DEF AsBegun
  <2> QED BY <1>1, <2>1 DEF Stands
<1> QED BY <1>1, <1>2 DEF AsBegun

\* A layer of either kind, on the path of the pass.
LEMMA DeltaLayerRun ==
    ASSUME NEW p, Sized(p), NEW l \in DeltaLayer, env.split \in 1 .. 3, NEW ks, NEW D, NEW E,
           Leads(D, LayerLaunches(p, l, ks), E)
    PROVE  DeltaEnds(D, E, l, LanesOf(p))
<1>1. PICK t : t = Len(p.tokens)
  OBVIOUS
<1>2. /\ t \in 1 .. ScratchRows /\ p.seq \in Seqs /\ p.kind \in Computes
      /\ p.kind = "step_batch" => t \in 1 .. NSeq
      /\ p.kind = "step" => t = 1 /\ p.seq = 0
  BY <1>1, SizedCount DEF Sized
<1>3. CASE p.kind = "step"
  <2>1. LayerLaunches(p, l, ks) = DeltaForward(l)
    BY <1>3 DEF LayerLaunches
  <2>2. DeltaEnds(D, E, l, OneLane(0, 1))
    BY <2>1, DeltaForwardEnds
  <2>3. LanesOf(p) = OneLane(0, 1)
    BY <1>1, <1>2, <1>3 DEF LanesOf
  <2> QED BY <2>2, <2>3
<1>4. CASE p.kind = "step_batch"
  <2>1. LayerLaunches(p, l, ks) = DeltaForwardBatch(l, t)
    BY <1>1, <1>4 DEF LayerLaunches
  <2>2. DeltaEnds(D, E, l, LanePerSeq(t))
    BY <1>2, <1>4, <2>1, DeltaForwardBatchEnds
  <2>3. LanesOf(p) = LanePerSeq(t)
    BY <1>1, <1>4 DEF LanesOf
  <2> QED BY <2>2, <2>3
<1>5. CASE p.kind \notin {"step", "step_batch"}
  <2>1. LayerLaunches(p, l, ks) = DeltaForwardPrefill(l, p.seq, t)
    BY <1>1, <1>5 DEF LayerLaunches
  <2>2. PICK s : s = p.seq
    OBVIOUS
  <2>3. DeltaEnds(D, E, l, OneLane(s, t))
    BY <1>2, <2>1, <2>2, DeltaForwardPrefillEnds
  <2>4. LanesOf(p) = OneLane(s, t)
    BY <1>1, <1>5, <2>2 DEF LanesOf
  <2> QED BY <2>3, <2>4
<1> QED BY <1>3, <1>4, <1>5

LEMMA AttnLayerRun ==
    ASSUME NEW p, Sized(p), NEW l \in AttnLayer, env.split \in 1 .. 3, NEW ks, Counted(p, ks),
           NEW D, NEW E, D.keys[l] = ks, Leads(D, LayerLaunches(p, l, ks), E)
    PROVE  AttnEnds(D, E, l, LanesOf(p), ks)
<1>1. PICK t : t = Len(p.tokens)
  OBVIOUS
<1>2. /\ t \in 1 .. ScratchRows /\ p.seq \in Seqs /\ p.kind \in Computes
      /\ p.kind = "step_batch" => t \in 1 .. NSeq
      /\ p.kind = "step" => t = 1 /\ p.seq = 0
  BY <1>1, SizedCount DEF Sized
<1>3. l \notin DeltaLayer
  BY DEF AttnLayer, DeltaLayer
<1>4. ks \in [Seqs -> Nat] /\ (p.kind = "step_batch" => \A s \in Seqs : ks[s] < Ctx)
  BY DEF Counted
<1>5. CASE p.kind = "step"
  <2>1. LayerLaunches(p, l, ks) = AttnForward(l, ks)
    BY <1>3, <1>5 DEF LayerLaunches
  <2>2. ks[0] \in Nat
    BY <1>2, <1>4, <1>5
  <2>3. AttnEnds(D, E, l, OneLane(0, 1), ks)
    BY <2>1, <2>2, AttnForwardEnds
  <2>4. LanesOf(p) = OneLane(0, 1)
    BY <1>1, <1>2, <1>5 DEF LanesOf
  <2> QED BY <2>3, <2>4
<1>6. CASE p.kind = "step_batch"
  <2>1. LayerLaunches(p, l, ks) = AttnForwardBatch(l, ks, t)
    BY <1>1, <1>3, <1>6 DEF LayerLaunches
  <2>2. \A s \in Seqs : ks[s] \in 0 .. Ctx - 1
    BY <1>4, <1>6, SizesAreNat
  <2>3. AttnEnds(D, E, l, LanePerSeq(t), ks)
    BY <1>2, <1>6, <2>1, <2>2, AttnForwardBatchEnds
  <2>4. LanesOf(p) = LanePerSeq(t)
    BY <1>1, <1>6 DEF LanesOf
  <2> QED BY <2>3, <2>4
<1>7. CASE p.kind \notin {"step", "step_batch"}
  <2>1. PICK s : s = p.seq
    OBVIOUS
  <2>2. LayerLaunches(p, l, ks) = AttnForwardPrefill(l, ks, s, t)
    BY <1>1, <1>3, <1>7, <2>1 DEF LayerLaunches
  <2>3. s \in Seqs /\ ks[s] \in Nat
    BY <1>2, <1>4, <2>1
  <2>4. AttnEnds(D, E, l, OneLane(s, t), ks)
    BY <1>2, <2>2, <2>3, AttnForwardPrefillEnds
  <2>5. LanesOf(p) = OneLane(s, t)
    BY <1>1, <1>7, <2>1 DEF LanesOf
  <2> QED BY <2>4, <2>5
<1> QED BY <1>5, <1>6, <1>7

\* The rows a layer leaves.
LEMMA LayerRun ==
    ASSUME NEW p, Sized(p), NEW l \in Layer, env.split \in 1 .. 3, NEW nk, Counted(p, nk),
           NEW bg, Began0(bg), NEW D, NEW E, AsBegun(D, l, nk, bg), XRows(D, l, p, bg),
           Leads(D, LayerLaunches(p, l, D.keys[l]), E)
    PROVE  Beyond(D, E, l) /\ OutRows(E, l, p, bg)
<1>1. CASE l \in DeltaLayer
  <2>1. PICK ks : ks = D.keys[l]
    OBVIOUS
  <2>2. DeltaEnds(D, E, l, LanesOf(p))
    BY <1>1, <2>1, DeltaLayerRun
  <2>3. ASSUME NEW r \in 0 .. Len(p.tokens) - 1, RowOf(p, bg, r) # Junk
        PROVE  E.buf["b"][r] = OutTable[l][RowOf(p, bg, r)]
    <3>1. PICK lane, n0, k : RowIn(p, bg, r, lane, n0, k)
      BY <2>3, RowHasLane
    <3>2. PICK H : H = RowOf(p, bg, r)
      OBVIOUS
    <3>3. /\ lane \in LanesOf(p) /\ lane.seq \in Seqs /\ bg[lane.seq] \in Context
          /\ OfLane(lane, H, n0, k) /\ Prefix(H, n0) = bg[lane.seq] /\ lane.rows[k] = r
      BY <3>1, <3>2 DEF RowIn
    <3>4. \A i \in 1 .. k : /\ lane.rows[i] \in 0 .. Len(p.tokens) - 1
                            /\ RowOf(p, bg, lane.rows[i]) = Prefix(H, n0 + i)
                            /\ RowOf(p, bg, lane.rows[i]) # Junk
      BY <3>1, <3>2 DEF RowIn
    <3>5. Stands(D, l, lane.seq, bg[lane.seq])
      BY <3>3 DEF AsBegun
    <3>6. ASSUME NEW i \in 1 .. k PROVE D.buf["a"][lane.rows[i]] = X(l, Prefix(H, n0 + i))
      BY <3>4 DEF XRows
    <3>7. DeltaStart(D, l, lane, H, n0, k)
      BY <1>1, <3>3, <3>5, <3>6 DEF DeltaStart, Stands
    <3>8. E.buf["b"][lane.rows[k]] = OutTable[l][H]
      BY <2>2, <3>3, <3>7 DEF DeltaEnds
    <3> QED BY <3>2, <3>3, <3>8
  <2> QED BY <2>2, <2>3 DEF DeltaEnds, OutRows
<1>2. CASE l \in AttnLayer
  <2>1. D.keys[l] = nk
    BY <1>2 DEF AsBegun
  <2>2. AttnEnds(D, E, l, LanesOf(p), nk)
    BY <1>2, <2>1, AttnLayerRun
  <2>3. ASSUME NEW r \in 0 .. Len(p.tokens) - 1, RowOf(p, bg, r) # Junk
        PROVE  E.buf["b"][r] = OutTable[l][RowOf(p, bg, r)]
    <3>1. PICK lane, n0, k : RowIn(p, bg, r, lane, n0, k)
      BY <2>3, RowHasLane
    <3>2. PICK H : H = RowOf(p, bg, r)
      OBVIOUS
    <3>3. /\ lane \in LanesOf(p) /\ lane.seq \in Seqs /\ bg[lane.seq] \in Context
          /\ n0 = Len(bg[lane.seq])
          /\ OfLane(lane, H, n0, k) /\ Prefix(H, n0) = bg[lane.seq] /\ lane.rows[k] = r
      BY <3>1, <3>2 DEF RowIn
    <3>4. \A i \in 1 .. k : /\ lane.rows[i] \in 0 .. Len(p.tokens) - 1
                            /\ RowOf(p, bg, lane.rows[i]) = Prefix(H, n0 + i)
                            /\ RowOf(p, bg, lane.rows[i]) # Junk
      BY <3>1, <3>2 DEF RowIn
    <3>5. Stands(D, l, lane.seq, bg[lane.seq]) /\ nk[lane.seq] = n0
      BY <3>3 DEF AsBegun
    <3>6. ASSUME NEW i \in 1 .. k PROVE D.buf["a"][lane.rows[i]] = X(l, Prefix(H, n0 + i))
      BY <3>4 DEF XRows
    <3>7. RowsBefore(D, l, lane, H, n0)
      <4>1. ASSUME NEW j \in 1 .. n0 PROVE D.kv[l][Spot(lane.seq, j)] = RefKv(l, Prefix(H, j))
        <5>1. D.kv[l][Spot(lane.seq, j)] = RefKv(l, Prefix(bg[lane.seq], j))
          BY <1>2, <3>3, <3>5 DEF Stands
        <5>2. H \in Context /\ n0 \in 0 .. Len(H)
          BY <3>3, OfLaneFacts
        <5>3. j \in 0 .. n0
          BY <5>2
        <5>4. Prefix(Prefix(H, n0), j) = Prefix(H, j)
          BY <5>2, <5>3, PrefixFacts
        <5> QED BY <3>3, <5>1, <5>4
      <4> QED BY <4>1 DEF RowsBefore
    <3>8. AttnStart(D, l, lane, H, nk[lane.seq], k)
      BY <3>3, <3>5, <3>6, <3>7 DEF AttnStart
    <3>9. E.buf["b"][lane.rows[k]] = OutTable[l][H]
      BY <2>2, <3>3, <3>8 DEF AttnEnds
    <3> QED BY <3>2, <3>3, <3>9
  <2> QED BY <2>2, <2>3 DEF AttnEnds, OutRows
<1>3. l \in DeltaLayer \/ l \in AttnLayer
  BY KernelSizes DEF Layer, DeltaLayer, AttnLayer
<1> QED BY <1>1, <1>2, <1>3

-----------------------------------------------------------------------------
(* What follows the last layer.                                              *)

\* The index a normed row scores highest.
IdxOf(v) == Term("argmax", "none", <<Term("linear", <<0, "lm_head">>, <<v>>)>>)
Chosen(D, E, x, y, i, t) ==
    Leaves(D, E, {y, i}) /\ \A r \in BufRow : r < t => E.buf[i][r] = IdxOf(D.buf[x][r])

\* The head's projection and the argmax over it.
LEMMA HeadChooses ==
    ASSUME NEW D, NEW E, NEW x, NEW y \in Buffer, NEW i \in Buffer, NEW t,
           Leads(D, Forward(W(0, "lm_head"), x, y, t) \o <<ArgmaxMulti(y, i, t)>>, E)
    PROVE  Chosen(D, E, x, y, i, t)
<1>1. PICK w : w = W(0, "lm_head")
  OBVIOUS
<1>2. PICK a : a = ArgmaxMulti(y, i, t)
  OBVIOUS
<1>3. PICK f : Forward(w, x, y, t) = <<f>>
  BY ForwardIsOne
<1>4. IsSeq(<<f>>) /\ IsSeq(<<a>>) /\ Leads(D, <<f>> \o <<a>>, E)
  BY <1>1, <1>2, <1>3, TupleSeq
<1>5. PICK M : Leads(D, <<f>>, M) /\ Leads(M, <<a>>, E)
  BY <1>4, LeadsConcat
<1>6. Projected(D, M, w, x, y, t)
  <2>1. Leads(D, Forward(w, x, y, t), M)
    BY <1>3, <1>5
  <2> QED BY <2>1, ForwardProjects
<1>7. Effect(M, a, E)
  BY <1>5, LeadsOne
<1>8. a.kind = "rows" /\ a.rows = t /\ a.stores = {Store(i, "argmax", "none", <<y>>)}
  BY <1>2 DEF ArgmaxMulti, Rows
<1>9. Leaves(M, E, {i}) /\ Maps1(M, E, i, "argmax", "none", y, t)
  <2>1. Leaves(M, E, {i}) /\ Maps1(M, E, i, "argmax", "none", y, a.rows)
    BY <1>7, <1>8, RowOfOne
  <2> QED BY <1>8, <2>1
<1>10. Leaves(D, E, {y} \union {i})
  BY <1>6, <1>9, LeavesOn DEF Projected
<1>11. ASSUME NEW r \in BufRow, r < t PROVE E.buf[i][r] = IdxOf(D.buf[x][r])
  <2>1. M.buf[y][r] = Term("linear", w, <<D.buf[x][r]>>)
    BY <1>6, <1>11 DEF Projected, Maps1
  <2>2. E.buf[i][r] = Term("argmax", "none", <<M.buf[y][r]>>)
    BY <1>9, <1>11 DEF Maps1
  <2> QED BY <1>1, <2>1, <2>2 DEF IdxOf, W
<1>12. {y} \union {i} = {y, i}
  OBVIOUS
<1> QED BY <1>10, <1>11, <1>12 DEF Chosen

\* The index the pass reads for row r, if it reads one.
ScoredIn(p, D, r) ==
    CASE p.kind = "verify" -> {D.buf["idx_all"][r]}
      [] p.kind = "step_batch" -> {D.buf["idx"][r]}
      [] OTHER -> IF r = Len(p.tokens) - 1 THEN {D.buf["idx"][0]} ELSE {}

\* The normed rows and the indices read are the reference's.
Scores(D, p, bg) ==
    \A r \in 0 .. Len(p.tokens) - 1 :
        RowOf(p, bg, r) # Junk =>
          /\ D.buf["normed"][r] = RefNormed(RowOf(p, bg, r))
          /\ ScoredIn(p, D, r) \subseteq {RefIdx(RowOf(p, bg, r))}

\* The final norm.
LEMMA NormRow ==
    ASSUME NEW D, NEW t, NEW E, Leads(D, <<RmsnormZeroCentered("a", W(0, "norm"), "normed", t)>>, E)
    PROVE  Leaves(D, E, {"normed"}) /\ Maps1(D, E, "normed", "rmsnorm", W(0, "norm"), "a", t)
<1>1. PICK L, w : L = RmsnormZeroCentered("a", W(0, "norm"), "normed", t) /\ w = W(0, "norm")
  OBVIOUS
<1>2. Effect(D, L, E)
  BY <1>1, LeadsOne
<1>3. L.kind = "rows" /\ L.rows = t /\ L.stores = {Store("normed", "rmsnorm", w, <<"a">>)}
  BY <1>1 DEF RmsnormZeroCentered, Rows
<1>4. "normed" \in Buffer
  BY BufferNames
<1>5. Leaves(D, E, {"normed"}) /\ Maps1(D, E, "normed", "rmsnorm", w, "a", L.rows)
  BY <1>2, <1>3, <1>4, RowOfOne
<1> QED BY <1>1, <1>3, <1>5

\* The row of the last token, alone in a buffer of its own.
LEMMA LastCopied ==
    ASSUME NEW D, NEW t, NEW E, Leads(D, <<CopyLastRow("normed", "last", t)>>, E)
    PROVE  Leaves(D, E, {"last"}) /\ E.buf["last"][0] = D.buf["normed"][t - 1 + 0]
<1>1. PICK L, n : L = CopyLastRow("normed", "last", t) /\ n = t - 1
  OBVIOUS
<1>2. Effect(D, L, E)
  BY <1>1, LeadsOne
<1>3. L.kind = "copy" /\ L.src = "normed" /\ L.dst = "last" /\ L.from = n /\ L.rows = 1
  BY <1>1 DEF CopyLastRow, Copy
<1>4. "last" \in Buffer /\ 0 \in BufRow
  BY BufferNames, SizesAreNat DEF BufRow
<1>5. CopyEffect(D, L, E)
  BY <1>2 DEF Effect
<1>6. Keeps(D, E, {"last"}) /\ \A r \in BufRow : r < 1 => E.buf["last"][r] = D.buf["normed"][n + r]
  BY <1>3, <1>4, <1>5 DEF CopyEffect
<1>7. E.buf["last"][0] = D.buf["normed"][n + 0]
  BY <1>4, <1>6
<1> QED BY <1>1, <1>6, <1>7 DEF Keeps, Leaves

\* From the normed rows to the indices, on each of the four paths.
Rest(p, t) ==
    CASE p.kind = "step" -> Forward(W(0, "lm_head"), "normed", "logits", 1) \o <<Argmax>>
      [] p.kind = "step_batch" ->
           Forward(W(0, "lm_head"), "normed", "logits", t) \o <<ArgmaxMulti("logits", "idx", t)>>
      [] p.kind = "prefill_seq" ->
           <<CopyLastRow("normed", "last", t)>> \o Forward(W(0, "lm_head"), "last", "logits", 1) \o <<Argmax>>
      [] OTHER ->
           Forward(W(0, "lm_head"), "normed", "logits_all", t) \o <<ArgmaxMulti("logits_all", "idx_all", t)>>

\* Whatever the path, the indices are those of the rows they are read for.
LEMMA RestScores ==
    ASSUME NEW p, Sized(p), NEW t, t = Len(p.tokens), NEW M, NEW E, Leads(M, Rest(p, t), E)
    PROVE  /\ E.buf["normed"] = M.buf["normed"]
           /\ \A r \in 0 .. t - 1 : ScoredIn(p, E, r) \subseteq {IdxOf(M.buf["normed"][r])}
<1>1. t \in 1 .. ScratchRows /\ 0 .. t - 1 \subseteq BufRow /\ t \in Nat /\ 0 \in BufRow /\ p.kind \in Computes
      /\ (p.kind = "step" => t = 1)
  <2>1. t \in 1 .. ScratchRows /\ p.kind \in Computes /\ (p.kind = "step" => t = 1)
    BY SizedCount DEF Sized
  <2> QED BY <2>1, SizesAreNat DEF BufRow
<1>2. "logits" \in Buffer /\ "idx" \in Buffer /\ "logits_all" \in Buffer /\ "idx_all" \in Buffer
      /\ "normed" \in Buffer
  BY BufferNames
<1>3. Argmax = ArgmaxMulti("logits", "idx", 1)
  BY DEF Argmax, ArgmaxMulti
<1>4. CASE p.kind = "step"
  <2>1. Leads(M, Forward(W(0, "lm_head"), "normed", "logits", 1) \o <<ArgmaxMulti("logits", "idx", 1)>>, E)
    BY <1>3, <1>4 DEF Rest
  <2>2. Chosen(M, E, "normed", "logits", "idx", 1)
    BY <1>2, <2>1, HeadChooses
  <2>3. E.buf["normed"] = M.buf["normed"]
    BY <1>2, <2>2 DEF Chosen, Leaves, SameBut
  <2>4. E.buf["idx"][0] = IdxOf(M.buf["normed"][0])
    BY <1>1, <2>2 DEF Chosen
  <2>5. ASSUME NEW r \in 0 .. t - 1 PROVE ScoredIn(p, E, r) \subseteq {IdxOf(M.buf["normed"][r])}
    <3>1. t = 1
      BY <1>1, <1>4
    <3>2. r = 0
      BY <3>1
    <3> QED BY <1>4, <2>4, <3>2 DEF ScoredIn
  <2> QED BY <2>3, <2>5
<1>5. CASE p.kind = "step_batch"
  <2>1. Leads(M, Forward(W(0, "lm_head"), "normed", "logits", t) \o <<ArgmaxMulti("logits", "idx", t)>>, E)
    BY <1>5 DEF Rest
  <2>2. Chosen(M, E, "normed", "logits", "idx", t)
    BY <1>2, <2>1, HeadChooses
  <2>3. E.buf["normed"] = M.buf["normed"]
    BY <1>2, <2>2 DEF Chosen, Leaves, SameBut
  <2>4. ASSUME NEW r \in 0 .. t - 1 PROVE ScoredIn(p, E, r) \subseteq {IdxOf(M.buf["normed"][r])}
    <3>1. r \in BufRow /\ r < t
      BY <1>1
    <3>2. E.buf["idx"][r] = IdxOf(M.buf["normed"][r])
      BY <2>2, <3>1 DEF Chosen
    <3> QED BY <1>5, <3>2 DEF ScoredIn
  <2> QED BY <2>3, <2>4
<1>6. CASE p.kind = "prefill_seq"
  <2>1. PICK c, f : c = CopyLastRow("normed", "last", t)
                    /\ f = Forward(W(0, "lm_head"), "last", "logits", 1) \o <<ArgmaxMulti("logits", "idx", 1)>>
    OBVIOUS
  <2>2. PICK g, a : Forward(W(0, "lm_head"), "last", "logits", 1) = <<g>> /\ a = ArgmaxMulti("logits", "idx", 1)
    <3>1. PICK w : w = W(0, "lm_head")
      OBVIOUS
    <3>2. \E g : Forward(w, "last", "logits", 1) = <<g>>
      BY ForwardIsOne
    <3> QED BY <3>1, <3>2
  <2>3. f = <<g>> \o <<a>> /\ IsSeq(f) /\ IsSeq(<<c>>)
    <3>1. f = <<g>> \o <<a>>
      BY <2>1, <2>2
    <3>2. IsSeq(<<g>>) /\ IsSeq(<<a>>) /\ IsSeq(<<c>>)
      BY TupleSeq
    <3> QED BY <3>1, <3>2, ConcatIsSeq
  <2>4. Leads(M, <<c>> \o f, E)
    <3>1. Leads(M, <<c>> \o Forward(W(0, "lm_head"), "last", "logits", 1) \o <<Argmax>>, E)
      BY <1>6, <2>1 DEF Rest
    <3>2. <<c>> \o Forward(W(0, "lm_head"), "last", "logits", 1) \o <<Argmax>> = <<c>> \o f
      <4>1. Forward(W(0, "lm_head"), "last", "logits", 1) = <<g>> /\ Argmax = a
        BY <1>3, <2>2
      <4>2. <<c>> \o <<g>> \o <<a>> = <<c>> \o (<<g>> \o <<a>>)
        OBVIOUS
      <4> QED BY <2>3, <4>1, <4>2
    <3> QED BY <3>1, <3>2
  <2>5. PICK F : Leads(M, <<c>>, F) /\ Leads(F, f, E)
    BY <2>3, <2>4, LeadsConcat
  <2>6. Leaves(M, F, {"last"}) /\ F.buf["last"][0] = M.buf["normed"][t - 1 + 0]
    BY <2>1, <2>5, LastCopied
  <2>7. Chosen(F, E, "last", "logits", "idx", 1)
    BY <1>2, <2>1, <2>5, HeadChooses
  <2>8. E.buf["normed"] = M.buf["normed"]
    <3>1. F.buf["normed"] = M.buf["normed"]
      BY <1>2, <2>6 DEF Leaves, SameBut
    <3>2. E.buf["normed"] = F.buf["normed"]
      BY <1>2, <2>7 DEF Chosen, Leaves, SameBut
    <3> QED BY <3>1, <3>2
  <2>9. E.buf["idx"][0] = IdxOf(M.buf["normed"][t - 1])
    <3>1. E.buf["idx"][0] = IdxOf(F.buf["last"][0])
      BY <1>1, <2>7 DEF Chosen
    <3>2. t - 1 + 0 = t - 1
      BY <1>1
    <3> QED BY <2>6, <3>1, <3>2
  <2>10. ASSUME NEW r \in 0 .. t - 1 PROVE ScoredIn(p, E, r) \subseteq {IdxOf(M.buf["normed"][r])}
    <3>1. ScoredIn(p, E, r) = IF r = t - 1 THEN {E.buf["idx"][0]} ELSE {}
      BY <1>6 DEF ScoredIn
    <3> QED BY <2>9, <3>1
  <2> QED BY <2>8, <2>10
<1>7. CASE p.kind = "verify"
  <2>1. Leads(M, Forward(W(0, "lm_head"), "normed", "logits_all", t)
                   \o <<ArgmaxMulti("logits_all", "idx_all", t)>>, E)
    BY <1>7 DEF Rest
  <2>2. Chosen(M, E, "normed", "logits_all", "idx_all", t)
    BY <1>2, <2>1, HeadChooses
  <2>3. E.buf["normed"] = M.buf["normed"]
    BY <1>2, <2>2 DEF Chosen, Leaves, SameBut
  <2>4. ASSUME NEW r \in 0 .. t - 1 PROVE ScoredIn(p, E, r) \subseteq {IdxOf(M.buf["normed"][r])}
    <3>1. r \in BufRow /\ r < t
      BY <1>1
    <3>2. E.buf["idx_all"][r] = IdxOf(M.buf["normed"][r])
      BY <2>2, <3>1 DEF Chosen
    <3> QED BY <1>7, <3>2 DEF ScoredIn
  <2> QED BY <2>3, <2>4
<1> QED BY <1>1, <1>4, <1>5, <1>6, <1>7 DEF Computes

\* It is a stream.
LEMMA RestIsSeq ==
    ASSUME NEW p, NEW t
    PROVE  IsSeq(Rest(p, t))
<1>1. ASSUME NEW a, NEW b PROVE IsSeq(<<a>> \o <<b>>)
  BY TupleSeq, ConcatIsSeq
<1>2. ASSUME NEW w, NEW x, NEW y, NEW n, NEW b PROVE IsSeq(Forward(w, x, y, n) \o <<b>>)
  BY <1>1 DEF Forward
<1>3. ASSUME NEW w, NEW x, NEW y, NEW n, NEW b, NEW c PROVE IsSeq(<<c>> \o Forward(w, x, y, n) \o <<b>>)
  BY <1>1, TupleSeq, ConcatIsSeq DEF Forward
<1> QED BY <1>2, <1>3 DEF Rest

\* All that follows the last layer leaves the reference's rows and indices.
LEMMA ScoreRun ==
    ASSUME NEW p, Sized(p), NEW bg, Began0(bg), NEW D, NEW E, XRows(D, Len(LayerKind) + 1, p, bg),
           Leads(D, Score(p), E)
    PROVE  Scores(E, p, bg)
<1>1. PICK t : t = Len(p.tokens)
  OBVIOUS
<1>2. PICK norm : norm = <<RmsnormZeroCentered("a", W(0, "norm"), "normed", t)>>
  OBVIOUS
<1>3. Score(p) = norm \o Rest(p, t)
  BY <1>1, <1>2 DEF Score, Rest
<1>4. IsSeq(norm) /\ IsSeq(Rest(p, t))
  BY <1>2, TupleSeq, RestIsSeq
<1>5. PICK M : Leads(D, norm, M) /\ Leads(M, Rest(p, t), E)
  BY <1>3, <1>4, LeadsConcat
<1>6. Maps1(D, M, "normed", "rmsnorm", W(0, "norm"), "a", t)
  BY <1>2, <1>5, NormRow
<1>7. /\ E.buf["normed"] = M.buf["normed"]
      /\ \A r \in 0 .. t - 1 : ScoredIn(p, E, r) \subseteq {IdxOf(M.buf["normed"][r])}
  BY <1>1, <1>5, RestScores
<1>8. ASSUME NEW r \in 0 .. t - 1, RowOf(p, bg, r) # Junk
      PROVE  /\ E.buf["normed"][r] = RefNormed(RowOf(p, bg, r))
             /\ ScoredIn(p, E, r) \subseteq {RefIdx(RowOf(p, bg, r))}
  <2>1. PICK H : H = RowOf(p, bg, r)
    OBVIOUS
  <2>2. D.buf["a"][r] = X(Len(LayerKind) + 1, H)
    BY <1>1, <1>8, <2>1 DEF XRows
  <2>3. X(Len(LayerKind) + 1, H) = Term("x", Len(LayerKind) + 1, <<H>>)
    <3>1. Len(LayerKind) \in Nat /\ 1 \in 1 .. Len(LayerKind)
      BY LayersCounted, HybridAssumption DEF DeltaLayer, Layer
    <3>2. Len(LayerKind) + 1 # 1
      BY <3>1
    <3> QED BY <3>2 DEF X
  <2>4. r \in BufRow /\ r < t
    BY <1>1, SizedCount, SizesAreNat DEF BufRow
  <2>5. M.buf["normed"][r] = Term("rmsnorm", W(0, "norm"), <<D.buf["a"][r]>>)
    BY <1>6, <2>4 DEF Maps1
  <2>6. M.buf["normed"][r] = RefNormed(H)
    BY <2>2, <2>3, <2>5 DEF RefNormed, Rms, W
  <2>7. IdxOf(RefNormed(H)) = RefIdx(H)
    BY DEF IdxOf, RefIdx
  <2> QED BY <1>7, <2>1, <2>6, <2>7
<1> QED BY <1>1, <1>8 DEF Scores

-----------------------------------------------------------------------------
(* What a pass begins with.                                                  *)

\* What the pass is of, and the contexts its sequences began with.
Work == [kind |-> pass.kind, seq |-> pass.seq, tokens |-> pass.tokens]
BeganAll == [s \in Seqs |-> Began(s)]

\* The layer whose counts stand for all is an attention layer.
LEMMA FirstAttnFacts == FirstAttn \in AttnLayer /\ FirstAttn \in Layer
<1>1. AttnLayer \subseteq Nat /\ AttnLayer # {} /\ AttnLayer \subseteq Layer
  BY HybridAssumption DEF AttnLayer, Layer
<1>2. \E l \in AttnLayer : \A m \in AttnLayer : l <= m
  BY <1>1, LeastFound
<1> QED BY <1>1, <1>2 DEF FirstAttn

\* What ModelState sees of the recurrence, and of the rows, is what the layers keep.
LEMMA RecStands ==
    ASSUME NEW s \in Seqs, NEW h \in Context, RecOf(s, h), NEW l \in DeltaLayer
    PROVE  /\ Dev.rec[l][s] = RefState(l, h)
           /\ [j \in 1 .. ConvHist |-> Dev.conv[l][s * ConvHist + j - 1]] = RefWindow(l, h, ConvHist)
<1>1. HoldsRecurrence(l, s, h)
  BY DEF RecOf
<1>2. StateTable[l][h] = RefState(l, h) /\ HistTable[l][h] = RefWindow(l, h, ConvHist)
  BY DEF StateTable, HistTable
<1>3. PICK w : w = RefWindow(l, h, ConvHist)
  OBVIOUS
<1>4. /\ Dev.rec[l][s] = RefState(l, h)
      /\ \A j \in 1 .. ConvHist : Dev.conv[l][s * ConvHist + j - 1] = w[j]
  BY <1>1, <1>2, <1>3, DevFields DEF HoldsRecurrence
<1>5. w = [j \in 1 .. ConvHist |-> w[j]]
  BY <1>3 DEF RefWindow
<1> QED BY <1>3, <1>4, <1>5

LEMMA KvStands ==
    ASSUME NEW s \in Seqs, NEW h \in Context, NEW i \in 1 .. Len(h),
           Seen.kv[<<s, i - 1>>] = Prefix(h, i), NEW l \in AttnLayer
    PROVE  cache[l][Spot(s, i)] = RefKv(l, Prefix(h, i))
<1>1. PICK g : g = Prefix(h, i)
  OBVIOUS
<1>2. g \in Past /\ g \in Context /\ Len(h) \in 0 .. Ctx
  <2>1. i \in 0 .. Len(h) /\ i > 0
    OBVIOUS
  <2> QED BY <1>1, <2>1, PrefixFacts
<1>3. i - 1 \in 0 .. Ctx - 1 /\ i \in Int
  BY <1>2, SizesAreNat
<1>4. PICK n, d : n = i - 1 /\ d = s * Ctx + n
  OBVIOUS
<1>5. SeenKv[<<s, n>>] = IF \E x \in Past : KvOf(d, x) THEN CHOOSE x \in Past : KvOf(d, x) ELSE Junk
  BY <1>3, <1>4 DEF SeenKv, Slots
<1>6. SeenKv[<<s, n>>] = g
  BY <1>1, <1>4 DEF Seen
<1>7. g # Junk
  BY <1>2, JunkAssumption
<1>8. KvOf(d, g)
  BY <1>5, <1>6, <1>7
<1>9. d = Spot(s, i)
  <2>1. s * Ctx \in Int
    BY SizesAreNat DEF Seqs
  <2> QED BY <1>3, <1>4, <2>1 DEF Spot
<1>10. KvTable[l][g] = RefKv(l, g)
  BY <1>2 DEF KvTable
<1> QED BY <1>1, <1>8, <1>9, <1>10 DEF KvOf

LEMMA RecSeen ==
    ASSUME NEW s \in Seqs
    PROVE  /\ Seen.rec[s] \in Context \union {Junk}
           /\ Seen.rec[s] # Junk => RecOf(s, Seen.rec[s])
BY DEF Seen, SeenRec, Slots

\* The state as a pass finds it is that of the contexts it is said to begin with.
LEMMA BeginStands ==
    ASSUME keys \in Counts, passes \in Nat, before' = Seen, Seen.level
    PROVE  /\ Began0(BeganAll') /\ Seen.nKeys \in [Seqs -> Nat]
           /\ \A m \in Layer : AsBegun(Dev, m, Seen.nKeys, BeganAll')
<1>1. PICK nk : nk = Seen.nKeys
  OBVIOUS
<1>2. nk = keys[FirstAttn] /\ \A m \in AttnLayer : keys[m] = nk
  BY <1>1 DEF Seen, Level
<1>3. nk \in [Seqs -> Nat]
  <2>1. nk \in [Seqs -> 0 .. Limit]
    BY <1>2, FirstAttnFacts DEF Counts
  <2>2. 0 .. Limit \subseteq Nat
    BY LimitIsNat
  <2> QED BY <2>1, <2>2
<1>4. PICK bg : bg = BeganAll'
  OBVIOUS
<1>5. ASSUME NEW s \in Seqs
      PROVE  /\ bg[s] \in Context \union {Junk}
             /\ bg[s] \in Context =>
                  /\ bg[s] = Seen.rec[s] /\ nk[s] = Len(bg[s])
                  /\ \A i \in 1 .. Len(bg[s]) : Seen.kv[<<s, i - 1>>] = Prefix(bg[s], i)
  <2>1. bg[s] = Began(s)'
    BY <1>4 DEF BeganAll
  <2>2. PICK h, S : h = Seen.rec[s] /\ S = Seen
    OBVIOUS
  <2>3. Began(s)' = IF h # Junk /\ S.level /\ S.nKeys[s] = Len(h)
                       /\ \A i \in 1 .. Len(h) : S.kv[<<s, i - 1>>] = Prefix(h, i)
                    THEN h ELSE Junk
    BY <2>2 DEF Began
  <2>4. h \in Context \union {Junk}
    BY <2>2, RecSeen
  <2>5. CASE bg[s] = Junk
    BY <2>5, JunkAssumption
  <2>6. CASE bg[s] # Junk
    <3>1. bg[s] = h /\ S.nKeys[s] = Len(h) /\ \A i \in 1 .. Len(h) : S.kv[<<s, i - 1>>] = Prefix(h, i)
      BY <2>1, <2>3, <2>6
    <3> QED BY <1>1, <2>2, <2>4, <3>1
  <2> QED BY <2>5, <2>6
<1>6. ASSUME NEW m \in Layer PROVE AsBegun(Dev, m, nk, bg)
  <2>1. m \in AttnLayer => Dev.keys[m] = nk
    BY <1>2, DevFields
  <2>2. ASSUME NEW s \in Seqs, bg[s] \in Context
        PROVE  Stands(Dev, m, s, bg[s]) /\ nk[s] = Len(bg[s])
    <3>1. PICK h : h = bg[s]
      OBVIOUS
    <3>2. /\ h \in Context /\ h = Seen.rec[s] /\ nk[s] = Len(h)
          /\ \A i \in 1 .. Len(h) : Seen.kv[<<s, i - 1>>] = Prefix(h, i)
      BY <1>5, <2>2, <3>1
    <3>3. RecOf(s, h)
      BY <3>2, RecSeen, JunkAssumption
    <3>4. m \in DeltaLayer =>
            /\ Dev.rec[m][s] = RefState(m, h)
            /\ [j \in 1 .. ConvHist |-> Dev.conv[m][s * ConvHist + j - 1]] = RefWindow(m, h, ConvHist)
      BY <3>2, <3>3, RecStands
    <3>5. ASSUME m \in AttnLayer, NEW j \in 1 .. Len(h)
          PROVE  Dev.kv[m][Spot(s, j)] = RefKv(m, Prefix(h, j))
      BY <3>2, <3>5, KvStands, DevFields
    <3>6. Stands(Dev, m, s, h)
      BY <3>4, <3>5 DEF Stands
    <3> QED BY <3>1, <3>2, <3>6
  <2> QED BY <2>1, <2>2 DEF AsBegun
<1> QED BY <1>1, <1>3, <1>4, <1>5, <1>6 DEF Began0

\* The embedding rows are the residual stream of the first layer.
LEMMA EmbedRun ==
    ASSUME NEW p, Sized(p), NEW bg, Began0(bg), NEW D, NEW E, Leads(D, Embed(p), E)
    PROVE  SameState(D, E) /\ XRows(E, 1, p, bg)
<1>1. PICK toks, t : toks = p.tokens /\ t = Len(toks)
  OBVIOUS
<1>2. toks \in Seq(Token) /\ t \in 1 .. ScratchRows /\ (p.kind = "step" => t = 1)
      /\ \A r \in 0 .. t - 1 : r \in BufRow /\ r < t /\ r + 1 \in 1 .. t
  <2>1. toks \in Seq(Token) /\ t \in 1 .. ScratchRows /\ (p.kind = "step" => t = 1)
    BY <1>1, SizedCount DEF Sized
  <2> QED BY <2>1, SizesAreNat DEF BufRow
<1>3. PICK vs : vs = [i \in 1 .. t |-> EmbedRow(toks[i])]
  OBVIOUS
<1>4. Len(vs) = t /\ \A i \in 1 .. t : vs[i] = EmbedRow(toks[i])
  BY <1>2, <1>3, SizesAreNat
<1>5. PICK c : Embed(p) = <<Upload("a", vs, c)>>
  <2>1. CASE p.kind = "step"
    <3>1. t = 1
      BY <1>2, <2>1
    <3>2. vs = <<EmbedRow(toks[1])>>
      BY <1>3, <3>1
    <3>3. Embed(p) = <<Upload("a", vs, Sizes)>>
      BY <1>1, <2>1, <3>2 DEF Embed, EmbedGather
    <3> QED BY <3>3
  <2>2. CASE p.kind # "step"
    <3>1. DOMAIN toks = 1 .. t
      BY <1>1, <1>2
    <3>2. vs = [i \in DOMAIN toks |-> EmbedRow(toks[i])]
      BY <1>3, <3>1
    <3>3. Embed(p) = <<Upload("a", vs, Unchecked)>>
      BY <1>1, <2>2, <3>2 DEF Embed, EmbedGatherBatched
    <3> QED BY <3>3
  <2> QED BY <2>1, <2>2
<1>6. PICK L : L = Upload("a", vs, c)
  OBVIOUS
<1>7. Effect(D, L, E)
  BY <1>5, <1>6, LeadsOne
<1>8. "a" \in Buffer
  BY BufferNames
<1>9. Uploaded(D, E, "a", vs, t)
  BY <1>4, <1>6, <1>7, <1>8, UploadStands
<1>10. ASSUME NEW r \in 0 .. Len(p.tokens) - 1, RowOf(p, bg, r) # Junk
       PROVE  E.buf["a"][r] = X(1, RowOf(p, bg, r))
  <2>1. PICK H : H = RowOf(p, bg, r)
    OBVIOUS
  <2>2. H[Len(H)] = toks[r + 1]
    BY <1>1, <1>10, <2>1, RowHasLane
  <2>3. r \in BufRow /\ r < t /\ r + 1 \in 1 .. t
    BY <1>1, <1>2
  <2>4. E.buf["a"][r] = vs[r + 1]
    BY <1>9, <2>3 DEF Uploaded
  <2>5. vs[r + 1] = EmbedRow(toks[r + 1])
    BY <1>4, <2>3
  <2> QED BY <2>1, <2>2, <2>4, <2>5 DEF X
<1> QED BY <1>9, <1>10 DEF Uploaded, Leaves, XRows

-----------------------------------------------------------------------------
(* The invariant: where the launches still on the stream will leave the      *)
(* device, the layer a pass stands at is exact.                              *)

\* After layer l: the layers beyond are as the pass found them, and this one's rows
\* are the reference.
Exact(E, l, p, nk, bg) ==
    /\ \A m \in Layer : m > l => AsBegun(E, m, nk, bg)
    /\ l = 0 => XRows(E, 1, p, bg)
    /\ l \in Layer => OutRows(E, l, p, bg)
    /\ l = Len(LayerKind) + 1 => Scores(E, p, bg)

\* Wherever the stream leads from D, layer l is exact there.
Toward(D, sq, l, p, nk, bg) == \A E : Leads(D, sq, E) => Exact(E, l, p, nk, bg)

\* A launch that has run is one step toward it.
LEMMA TowardLaunch ==
    ASSUME NEW D, NEW E, NEW sq, IsSeq(sq), sq # << >>, Effect(D, Head(sq), E),
           NEW l, NEW p, NEW nk, NEW bg, Toward(D, sq, l, p, nk, bg)
    PROVE  Toward(E, Tail(sq), l, p, nk, bg)
<1>1. ASSUME NEW F, Leads(E, Tail(sq), F) PROVE Exact(F, l, p, nk, bg)
  <2>1. Leads(D, sq, F)
    BY <1>1, LeadsOn
  <2> QED BY <2>1 DEF Toward
<1> QED BY <1>1 DEF Toward

\* What only changes buffers leaves every layer as it was.
LEMMA AsBegunKept ==
    ASSUME NEW D, NEW E, SameState(D, E), NEW m, NEW nk, NEW bg, AsBegun(D, m, nk, bg)
    PROVE  AsBegun(E, m, nk, bg)
<1>1. E.conv = D.conv /\ E.rec = D.rec /\ E.kv = D.kv /\ E.keys = D.keys
  BY DEF SameState
<1>2. ASSUME NEW s \in Seqs, bg[s] \in Context
      PROVE  Stands(E, m, s, bg[s]) /\ nk[s] = Len(bg[s])
  <2>1. Stands(D, m, s, bg[s]) /\ nk[s] = Len(bg[s])
    BY <1>2 DEF AsBegun
  <2> QED BY <1>1, <2>1 DEF Stands
<1> QED BY <1>1, <1>2 DEF AsBegun

\* The embedding leads to the first layer's input.
LEMMA TowardBegin ==
    ASSUME NEW p, Sized(p), NEW bg, Began0(bg), NEW nk, NEW D, \A m \in Layer : AsBegun(D, m, nk, bg)
    PROVE  Toward(D, Embed(p), 0, p, nk, bg)
<1>1. 0 \notin Layer /\ 0 # Len(LayerKind) + 1
  BY LayersCounted DEF Layer
<1>2. ASSUME NEW E, Leads(D, Embed(p), E) PROVE Exact(E, 0, p, nk, bg)
  <2>1. SameState(D, E) /\ XRows(E, 1, p, bg)
    BY <1>2, EmbedRun
  <2>2. ASSUME NEW m \in Layer PROVE AsBegun(E, m, nk, bg)
    BY <2>1, AsBegunKept
  <2> QED BY <1>1, <2>1, <2>2 DEF Exact
<1> QED BY <1>2 DEF Toward

\* The residual stream of the next layer, once the buffers have been swapped.
Swaps(D, E, l) ==
    SameState(D, E)
    /\ \A r \in BufRow : E.buf["a"][r] = IF l = 0 THEN D.buf["a"][r] ELSE Named(l, D.buf["b"][r])

\* The next layer takes what this one left.
LEMMA SwappedRows ==
    ASSUME NEW l \in 0 .. Len(LayerKind), NEW p, Sized(p), NEW bg, Began0(bg), NEW nk,
           NEW D, NEW E, Exact(D, l, p, nk, bg), Swaps(D, E, l)
    PROVE  XRows(E, l + 1, p, bg)
<1>1. l \in Nat /\ (l # 0 => l \in Layer)
  BY LayersCounted DEF Layer
<1>2. ASSUME NEW r \in 0 .. Len(p.tokens) - 1, RowOf(p, bg, r) # Junk
      PROVE  E.buf["a"][r] = X(l + 1, RowOf(p, bg, r))
  <2>1. PICK H : H = RowOf(p, bg, r)
    OBVIOUS
  <2>2. H \in Past
    BY <1>2, <2>1, RowHasLane
  <2>3. r \in BufRow
    BY SizedCount, SizesAreNat DEF BufRow
  <2>4. CASE l = 0
    <3>1. D.buf["a"][r] = X(1, H)
      BY <1>2, <2>1, <2>4 DEF Exact, XRows
    <3>2. E.buf["a"][r] = D.buf["a"][r] /\ l + 1 = 1
      BY <2>3, <2>4 DEF Swaps
    <3> QED BY <2>1, <3>1, <3>2
  <2>5. CASE l # 0
    <3>1. l \in Layer
      BY <1>1, <2>5
    <3>2. D.buf["b"][r] = OutTable[l][H]
      BY <1>2, <2>1, <3>1 DEF Exact, OutRows
    <3>3. E.buf["a"][r] = Named(l, D.buf["b"][r])
      BY <2>3, <2>5 DEF Swaps
    <3>4. Named(l, OutTable[l][H]) = X(l + 1, H)
      BY <2>2, <3>1, NamedFacts
    <3> QED BY <2>1, <3>2, <3>3, <3>4
  <2> QED BY <2>4, <2>5
<1> QED BY <1>2 DEF XRows

\* The next layer's launches, or the last ones, lead on.
LEMMA TowardNext ==
    ASSUME NEW l \in 0 .. Len(LayerKind), NEW p, Sized(p), NEW bg, Began0(bg), NEW nk, Counted(p, nk),
           env.split \in 1 .. 3, NEW D, NEW E, Toward(D, << >>, l, p, nk, bg), Swaps(D, E, l),
           NEW sq, sq = IF l < Len(LayerKind) THEN LayerLaunches(p, l + 1, E.keys[l + 1]) ELSE Score(p)
    PROVE  Toward(E, sq, l + 1, p, nk, bg)
<1>1. Exact(D, l, p, nk, bg)
  BY LeadsNone DEF Toward
<1>2. XRows(E, l + 1, p, bg)
  BY <1>1, SwappedRows
<1>3. PICK n, L : n = l + 1 /\ L = Len(LayerKind)
  OBVIOUS
<1>4. l \in Nat /\ L \in Nat /\ n \in Nat /\ l <= L /\ n # 0
  BY <1>3, LayersCounted
<1>5. ASSUME NEW m \in Layer, m > l PROVE AsBegun(E, m, nk, bg)
  <2>1. AsBegun(D, m, nk, bg)
    BY <1>1, <1>5 DEF Exact
  <2> QED BY <2>1, AsBegunKept DEF Swaps
<1>6. ASSUME NEW F, Leads(E, sq, F) PROVE Exact(F, n, p, nk, bg)
  <2>1. CASE l < L
    <3>1. n \in Layer /\ n > l /\ n # L + 1
      BY <1>3, <1>4, <2>1 DEF Layer
    <3>2. AsBegun(E, n, nk, bg)
      BY <1>5, <3>1
    <3>3. Leads(E, LayerLaunches(p, n, E.keys[n]), F)
      BY <1>3, <1>6, <2>1
    <3>4. XRows(E, n, p, bg)
      BY <1>2, <1>3
    <3>5. Beyond(E, F, n) /\ OutRows(F, n, p, bg)
      BY <3>1, <3>2, <3>3, <3>4, LayerRun
    <3>6. ASSUME NEW m \in Layer, m > n PROVE AsBegun(F, m, nk, bg)
      <4>1. m \in Int /\ m > l /\ m # n
        BY <1>3, <1>4, <3>6 DEF Layer
      <4>2. m \in Layer \ {n} /\ AsBegun(E, m, nk, bg)
        BY <1>5, <4>1
      <4> QED BY <3>5, <4>2, StandsKept
    <3> QED BY <1>3, <1>4, <3>1, <3>5, <3>6 DEF Exact
  <2>2. CASE ~(l < L)
    <3>1. n = L + 1 /\ n \notin Layer
      BY <1>3, <1>4, <2>2 DEF Layer
    <3>2. Leads(E, Score(p), F)
      BY <1>3, <1>6, <2>2
    <3>3. XRows(E, Len(LayerKind) + 1, p, bg)
      BY <1>2, <1>3, <3>1
    <3>4. Scores(F, p, bg)
      BY <3>2, <3>3, ScoreRun
    <3>5. ASSUME NEW m \in Layer PROVE ~(m > n)
      BY <1>3, <1>4, <3>1 DEF Layer
    <3> QED BY <1>4, <3>1, <3>4, <3>5 DEF Exact
  <2> QED BY <2>1, <2>2
<1> QED BY <1>3, <1>6 DEF Toward

\* A pass that begins where the layers agree on their counts, whose chunk the scratch
\* holds, and none of whose sequences appends outside its own window.
Steady == before.level /\ InOwnWindows /\ Len(pass.tokens) <= ScratchRows

\* The inductive invariant.
RowsInv ==
    /\ DOMAIN recur = Layer
    /\ pass.kind \in Computes =>
         /\ pass.layer > Len(LayerKind) => Len(pass.tokens) <= ScratchRows
         /\ Steady =>
              /\ Began0(BeganAll) /\ Counted(Work, before.nKeys)
              /\ Toward(Dev, stream, pass.layer, Work, before.nKeys, BeganAll)

\* The fields of the pass.
LEMMA WorkFields == Work.kind = pass.kind /\ Work.seq = pass.seq /\ Work.tokens = pass.tokens
BY DEF Work

\* A pass under way has tokens that fit.
LEMMA WorkSized ==
    ASSUME PassInv, pass.kind \in Computes, Len(pass.tokens) <= ScratchRows
    PROVE  Sized(Work)
<1>1. pass.seq \in Seqs /\ pass.tokens \in Seq(Token) /\ TokensFit(pass)
  BY PassTyped DEF PassInv, Underway
<1> QED BY <1>1, WorkFields DEF Sized, TokensFit

\* Nothing of the pass but its layer moves.
LEMMA WorkKept ==
    ASSUME before' = before, pass'.kind = pass.kind, pass'.seq = pass.seq, pass'.tokens = pass.tokens
    PROVE  Work' = Work /\ BeganAll' = BeganAll /\ (Steady' <=> Steady)
<1>1. Work' = Work
  BY DEF Work
<1>2. BeganAll' = BeganAll
  BY DEF BeganAll, Began
<1>3. Steady' <=> Steady
  BY DEF Steady, InOwnWindows
<1> QED BY <1>1, <1>2, <1>3

\* A launch adds no layer.
LEMMA RunKeepsRecur ==
    ASSUME NEW L, Run(L), DOMAIN recur = Layer
    PROVE  DOMAIN recur' = Layer
BY DEF Run, RunRows, RunUpload, RunCopy, RunConv, RunRule, RunAppend, RunAttend, RunSync, RunKeys,
       RunGrow, RunDequant, RunCast, RunGemm

\* The steps that matter: a launch runs, the next layer is taken up, a pass begins.
LEMMA LaunchExact ==
    ASSUME PassInv, RowsInv, Launch
    PROVE  RowsInv'
<1>1. /\ pass.kind \in Computes /\ Underway /\ TypeInv /\ stream # << >> /\ DOMAIN recur = Layer
      /\ pass' = pass /\ before' = before /\ stream' = Tail(stream) /\ Run(Head(stream))
      /\ ~Blocked(pass)
  BY HeadStands DEF PassInv, RowsInv, Launch
<1>2. DOMAIN recur' = Layer
  BY <1>1, RunKeepsRecur
<1>3. Work' = Work /\ BeganAll' = BeganAll /\ (Steady' <=> Steady)
  BY <1>1, WorkKept
<1>4. ASSUME Steady
      PROVE  Toward(Dev', Tail(stream), pass.layer, Work, before.nKeys, BeganAll)
  <2>1. PICK sq, l : sq = stream /\ l = pass.layer
    OBVIOUS
  <2>2. StreamReady(sq, l) /\ sq # << >> /\ Run(Head(sq))
    BY <1>1, <2>1 DEF Underway
  <2>3. IsSeq(sq) /\ (Head(sq).kind = "grow" => Head(sq).actCells \in Nat)
    <3>1. IsSeq(sq) /\ \A i \in DOMAIN sq : sq[i].kind = "grow" => sq[i].actCells \in Nat
      BY <2>2, StreamLaunches
    <3>2. 1 \in DOMAIN sq /\ Head(sq) = sq[1]
      BY <2>2, <3>1, TailIsSeq
    <3> QED BY <3>1, <3>2
  <2>4. PICK a : a = Head(sq)
    OBVIOUS
  <2>5. Effect(Dev, a, Dev')
    BY <1>1, <2>2, <2>3, <2>4, RunEffect
  <2>6. Toward(Dev, sq, l, Work, before.nKeys, BeganAll)
    BY <1>1, <1>4, <2>1 DEF RowsInv
  <2>7. PICK D, E, p, nk, bg : D = Dev /\ E = Dev' /\ p = Work /\ nk = before.nKeys /\ bg = BeganAll
    OBVIOUS
  <2>8. Toward(E, Tail(sq), l, p, nk, bg)
    BY <2>2, <2>3, <2>4, <2>5, <2>6, <2>7, TowardLaunch
  <2> QED BY <2>1, <2>7, <2>8
<1>5. ASSUME Steady
      PROVE  Began0(BeganAll) /\ Counted(Work, before.nKeys)
  BY <1>1, <1>5 DEF RowsInv
<1>6. pass.layer > Len(LayerKind) => Len(pass.tokens) <= ScratchRows
  BY <1>1 DEF RowsInv
<1> QED BY <1>1, <1>2, <1>3, <1>4, <1>5, <1>6 DEF RowsInv

LEMMA NextLayerExact ==
    ASSUME PassInv, RowsInv, NextLayer
    PROVE  RowsInv'
<1>1. /\ stream = << >> /\ pass.kind \in Computes /\ pass.layer <= Len(LayerKind)
      /\ pass' = [pass EXCEPT !.layer = @ + 1] /\ before' = before
      /\ stream' = IF pass.layer < Len(LayerKind)
                   THEN LayerLaunches(pass, pass.layer + 1, keys[pass.layer + 1]) ELSE Score(pass)
      /\ buf' = IF pass.layer = 0 THEN buf ELSE Swapped
      /\ UNCHANGED <<convHist, recur, cache, positions, keys, staged>>
  BY DEF NextLayer
<1>2. Underway /\ TypeInv /\ env \in Environments
  BY <1>1 DEF PassInv
<1>3. /\ pass \in [kind : Computes, seq : Seqs, tokens : Seq(Token), layer : 0 .. Len(LayerKind) + 1]
      /\ Len(LayerKind) \in Nat
  BY <1>1, PassTyped, LayersCounted DEF PassInv
<1>4. PICK l : l = pass.layer
  OBVIOUS
<1>5. l \in 0 .. Len(LayerKind)
  BY <1>1, <1>3, <1>4
<1>6. pass'.kind = pass.kind /\ pass'.seq = pass.seq /\ pass'.tokens = pass.tokens /\ pass'.layer = l + 1
  BY <1>1, <1>3, <1>4
<1>7. Work' = Work /\ BeganAll' = BeganAll /\ (Steady' <=> Steady)
  BY <1>1, <1>6, WorkKept
<1>8. DOMAIN recur' = Layer
  BY <1>1 DEF RowsInv
<1>9. l + 1 > Len(LayerKind) => Len(pass.tokens) <= ScratchRows
  <2>1. SUFFICES ASSUME l + 1 > Len(LayerKind), Len(pass.tokens) > ScratchRows PROVE FALSE
    BY <1>3, SizesAreNat
  <2>2. l \in Layer
    <3>1. 1 \in 1 .. Len(LayerKind)
      BY HybridAssumption DEF DeltaLayer, Layer
    <3> QED BY <1>3, <1>5, <2>1, <3>1 DEF Layer
  <2>3. Blocked(pass)
    BY <1>4, <2>1, <2>2 DEF Blocked
  <2>4. stream # << >>
    BY <1>2, <2>3 DEF Underway, Opens
  <2> QED BY <1>1, <2>4
<1>10. ASSUME Steady
       PROVE  /\ Began0(BeganAll) /\ Counted(Work, before.nKeys)
              /\ Toward(Dev', stream', l + 1, Work, before.nKeys, BeganAll)
  <2>1. /\ Began0(BeganAll) /\ Counted(Work, before.nKeys)
        /\ Toward(Dev, << >>, l, Work, before.nKeys, BeganAll)
    BY <1>1, <1>4, <1>10 DEF RowsInv
  <2>2. Sized(Work)
    BY <1>1, <1>10, WorkSized DEF Steady
  <2>3. env.split \in 1 .. 3
    BY <1>2, EnvironmentAssumption
  <2>4. Swaps(Dev, Dev', l)
    <3>1. SameState(Dev, Dev')
      BY <1>1, DevFields DEF SameState
    <3>2. "a" \in Buffer /\ "b" \in Buffer /\ "a" # "b" /\ BufType
      BY <1>2, BufferNames DEF TypeInv
    <3>3. ASSUME NEW r \in BufRow
          PROVE  buf'["a"][r] = IF l = 0 THEN buf["a"][r] ELSE Named(l, buf["b"][r])
      <4>1. CASE l = 0
        BY <1>1, <1>4, <4>1
      <4>2. CASE l # 0
        <5>1. buf' = [buf EXCEPT !["a"] = [x \in BufRow |-> Named(l, buf["b"][x])], !["b"] = buf["a"]]
          BY <1>1, <1>4, <4>2 DEF Swapped
        <5>2. buf'["a"] = [x \in BufRow |-> Named(l, buf["b"][x])]
          BY <3>2, <5>1 DEF BufType
        <5> QED BY <4>2, <5>2
      <4> QED BY <4>1, <4>2
    <3> QED BY <3>1, <3>3, DevFields DEF Swaps
  <2>5. stream' = IF l < Len(LayerKind) THEN LayerLaunches(Work, l + 1, Dev'.keys[l + 1]) ELSE Score(Work)
    <3>1. Dev'.keys = keys
      BY <1>1, DevFields
    <3>2. ASSUME NEW n, NEW ks PROVE LayerLaunches(pass, n, ks) = LayerLaunches(Work, n, ks)
      BY WorkFields DEF LayerLaunches
    <3>3. Score(pass) = Score(Work)
      BY WorkFields DEF Score
    <3> QED BY <1>1, <1>4, <3>1, <3>2, <3>3
  <2>6. PICK D, E, p, nk, bg, sq : /\ D = Dev /\ E = Dev' /\ p = Work /\ nk = before.nKeys
                                   /\ bg = BeganAll /\ sq = stream'
    OBVIOUS
  <2>7. Toward(E, sq, l + 1, p, nk, bg)
    BY <1>5, <2>1, <2>2, <2>3, <2>4, <2>5, <2>6, TowardNext
  <2> QED BY <2>1, <2>6, <2>7
<1> QED BY <1>1, <1>6, <1>7, <1>8, <1>9, <1>10 DEF RowsInv

LEMMA ComputeExact ==
    ASSUME PassInv, RowsInv, NEW kind \in Computes, NEW s \in Seqs, NEW ts \in Seq(Token),
           TokensFit(Pass(kind, s, ts)), Compute(Pass(kind, s, ts))
    PROVE  RowsInv'
<1>1. PICK p : p = Pass(kind, s, ts)
  OBVIOUS
<1>2. p.kind = kind /\ p.seq = s /\ p.tokens = ts /\ p.layer = 0 /\ TokensFit(p) /\ p = [p EXCEPT !.layer = 0]
  BY <1>1 DEF Pass
<1>3. /\ pass' = p /\ before' = Seen /\ stream' = Embed(p)
      /\ UNCHANGED <<buf, convHist, recur, cache, positions, keys, staged>>
  BY <1>1, <1>2 DEF Compute, Begin, device
<1>4. DOMAIN recur' = Layer
  BY <1>3 DEF RowsInv
<1>5. Work' = [kind |-> kind, seq |-> s, tokens |-> ts]
  BY <1>2, <1>3 DEF Work
<1>6. pass'.layer = 0 /\ ~(0 > Len(LayerKind)) /\ pass'.kind = kind /\ pass'.tokens = ts
  BY <1>2, <1>3, LayersCounted
<1>7. Dev' = Dev
  BY <1>3 DEF Dev
<1>8. ASSUME Steady'
      PROVE  /\ Began0(BeganAll') /\ Counted(Work', Seen.nKeys)
             /\ Toward(Dev, Embed(p), 0, Work', Seen.nKeys, BeganAll')
  <2>1. Seen.level /\ Len(ts) <= ScratchRows
        /\ (kind = "step_batch" => \A x \in Seqs : Seen.nKeys[x] < Ctx)
    BY <1>3, <1>6, <1>8 DEF Steady, InOwnWindows
  <2>2. keys \in Counts /\ passes \in Nat
    BY DEF PassInv, TypeInv, CountType
  <2>3. /\ Began0(BeganAll') /\ Seen.nKeys \in [Seqs -> Nat]
        /\ \A m \in Layer : AsBegun(Dev, m, Seen.nKeys, BeganAll')
    BY <1>3, <2>1, <2>2, BeginStands
  <2>4. PICK q, nk, bg, D : q = Work' /\ nk = Seen.nKeys /\ bg = BeganAll' /\ D = Dev
    OBVIOUS
  <2>5. q.kind = kind /\ q.seq = s /\ q.tokens = ts
    BY <1>5, <2>4
  <2>6. Sized(q)
    BY <1>2, <2>1, <2>5 DEF Sized, TokensFit
  <2>7. Counted(q, nk)
    BY <2>1, <2>3, <2>4, <2>5 DEF Counted
  <2>8. Embed(p) = Embed(q)
    BY <1>2, <2>5 DEF Embed
  <2>9. Toward(D, Embed(q), 0, q, nk, bg)
    BY <2>3, <2>4, <2>6, TowardBegin
  <2> QED BY <2>3, <2>4, <2>7, <2>8, <2>9
<1> QED BY <1>3, <1>4, <1>6, <1>7, <1>8 DEF RowsInv

\* Steps after which no pass computes.
LEMMA QuietExact ==
    ASSUME RowsInv, DOMAIN recur' = Layer, pass'.kind \notin Computes
    PROVE  RowsInv'
BY DEF RowsInv

\* The invariant holds at first, and every step keeps it.
LEMMA RowsInvInit ==
    ASSUME Init
    PROVE  RowsInv
<1>1. pass.kind \notin Computes
  BY DEF Init, Idle, Computes
<1>2. DOMAIN recur = Layer
  BY DEF Init
<1> QED BY <1>1, <1>2 DEF RowsInv

LEMMA RowsInvNext ==
    ASSUME PassInv, RowsInv, [Next]_vars
    PROVE  RowsInv'
<1>1. CASE PrefillSeq
  <2>1. PICK s \in Seqs, ts \in Chunks :
          Len(ts) \in 1 .. Ctx /\ Compute(Pass("prefill_seq", s, ts))
    BY <1>1 DEF PrefillSeq, Slots
  <2>2. TokensFit(Pass("prefill_seq", s, ts))
    BY <2>1 DEF TokensFit, Pass
  <2> QED BY <2>1, <2>2, InputAssumption, ComputeExact DEF Computes
<1>2. CASE Verify
  <2>1. PICK ts \in Chunks :
          Len(ts) \in 1 .. Ctx /\ Len(ts) <= VerifyMax /\ Compute(Pass("verify", 0, ts))
    BY <1>2 DEF Verify
  <2>2. TokensFit(Pass("verify", 0, ts)) /\ 0 \in Seqs
    BY <2>1, SizesAreNat DEF TokensFit, Pass, Seqs
  <2> QED BY <2>1, <2>2, InputAssumption, ComputeExact DEF Computes
<1>3. CASE Step
  <2>1. PICK ts \in Batches : Len(ts) = 1 /\ Compute(Pass("step", 0, ts))
    BY <1>3 DEF Step
  <2>2. TokensFit(Pass("step", 0, ts)) /\ 0 \in Seqs
    BY <2>1, SizesAreNat DEF TokensFit, Pass, Seqs
  <2> QED BY <2>1, <2>2, InputAssumption, ComputeExact DEF Computes
<1>4. CASE StepBatch
  <2>1. PICK ts \in Batches : Len(ts) \in 1 .. NSeq /\ Compute(Pass("step_batch", 0, ts))
    BY <1>4 DEF StepBatch
  <2>2. TokensFit(Pass("step_batch", 0, ts)) /\ 0 \in Seqs
    BY <2>1, SizesAreNat DEF TokensFit, Pass, Seqs
  <2> QED BY <2>1, <2>2, InputAssumption, ComputeExact DEF Computes
<1>5. CASE SnapshotRecurrent \/ RestoreRecurrent \/ Reset
  <2>1. PICK kind \in Copies : Begin(Pass(kind, 0, << >>), << >>) /\ UNCHANGED device
    BY <1>5 DEF SnapshotRecurrent, RestoreRecurrent, Reset, Copies
  <2>2. pass'.kind = kind /\ recur' = recur
    BY <2>1 DEF Begin, Pass, device
  <2>3. pass'.kind \notin Computes /\ DOMAIN recur' = Layer
    BY <2>2 DEF Copies, Computes, RowsInv
  <2> QED BY <2>3, QuietExact
<1>6. CASE Launch
  BY <1>6, LaunchExact
<1>7. CASE NextLayer
  BY <1>7, NextLayerExact
<1>8. CASE CopyLayer
  <2>1. /\ pass.kind \in Copies /\ pass' = [pass EXCEPT !.layer = pass.layer + 1]
        /\ DOMAIN recur' = DOMAIN recur
    BY <1>8 DEF CopyLayer, Copies, device, snapshot
  <2>2. pass'.kind = pass.kind
    BY <2>1 DEF PassInv, PassType, Idle, Copies
  <2>3. pass'.kind \notin Computes /\ DOMAIN recur' = Layer
    BY <2>1, <2>2 DEF Copies, Computes, RowsInv
  <2> QED BY <2>3, QuietExact
<1>9. CASE Return \/ Refuse \/ DeviceError
  <2>1. pass' = Idle /\ recur' = recur
    BY <1>9 DEF Return, Refuse, DeviceError, Leave
  <2>2. pass'.kind \notin Computes /\ DOMAIN recur' = Layer
    BY <2>1 DEF Idle, Computes, RowsInv
  <2> QED BY <2>2, QuietExact
<1>10. CASE UNCHANGED vars
  <2>1. /\ UNCHANGED <<buf, convHist, recur, cache, positions, keys, staged>>
        /\ pass' = pass /\ before' = before /\ stream' = stream
    BY <1>10 DEF vars, device
  <2>2. Dev' = Dev
    BY <2>1 DEF Dev
  <2>3. Work' = Work /\ BeganAll' = BeganAll /\ (Steady' <=> Steady)
    BY <2>1, WorkKept
  <2> QED BY <2>1, <2>2, <2>3 DEF RowsInv
<1> QED BY <1>1, <1>2, <1>3, <1>4, <1>5, <1>6, <1>7, <1>8, <1>9, <1>10 DEF Next

LEMMA RowsInvHolds == Spec => [](PassInv /\ RowsInv)
<1>1. Init => PassInv /\ RowsInv
  BY PassInvInit, RowsInvInit
<1>2. PassInv /\ RowsInv /\ [Next]_vars => (PassInv /\ RowsInv)'
  BY PassInvNext, RowsInvNext
<1> QED BY <1>1, <1>2, PTL DEF Spec

\* Once the stream is empty the pass is where it was led.
LEMMA RowsExactAtEnd ==
    ASSUME PassInv, RowsInv
    PROVE  RowsExact
<1>1. SUFFICES ASSUME Finished, pass.kind \in Computes, NEW r \in 0 .. Len(pass.tokens) - 1,
                      RowContext(r) # Junk, InOwnWindows
               PROVE  buf["normed"][r] = RefNormed(RowContext(r)) /\ Scored(r) \subseteq {RefIdx(RowContext(r))}
  BY DEF RowsExact
<1>2. stream = << >> /\ pass.layer = Len(LayerKind) + 1 /\ Len(LayerKind) \in Nat
  BY <1>1, LayersCounted DEF Finished
<1>3. Len(pass.tokens) <= ScratchRows
  BY <1>1, <1>2 DEF RowsInv
<1>4. Sized(Work)
  BY <1>1, <1>3, WorkSized
<1>5. pass.kind = "step_batch" => r \in Seqs
  BY <1>1, <1>4, SizedCount, WorkFields, SizesAreNat DEF Seqs
<1>6. pass.seq \in Seqs
  BY <1>4, WorkFields DEF Sized
<1>7. RowContext(r) = RowOf(Work, BeganAll, r)
  <2>1. ASSUME NEW s \in Seqs PROVE BeganAll[s] = Began(s)
    BY DEF BeganAll
  <2> QED BY <1>5, <1>6, <2>1, WorkFields DEF RowContext, RowOf
<1>8. before.level
  <2>1. PICK s : RowContext(r) # Junk => Began(s) # Junk
    BY DEF RowContext
  <2> QED BY <1>1, <2>1 DEF Began
<1>9. Toward(Dev, << >>, Len(LayerKind) + 1, Work, before.nKeys, BeganAll)
  BY <1>1, <1>2, <1>3, <1>8 DEF RowsInv, Steady
<1>10. Scores(Dev, Work, BeganAll)
  <2>1. Exact(Dev, Len(LayerKind) + 1, Work, before.nKeys, BeganAll)
    BY <1>9, LeadsNone DEF Toward
  <2> QED BY <2>1 DEF Exact
<1>11. /\ Dev.buf["normed"][r] = RefNormed(RowContext(r))
       /\ ScoredIn(Work, Dev, r) \subseteq {RefIdx(RowContext(r))}
  BY <1>1, <1>7, <1>10, WorkFields DEF Scores
<1>12. ScoredIn(Work, Dev, r) = Scored(r)
  BY WorkFields, DevFields DEF ScoredIn, Scored
<1> QED BY <1>11, <1>12, DevFields

\* When a sequence's state is that of its context and no sequence appends outside its
\* window, every row a pass returns is the reference of its own context: for any number
\* of sequences, layers and tokens, any order of the layers after the first, any shapes
\* of the projections and every environment, on every path through the layers.
THEOREM RowsAreExact == Spec => []RowsExact
<1>1. PassInv /\ RowsInv => RowsExact
  BY RowsExactAtEnd
<1> QED BY <1>1, RowsInvHolds, PTL
=============================================================================
