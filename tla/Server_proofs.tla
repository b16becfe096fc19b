--------------------------- MODULE Server_proofs ---------------------------
(***************************************************************************)
(* A client that stays is answered with the response to its own request:   *)
(* for any number of clients and slots, any requests, texts and            *)
(* continuation, whoever hangs up and whatever fails.                      *)
(***************************************************************************)
EXTENDS Server, TLAPS, WellFoundedInduction, FiniteSetTheorems

-----------------------------------------------------------------------------
(* Recursion over the naturals *)

LessThan == {p \in Nat \X Nat : p[1] < p[2]}

\* The least member of a set of numbers.
LEMMA LeastFound ==
    ASSUME NEW S, S \subseteq Nat, S # {}
    PROVE  \E x \in S : \A y \in S : x <= y
<1>1. IsWellFoundedOn(LessThan, Nat)
  <2>1. OpToRel(<, Nat) = LessThan
    BY DEF OpToRel, LessThan
  <2> QED BY <2>1, NatLessThanWellFounded
<1>2. \E x \in S : \A y \in S : ~ (<<y, x>> \in LessThan)
  BY <1>1, WFMin
<1>3. ASSUME NEW x \in S, NEW y \in S, <<y, x>> \notin LessThan
      PROVE  x <= y
  BY <1>3, SMT DEF LessThan
<1> QED BY <1>2, <1>3

\* The gate and the text that Fed computes are those of one more push each.
LEMMA FedFacts ==
    ASSUME NEW ts, Len(ts) \in Nat
    PROVE  /\ Fed(ts)[0] = [gate |-> NewGate, text |-> << >>]
           /\ \A n \in 1 .. Len(ts) :
                 /\ Fed(ts)[n].gate = push(Fed(ts)[n - 1].gate, Text[ts[n]]).gate
                 /\ Fed(ts)[n].text = Shows(Fed(ts)[n - 1].text,
                                            push(Fed(ts)[n - 1].gate, Text[ts[n]]).out)
<1> DEFINE base == [gate |-> NewGate, text |-> << >>]
           St(x, n) == [gate |-> push(x.gate, Text[ts[n]]).gate,
                        text |-> Shows(x.text, push(x.gate, Text[ts[n]]).out)]
           Eqn(h, m) == h = [n \in 0 .. m |-> IF n = 0 THEN base ELSE St(h[n - 1], n)]
           Bad == {m \in Nat : ~ \E h : Eqn(h, m)}
<1>1. ASSUME Bad # {}
      PROVE  FALSE
  <2>0. Bad \subseteq Nat
    OBVIOUS
  <2>1. PICK m \in Bad : \A y \in Bad : m <= y
    <3> HIDE DEF Bad
    <3> QED BY <1>1, <2>0, LeastFound
  <2> HIDE DEF base, St
  <2>2. CASE m = 0
    <3> DEFINE g == [n \in 0 .. 0 |-> base]
    <3>1. \A n \in 0 .. 0 : n = 0
      OBVIOUS
    <3>2. Eqn(g, 0)
      <4> DEFINE rhs == [n \in 0 .. 0 |-> IF n = 0 THEN base ELSE St(g[n - 1], n)]
      <4>1. g = rhs
        BY <3>1
      <4> QED BY <4>1
    <3> QED BY <2>1, <2>2, <3>2
  <2>3. CASE m # 0
    <3>1. m \in Nat /\ m - 1 \in Nat /\ m - 1 \notin Bad
      <4> HIDE DEF Bad
      <4> QED BY <2>0, <2>1, <2>3
    <3>2. PICK h : Eqn(h, m - 1)
      BY <3>1
    <3> DEFINE g == [n \in 0 .. m |-> IF n = m THEN St(h[m - 1], m) ELSE h[n]]
    <3>3. \A n \in 0 .. m - 1 : h[n] = IF n = 0 THEN base ELSE St(h[n - 1], n)
      BY <3>2
    <3>4. ASSUME NEW n \in 0 .. m
          PROVE  g[n] = IF n = 0 THEN base ELSE St(g[n - 1], n)
      <4>1. CASE n = m
        BY <2>3, <3>1, <4>1
      <4>2. CASE n # m
        <5>1. n \in 0 .. m - 1 /\ (n # 0 => n - 1 \in 0 .. m /\ n - 1 # m)
          BY <3>1, <4>2
        <5>2. g[n] = h[n] /\ (n # 0 => g[n - 1] = h[n - 1])
          BY <5>1, <4>2
        <5> HIDE DEF g
        <5> QED BY <3>3, <5>1, <5>2
      <4> QED BY <4>1, <4>2
    <3>5. Eqn(g, m)
      <4> DEFINE rhs == [n \in 0 .. m |-> IF n = 0 THEN base ELSE St(g[n - 1], n)]
      <4>1. g = rhs
        BY <3>4
      <4> QED BY <4>1
    <3> QED BY <2>1, <3>5
  <2> QED BY <2>2, <2>3
<1>2. \E h : Eqn(h, Len(ts))
  BY <1>1
<1>3. Fed(ts) = CHOOSE h : Eqn(h, Len(ts))
  BY DEF Fed
<1>4. Eqn(Fed(ts), Len(ts))
  <2> HIDE DEF Eqn
  <2> QED BY <1>2, <1>3
<1>5. \A n \in 0 .. Len(ts) : Fed(ts)[n] = IF n = 0 THEN base ELSE St(Fed(ts)[n - 1], n)
  <2> HIDE DEF base, St
  <2> QED BY <1>4
<1>6. Fed(ts)[0] = base
  <2>1. 0 \in 0 .. Len(ts)
    OBVIOUS
  <2> HIDE DEF base, St
  <2> QED BY <1>5, <2>1
<1>7. ASSUME NEW n \in 1 .. Len(ts) PROVE Fed(ts)[n] = St(Fed(ts)[n - 1], n)
  <2>1. n \in 0 .. Len(ts) /\ n # 0
    OBVIOUS
  <2> HIDE DEF base, St
  <2> QED BY <1>5, <2>1
<1>8. ASSUME NEW n \in 1 .. Len(ts)
      PROVE  /\ Fed(ts)[n].gate = push(Fed(ts)[n - 1].gate, Text[ts[n]]).gate
             /\ Fed(ts)[n].text = Shows(Fed(ts)[n - 1].text,
                                        push(Fed(ts)[n - 1].gate, Text[ts[n]]).out)
  <2>1. PICK x : x = Fed(ts)[n - 1]
    OBVIOUS
  <2>2. Fed(ts)[n] = St(x, n)
    <3> HIDE DEF St
    <3> QED BY <1>7, <2>1
  <2>3. /\ Fed(ts)[n].gate = push(x.gate, Text[ts[n]]).gate
        /\ Fed(ts)[n].text = Shows(x.text, push(x.gate, Text[ts[n]]).out)
    BY <2>2
  <2> QED BY <2>1, <2>3
<1> QED BY <1>6, <1>8

-----------------------------------------------------------------------------
(* The answer to a request *)

Tok == DOMAIN Text
Fits(r) == r \in Requests /\ ~Serve!TooLong(r)

LEMMA QuotaFacts ==
    ASSUME NEW r, Fits(r)
    PROVE  /\ r.prompt \in Seq(Tok) /\ Len(r.prompt) \in Nat
           /\ Serve!Quota(r) \in Nat \ {0}
           /\ Len(r.prompt) + Serve!Quota(r) <= Ctx
<1>1. r.prompt \in Seq(Tok) /\ Len(r.prompt) \in Nat /\ r.max \in Nat /\ Ctx \in Nat
  BY ServeAssumption DEF Fits, Tok
<1>2. Len(r.prompt) + 1 <= Ctx
  BY <1>1 DEF Fits, Serve!TooLong
<1> QED BY <1>1, <1>2 DEF Serve!Quota

\* One more turn: an end of sequence leaves the answer as it is.
Turn(r, x) ==
    LET t == Greedy[r.prompt \o x] IN IF t \in EosTokens THEN x ELSE Append(x, t)

LEMMA SequelFacts ==
    ASSUME NEW r, Serve!Quota(r) \in Nat
    PROVE  /\ Sequel(r)[0] = << >>
           /\ \A n \in 1 .. Serve!Quota(r) : Sequel(r)[n] = Turn(r, Sequel(r)[n - 1])
<1> DEFINE Eqn(h, m) == h = [n \in 0 .. m |-> IF n = 0 THEN << >> ELSE Turn(r, h[n - 1])]
           Bad == {m \in Nat : ~ \E h : Eqn(h, m)}
<1>1. ASSUME Bad # {}
      PROVE  FALSE
  <2>1. Bad \subseteq Nat
    OBVIOUS
  <2>2. PICK m \in Bad : \A y \in Bad : m <= y
    <3> HIDE DEF Bad
    <3> QED BY <1>1, <2>1, LeastFound
  <2>3. CASE m = 0
    <3> DEFINE g == [n \in 0 .. 0 |-> << >>]
    <3>1. \A n \in 0 .. 0 : n = 0
      OBVIOUS
    <3>2. Eqn(g, 0)
      <4> DEFINE rhs == [n \in 0 .. 0 |-> IF n = 0 THEN << >> ELSE Turn(r, g[n - 1])]
      <4>1. g = rhs
        BY <3>1
      <4> QED BY <4>1
    <3> QED BY <2>2, <2>3, <3>2
  <2>4. CASE m # 0
    <3>1. m \in Nat /\ m - 1 \in Nat /\ m - 1 \notin Bad
      <4> HIDE DEF Bad
      <4> QED BY <2>1, <2>2, <2>4
    <3>2. PICK h : Eqn(h, m - 1)
      BY <3>1
    <3> DEFINE g == [n \in 0 .. m |-> IF n = m THEN Turn(r, h[m - 1]) ELSE h[n]]
    <3>3. \A n \in 0 .. m - 1 : h[n] = IF n = 0 THEN << >> ELSE Turn(r, h[n - 1])
      BY <3>2
    <3>4. ASSUME NEW n \in 0 .. m
          PROVE  g[n] = IF n = 0 THEN << >> ELSE Turn(r, g[n - 1])
      <4>1. CASE n = m
        BY <2>4, <3>1, <4>1
      <4>2. CASE n # m
        <5>1. n \in 0 .. m - 1 /\ (n # 0 => n - 1 \in 0 .. m /\ n - 1 # m)
          BY <3>1, <4>2
        <5>2. g[n] = h[n] /\ (n # 0 => g[n - 1] = h[n - 1])
          BY <5>1, <4>2
        <5> HIDE DEF g
        <5> QED BY <3>3, <5>1, <5>2
      <4> QED BY <4>1, <4>2
    <3>5. Eqn(g, m)
      <4> DEFINE rhs == [n \in 0 .. m |-> IF n = 0 THEN << >> ELSE Turn(r, g[n - 1])]
      <4>1. g = rhs
        BY <3>4
      <4> QED BY <4>1
    <3> QED BY <2>2, <3>5
  <2> QED BY <2>3, <2>4
<1>2. \E h : Eqn(h, Serve!Quota(r))
  BY <1>1
<1>3. Sequel(r) = CHOOSE h : Eqn(h, Serve!Quota(r))
  BY DEF Sequel, Turn
<1>4. Eqn(Sequel(r), Serve!Quota(r))
  <2> HIDE DEF Eqn
  <2> QED BY <1>2, <1>3
<1>5. \A n \in 0 .. Serve!Quota(r) :
        Sequel(r)[n] = IF n = 0 THEN << >> ELSE Turn(r, Sequel(r)[n - 1])
  BY <1>4
<1>6. 0 \in 0 .. Serve!Quota(r) /\ \A n \in 1 .. Serve!Quota(r) : n \in 0 .. Serve!Quota(r) /\ n # 0
  OBVIOUS
<1> QED BY <1>5, <1>6

\* x is the greedy continuation of r's prompt, with no end of sequence in it.
Path(r, x) ==
    /\ x \in Seq(Tok)
    /\ \A i \in 1 .. Len(x) : /\ x[i] = Greedy[r.prompt \o SubSeq(x, 1, i - 1)]
                              /\ x[i] \notin EosTokens

Ended(r, x) == Greedy[r.prompt \o x] \in EosTokens

LEMMA NextTok ==
    ASSUME NEW r, Fits(r), NEW x \in Seq(Tok), Len(x) < Serve!Quota(r)
    PROVE  Greedy[r.prompt \o x] \in Tok
<1>1. r.prompt \o x \in Seq(Tok) /\ Len(r.prompt \o x) = Len(r.prompt) + Len(x)
  BY QuotaFacts
<1>2. PICK h \in Seq(Tok) : h = r.prompt \o x
  BY <1>1
<1>3. Len(h) \in 0 .. Ctx
  <2>1. PICK m \in Nat, k \in Nat, c \in Nat, q \in Nat :
          m = Len(r.prompt) /\ k = Len(x) /\ c = Ctx /\ q = Serve!Quota(r)
    <3>1. Len(r.prompt) \in Nat /\ Len(x) \in Nat /\ Serve!Quota(r) \in Nat
      BY QuotaFacts
    <3>2. Ctx \in Nat
      BY ServeAssumption
    <3> QED BY <3>1, <3>2
  <2>2. m + q <= c /\ k < q /\ Len(h) = m + k
    BY <1>1, <1>2, <2>1, QuotaFacts
  <2> QED BY <2>1, <2>2
<1>4. h \in [1 .. Len(h) -> Tok]
  OBVIOUS
<1>5. h \in UNION {[1 .. n -> Tok] : n \in 0 .. Ctx}
  BY <1>3, <1>4
<1>6. Greedy[h] \in Tok
  BY <1>5, ServeAssumption DEF Tok
<1> QED BY <1>2, <1>6

LEMMA TurnFacts ==
    ASSUME NEW r, Fits(r), NEW x, Path(r, x), Len(x) < Serve!Quota(r)
    PROVE  IF Ended(r, x) THEN Turn(r, x) = x
           ELSE Path(r, Turn(r, x)) /\ Len(Turn(r, x)) = Len(x) + 1
<1>1. CASE Ended(r, x)
  BY <1>1 DEF Ended, Turn
<1>2. CASE ~Ended(r, x)
  <2>1. PICK t \in Tok : t = Greedy[r.prompt \o x]
    BY NextTok DEF Path
  <2>2. Turn(r, x) = Append(x, t) /\ t \notin EosTokens /\ x \in Seq(Tok)
    BY <1>2, <2>1 DEF Turn, Ended, Path
  <2>3. PICK y \in Seq(Tok) : y = Append(x, t) /\ Len(y) = Len(x) + 1
    BY <2>2
  <2>4. ASSUME NEW i \in 1 .. Len(y)
        PROVE  y[i] = Greedy[r.prompt \o SubSeq(y, 1, i - 1)] /\ y[i] \notin EosTokens
    <3>1. SubSeq(y, 1, i - 1) = SubSeq(x, 1, i - 1)
      BY <2>2, <2>3
    <3>2. CASE i = Len(y)
      <4>1. SubSeq(x, 1, i - 1) = x /\ y[i] = t
        BY <2>2, <2>3, <3>2
      <4> QED BY <2>1, <2>2, <3>1, <4>1
    <3>3. CASE i # Len(y)
      <4>1. i \in 1 .. Len(x) /\ y[i] = x[i]
        BY <2>2, <2>3, <3>3
      <4> QED BY <3>1, <4>1 DEF Path
    <3> QED BY <3>2, <3>3
  <2>5. Path(r, y)
    BY <2>4 DEF Path
  <2> QED BY <1>2, <2>2, <2>3, <2>5
<1> QED BY <1>1, <1>2

\* The answer is the greedy continuation, and it stops at the quota or the end.
LEMMA AnswerFacts ==
    ASSUME NEW r, Fits(r)
    PROVE  /\ Path(r, Answer(r)) /\ Len(Answer(r)) \in 0 .. Serve!Quota(r)
           /\ Len(Answer(r)) = Serve!Quota(r) \/ Ended(r, Answer(r))
<1> DEFINE q == Serve!Quota(r)
           Good(n) == /\ Path(r, Sequel(r)[n]) /\ Len(Sequel(r)[n]) \in 0 .. n
                      /\ Len(Sequel(r)[n]) = n \/ Ended(r, Sequel(r)[n])
           Bad == {n \in 0 .. q : ~Good(n)}
<1>1. q \in Nat \ {0}
  BY QuotaFacts
<1>2. Good(0)
  <2>1. Sequel(r)[0] = << >>
    BY <1>1, SequelFacts
  <2> QED BY <2>1 DEF Path
<1>3. ASSUME NEW n \in 1 .. q, Good(n - 1)
      PROVE  Good(n)
  <2>1. PICK x : x = Sequel(r)[n - 1]
    OBVIOUS
  <2>2. Sequel(r)[n] = Turn(r, x)
    BY <1>1, <2>1, SequelFacts
  <2>3. /\ Path(r, x) /\ Len(x) \in 0 .. n - 1
        /\ Len(x) = n - 1 \/ Ended(r, x)
    BY <1>3, <2>1
  <2>4. Len(x) < Serve!Quota(r)
    BY <1>1, <2>3
  <2>5. IF Ended(r, x) THEN Turn(r, x) = x
        ELSE Path(r, Turn(r, x)) /\ Len(Turn(r, x)) = Len(x) + 1
    BY <2>3, <2>4, TurnFacts
  <2> HIDE DEF q
  <2> QED BY <1>1, <2>2, <2>3, <2>5
<1>4. ASSUME Bad # {} PROVE FALSE
  <2>1. Bad \subseteq Nat
    BY <1>1
  <2>2. PICK m \in Bad : \A y \in Bad : m <= y
    <3> HIDE DEF Bad
    <3> QED BY <1>4, <2>1, LeastFound
  <2> HIDE DEF Good, q
  <2>3. m # 0 /\ m \in 0 .. q /\ ~Good(m)
    BY <1>2, <2>2
  <2>4. m \in 1 .. q /\ m - 1 \in 0 .. q /\ ~(m <= m - 1)
    BY <1>1, <2>3
  <2>5. Good(m - 1)
    BY <2>2, <2>4
  <2> QED BY <1>3, <2>3, <2>4, <2>5
<1>5. Good(q)
  <2> HIDE DEF Good, q
  <2> QED BY <1>1, <1>4
<1> QED BY <1>5 DEF Answer

\* What has been said of an answer is a first part of it: it is all of it when
\* the engine stops, and goes on with the engine's next token when it does not.
LEMMA AnswerGrows ==
    ASSUME NEW r, Fits(r), NEW n \in 0 .. Len(Answer(r)), NEW said,
           said = SubSeq(Answer(r), 1, n)
    PROVE  /\ said \in Seq(Tok) /\ Len(said) = n
           /\ Len(said) = Serve!Quota(r) \/ Ended(r, said) =>
                n = Len(Answer(r)) /\ said = Answer(r)
           /\ ~(Len(said) = Serve!Quota(r) \/ Ended(r, said)) =>
                /\ n < Len(Answer(r))
                /\ Answer(r)[n + 1] = Greedy[r.prompt \o said]
                /\ Append(said, Greedy[r.prompt \o said]) = SubSeq(Answer(r), 1, n + 1)
<1>1. PICK x : x = Answer(r)
  OBVIOUS
<1>2. /\ x \in Seq(Tok) /\ Len(x) \in 0 .. Serve!Quota(r) /\ Path(r, x)
      /\ Len(x) = Serve!Quota(r) \/ Ended(r, x) 
      /\ n \in 0 .. Len(x) /\ said = SubSeq(x, 1, n)
  BY <1>1, AnswerFacts DEF Path
<1>3. said \in Seq(Tok) /\ Len(said) = n
  BY <1>2
<1>4. ASSUME n < Len(x)
      PROVE  /\ x[n + 1] = Greedy[r.prompt \o said]
             /\ ~Ended(r, said) /\ n # Serve!Quota(r)
  <2>1. n + 1 \in 1 .. Len(x) /\ (n + 1) - 1 = n /\ n # Serve!Quota(r)
    BY <1>2, <1>4, QuotaFacts
  <2>2. x[n + 1] = Greedy[r.prompt \o SubSeq(x, 1, (n + 1) - 1)] /\ x[n + 1] \notin EosTokens
    BY <1>2, <2>1 DEF Path
  <2> QED BY <1>2, <2>1, <2>2 DEF Ended
<1>5. n = Len(x) => said = x
  BY <1>2
<1>6. n < Len(x) => Append(said, x[n + 1]) = SubSeq(x, 1, n + 1)
  BY <1>2
<1>7. n < Len(x) \/ n = Len(x)
  BY <1>2
<1> QED BY <1>1, <1>2, <1>3, <1>4, <1>5, <1>6, <1>7

-----------------------------------------------------------------------------
(* Sequences of events *)

\* s is a sequence, whatever of.
IsSeq(s) == \E S : s \in Seq(S)

LEMMA SeqFacts ==
    ASSUME NEW s, IsSeq(s)
    PROVE  /\ Len(s) \in Nat /\ DOMAIN s = 1 .. Len(s)
           /\ s # << >> => /\ Len(s) # 0 /\ Head(s) = s[1] /\ IsSeq(Tail(s))
                           /\ Len(Tail(s)) = Len(s) - 1
                           /\ \A i \in 1 .. Len(s) - 1 : Tail(s)[i] = s[i + 1]
           /\ s \o << >> = s /\ << >> \o s = s
           /\ Len(s) = 0 => s = << >>
<1>1. PICK S : s \in Seq(S)
  BY DEF IsSeq
<1>2. s # << >> => Tail(s) \in Seq(S)
  BY <1>1
<1> QED BY <1>1, <1>2 DEF IsSeq

LEMMA AppendFacts ==
    ASSUME NEW s, IsSeq(s), NEW e
    PROVE  /\ IsSeq(Append(s, e)) /\ Append(s, e) # << >> /\ Len(Append(s, e)) = Len(s) + 1
           /\ \A i \in 1 .. Len(s) : Append(s, e)[i] = s[i]
           /\ Append(s, e)[Len(s) + 1] = e
           /\ Head(Append(s, e)) = IF s = << >> THEN e ELSE Head(s)
<1>1. PICK S : s \in Seq(S)
  BY DEF IsSeq
<1>2. PICK T : T = S \union {e}
  OBVIOUS
<1>3. s \in Seq(T) /\ e \in T
  BY <1>1, <1>2
<1>4. Append(s, e) \in Seq(T)
  BY <1>3
<1> QED BY <1>3, <1>4 DEF IsSeq

LEMMA ConcatFacts ==
    ASSUME NEW s, IsSeq(s), NEW t, IsSeq(t)
    PROVE  /\ IsSeq(s \o t)
           /\ t # << >> => Append(s, Head(t)) \o Tail(t) = s \o t
<1>1. PICK S, T : s \in Seq(S) /\ t \in Seq(T)
  BY DEF IsSeq
<1>2. PICK U : U = S \union T
  OBVIOUS
<1>3. s \in Seq(U) /\ t \in Seq(U)
  BY <1>1, <1>2
<1>4. s \o t \in Seq(U)
  BY <1>3
<1>5. ASSUME t # << >>
      PROVE  Append(s, Head(t)) \o Tail(t) = s \o t
  <2>1. /\ Head(t) \in U /\ Tail(t) \in Seq(U) /\ Append(s, Head(t)) \in Seq(U)
        /\ Len(Tail(t)) = Len(t) - 1 /\ Len(Append(s, Head(t))) = Len(s) + 1
    BY <1>3, <1>5
  <2>2. PICK l, r : l = Append(s, Head(t)) \o Tail(t) /\ r = s \o t
    OBVIOUS
  <2>3. l \in Seq(U) /\ r \in Seq(U) /\ Len(l) = Len(r) /\ Len(r) = Len(s) + Len(t)
    BY <1>3, <2>1, <2>2
  <2>4. ASSUME NEW i \in 1 .. Len(r) PROVE l[i] = r[i]
    <3>1. CASE i <= Len(s)
      BY <1>3, <2>1, <2>2, <2>3, <3>1
    <3>2. CASE i = Len(s) + 1
      BY <1>3, <1>5, <2>1, <2>2, <2>3, <3>2
    <3>3. CASE i > Len(s) + 1
      BY <1>3, <1>5, <2>1, <2>2, <2>3, <3>3
    <3> QED BY <2>3, <3>1, <3>2, <3>3
  <2>5. l = r
    BY <2>3, <2>4
  <2> QED BY <2>2, <2>5
<1> QED BY <1>4, <1>5 DEF IsSeq

Plain(t) == IsSeq(t) /\ \A i \in DOMAIN t : ~IsDelta(t[i])

LEMMA EventsPlain ==
    ASSUME NEW S, "delta" \notin S, NEW names \in Seq(S)
    PROVE  Plain(Events(names))
<1>1. Events(names) = [i \in 1 .. Len(names) |-> <<names[i], << >> >>]
  BY DEF Events
<1>2. PICK n \in Nat : n = Len(names)
  OBVIOUS
<1>3. PICK T : T = {<<names[i], << >> >> : i \in 1 .. n}
  OBVIOUS
<1>4. PICK e : e = [i \in 1 .. n |-> <<names[i], << >> >>]
  OBVIOUS
<1>5. e \in Seq(T) /\ DOMAIN e = 1 .. n
  BY <1>3, <1>4
<1>6. ASSUME NEW i \in 1 .. n PROVE e[i][1] # "delta"
  <2>1. names[i] \in S
    BY <1>2
  <2> QED BY <1>4, <2>1
<1> QED BY <1>1, <1>2, <1>4, <1>5, <1>6 DEF Plain, IsSeq, IsDelta

LEMMA ScriptsPlain ==
    ASSUME NEW a \in Asks
    PROVE  /\ Static(a) => Plain(StaticReply(a))
           /\ ~Static(a) => Plain(Opening(a))
           /\ Plain(Closing(a)) /\ Plain(Errors(a))
           /\ ~a.stream => Opening(a) = << >>
           /\ \A t : Plain(Whole(t))
<1>0. a.route \in {"completions", "chat", "messages", "health", "models",
                   "not_found", "not_allowed", "malformed"}
  BY ClientAssumption
<1>1. Plain(Closing(a))
  <2>1. Plain(Events(<<"block_stop", "message_delta", "message_stop", "end">>))
    <3>1. <<"block_stop", "message_delta", "message_stop", "end">> \in Seq({"block_stop", "message_delta", "message_stop", "end"}) /\ "delta" \notin {"block_stop", "message_delta", "message_stop", "end"}
      OBVIOUS
    <3> QED BY <3>1, EventsPlain
  <2>2. Plain(Events(<<"finish", "[DONE]", "end">>))
    <3>1. <<"finish", "[DONE]", "end">> \in Seq({"finish", "[DONE]", "end"}) /\ "delta" \notin {"finish", "[DONE]", "end"}
      OBVIOUS
    <3> QED BY <3>1, EventsPlain
  <2> QED BY <2>1, <2>2 DEF Closing
<1>2. Plain(Errors(a))
  <2>1. Plain(Events(<<"error", "end">>))
    <3>1. <<"error", "end">> \in Seq({"error", "end"}) /\ "delta" \notin {"error", "end"}
      OBVIOUS
    <3> QED BY <3>1, EventsPlain
  <2>2. Plain(Events(<<"json500">>))
    <3>1. <<"json500">> \in Seq({"json500"}) /\ "delta" \notin {"json500"}
      OBVIOUS
    <3> QED BY <3>1, EventsPlain
  <2> QED BY <2>1, <2>2 DEF Errors
<1>3. ASSUME ~Static(a) PROVE Plain(Opening(a))
  <2>1. Plain(Events(<< >>))
    <3>1. << >> \in Seq({}) /\ "delta" \notin {}
      OBVIOUS
    <3> QED BY <3>1, EventsPlain
  <2>2. Plain(Events(<<"head">>))
    <3>1. <<"head">> \in Seq({"head"}) /\ "delta" \notin {"head"}
      OBVIOUS
    <3> QED BY <3>1, EventsPlain
  <2>3. Plain(Events(<<"head", "role">>))
    <3>1. <<"head", "role">> \in Seq({"head", "role"}) /\ "delta" \notin {"head", "role"}
      OBVIOUS
    <3> QED BY <3>1, EventsPlain
  <2>4. Plain(Events(<<"head", "message_start", "block_start">>))
    <3>1. <<"head", "message_start", "block_start">> \in Seq({"head", "message_start", "block_start"}) /\ "delta" \notin {"head", "message_start", "block_start"}
      OBVIOUS
    <3> QED BY <3>1, EventsPlain
  <2> QED BY <1>0, <1>3, <2>1, <2>2, <2>3, <2>4 DEF Opening, Static
<1>4. ASSUME Static(a) PROVE Plain(StaticReply(a))
  <2>1. Plain(Events(<<"head", "ok">>))
    <3>1. <<"head", "ok">> \in Seq({"head", "ok"}) /\ "delta" \notin {"head", "ok"}
      OBVIOUS
    <3> QED BY <3>1, EventsPlain
  <2>2. Plain(Events(<<"json200">>))
    <3>1. <<"json200">> \in Seq({"json200"}) /\ "delta" \notin {"json200"}
      OBVIOUS
    <3> QED BY <3>1, EventsPlain
  <2>3. Plain(Events(<<"json404">>))
    <3>1. <<"json404">> \in Seq({"json404"}) /\ "delta" \notin {"json404"}
      OBVIOUS
    <3> QED BY <3>1, EventsPlain
  <2>4. Plain(Events(<<"json405">>))
    <3>1. <<"json405">> \in Seq({"json405"}) /\ "delta" \notin {"json405"}
      OBVIOUS
    <3> QED BY <3>1, EventsPlain
  <2>5. Plain(Events(<<"json500">>))
    <3>1. <<"json500">> \in Seq({"json500"}) /\ "delta" \notin {"json500"}
      OBVIOUS
    <3> QED BY <3>1, EventsPlain
  <2> QED BY <1>0, <1>4, <2>1, <2>2, <2>3, <2>4, <2>5 DEF StaticReply, Static
<1>5. ASSUME ~a.stream PROVE Opening(a) = << >>
  <2>1. Events(<< >>) = << >>
    BY DEF Events
  <2> QED BY <1>5, <2>1 DEF Opening
<1>6. ASSUME NEW t PROVE Plain(Whole(t))
  <2>1. Whole(t) \in Seq({<<"json", visible(t)>>})
    BY DEF Whole
  <2>2. \A i \in DOMAIN Whole(t) : Whole(t)[i] = <<"json", visible(t)>>
    BY <2>1
  <2> QED BY <2>1, <2>2 DEF Plain, IsSeq, IsDelta
<1> QED BY <1>1, <1>2, <1>3, <1>4, <1>5, <1>6

\* A call of the gate yields one text or none.
LEMMA OneText ==
    ASSUME NEW g, NEW p
    PROVE  /\ push(g, p).out = << >> \/ \E x : push(g, p).out = <<x>>
           /\ flush(g) = << >> \/ \E x : flush(g) = <<x>>
           /\ flush(NewGate) = << >>
<1>1. \A t : Yield(t) = << >> \/ \E x : Yield(t) = <<x>>
  BY DEF Yield
<1>2. push(g, p).out = << >> \/ \E x : push(g, p).out = <<x>>
  BY <1>1 DEF push, Holding
<1>3. flush(g) = << >> \/ \E x : flush(g) = <<x>>
  BY <1>1 DEF flush
<1>4. flush(NewGate) = << >>
  <2>1. Tags(<< >>) = {}
    BY DEF Tags
  <2> QED BY <2>1 DEF flush, NewGate, visible, Yield
<1> QED BY <1>2, <1>3, <1>4

-----------------------------------------------------------------------------
(* The invariant *)

\* Requests that are sent to the scheduler.
Calls(x) == x \in Asks /\ ~Static(x)

InJobs(c) == \E i \in DOMAIN jobs : jobs[i] = c
InGroup(c) == \E i \in DOMAIN members : members[i] = c
Gone(c) == ~InJobs(c) /\ ~InGroup(c)

\* Its result has been sent.
Result(c) == Gone(c) /\ c \notin lost

InHand == sched \in {"serve", "deliver"}

\* The slot of the i-th client still in the group: those before it are answered.
SlotOf(i) == (Cardinality(DOMAIN group) - Len(members)) + (i - 1)

\* A job is in one place, and no job is left behind in a group.
QueueInv ==
    /\ jobs \in Seq(Client) /\ members \in Seq(Client)
    /\ \A i, j \in DOMAIN jobs : jobs[i] = jobs[j] => i = j
    /\ \A i, j \in DOMAIN members : members[i] = members[j] => i = j
    /\ \A i \in DOMAIN jobs, j \in DOMAIN members : jobs[i] # members[j]
    /\ sched = "recv" <=> members = << >>

\* A client whose job is on its way has sent it and can be reached.
JobInv ==
    \A c \in Client :
        /\ InJobs(c) \/ InGroup(c) => /\ at[c] \in {"waiting", "closing", "closed"}
                                      /\ sender[c] = TRUE /\ Calls(ask[c])
        /\ c \in lost => Gone(c) /\ at[c] \notin {"absent", "opening"}
        /\ at[c] \in {"opening", "waiting"} => Calls(ask[c])

\* What has been said in a slot is a first part of the answer to r.
Says(s, r) ==
    IF Serve!TooLong(r) THEN sched = "deliver" => s \in refused
    ELSE /\ s \notin refused
         /\ \E n \in 0 .. Len(Answer(r)) :
               /\ ids[s] = SubSeq(Answer(r), 1, n)
               /\ sched = "deliver" => n = Len(Answer(r))

\* The group of a scheduler that serves has a slot for each client in it.
GroupInv ==
    InHand =>
        /\ \E n \in 1 .. NSeq : DOMAIN group = 0 .. n - 1
        /\ Len(members) <= Cardinality(DOMAIN group)
        /\ sched = "serve" => Len(members) = Cardinality(DOMAIN group)
        /\ DOMAIN ids = 0 .. NSeq - 1
        /\ \A i \in DOMAIN members : /\ group[SlotOf(i)] = ask[members[i]].req
                                     /\ Says(SlotOf(i), group[SlotOf(i)])

\* What a client is still to be sent: the text in front, and the rest.
PendOut(t) == IF t # << >> /\ IsDelta(Head(t)) THEN <<Head(t)[2]>> ELSE << >>
PendFrame(t) == IF t # << >> /\ IsDelta(Head(t)) THEN Tail(t) ELSE t

NoText(c) == shown[c] = << >> /\ PendOut(todo[c]) = << >>
ToShow(c) == Shows(shown[c], PendOut(todo[c]))
AnswerTo(c) == Answer(ask[c].req)

\* Client c has heard k tokens of its answer.
Heard(c, k) ==
    IF ask[c].stream THEN /\ gate[c] = Fed(AnswerTo(c))[k].gate
                          /\ ToShow(c) = Fed(AnswerTo(c))[k].text
    ELSE NoText(c)

\* The channel of client c holds the tokens after the k-th up to the n-th, and
\* the result behind them when there is one.
Carries(c, k, n) ==
    /\ Len(inbox[c]) = (n - k) + (IF Result(c) THEN 1 ELSE 0)
    /\ \A i \in 1 .. n - k : inbox[c][i] = Token(Text[AnswerTo(c)[k + i]])
    /\ Result(c) => inbox[c][(n - k) + 1] = Done(Gathered(AnswerTo(c)))

\* What has been sent to a client is what its slot has said.
Sent(c, n) ==
    /\ InJobs(c) \/ (InGroup(c) /\ ~InHand) => n = 0
    /\ InHand => \A i \in DOMAIN members :
                    members[i] = c => ids[SlotOf(i)] = SubSeq(AnswerTo(c), 1, n)
    /\ Result(c) => n = Len(AnswerTo(c))

\* A client whose slot is refused has been told.
Told(c) ==
    /\ inbox[c] = << >> \/ Head(inbox[c]) = Fail
    /\ InHand => \A i \in DOMAIN members :
                    members[i] = c /\ SlotOf(i) \in refused => inbox[c] # << >>

Waiting(c) ==
    /\ Calls(ask[c]) /\ IsSeq(inbox[c])
    /\ wire[c] = Opening(ask[c]) /\ PendFrame(todo[c]) = << >>
    /\ IF Serve!TooLong(ask[c].req) THEN NoText(c) /\ gate[c] = NewGate /\ Told(c)
       ELSE \E n \in 0 .. Len(AnswerTo(c)) : \E k \in 0 .. n :
                Heard(c, k) /\ Sent(c, n) /\ Carries(c, k, n)

\* What client c will have been sent when it has all: its response.
Script(c, last) == wire[c] \o PendFrame(todo[c]) = Opening(ask[c]) \o last
Tells(c, n) == IF ask[c].stream THEN ToShow(c) = Streamed(AnswerTo(c), n) ELSE NoText(c)

Finishing(c) ==
    /\ ask[c] \in Asks
    /\ IF Static(ask[c])
       THEN NoText(c) /\ wire[c] \o PendFrame(todo[c]) = StaticReply(ask[c])
       ELSE IF Serve!TooLong(ask[c].req) THEN NoText(c) /\ Script(c, Errors(ask[c]))
       ELSE /\ Gone(c)
            /\ IF c \in lost
               THEN /\ Script(c, Errors(ask[c]))
                    /\ \E n \in 0 .. Len(AnswerTo(c)) : Tells(c, n)
               ELSE /\ Script(c, IF ask[c].stream THEN Closing(ask[c])
                                 ELSE Whole(Gathered(AnswerTo(c))))
                    /\ Tells(c, Len(AnswerTo(c)))

Fresh(c) == NoText(c) /\ gate[c] = NewGate

\* Of a client that stays: what it was sent, what it will be and what its channel
\* holds are together the response to its request, as far as that is known.
Orderly(c) ==
    /\ IsSeq(wire[c]) /\ Plain(PendFrame(todo[c]))
    /\ PendOut(todo[c]) # << >> => wire[c] = Opening(ask[c])
    /\ at[c] = "absent" => Fresh(c) /\ wire[c] = << >> /\ todo[c] = << >>
    /\ at[c] = "opening" => /\ Calls(ask[c]) /\ Fresh(c)
                            /\ wire[c] \o PendFrame(todo[c]) = Opening(ask[c])
    /\ at[c] = "waiting" => Waiting(c)
    /\ at[c] \in {"closing", "closed"} => Finishing(c)

JobsInv == TypeOK /\ QueueInv /\ JobInv /\ GroupInv

ServerInv == JobsInv /\ \A c \in Client : here[c] => Orderly(c)

-----------------------------------------------------------------------------
(* What leaves a client's response in order *)

Same(d) ==
    /\ ask'[d] = ask[d] /\ at'[d] = at[d] /\ todo'[d] = todo[d] /\ wire'[d] = wire[d]
    /\ shown'[d] = shown[d] /\ gate'[d] = gate[d] /\ inbox'[d] = inbox[d]

LEMMA SameText ==
    ASSUME NEW d, Same(d)
    PROVE  /\ NoText(d)' <=> NoText(d)
           /\ ToShow(d)' = ToShow(d) /\ AnswerTo(d)' = AnswerTo(d)
           /\ PendOut(todo[d])' = PendOut(todo[d])
           /\ PendFrame(todo[d])' = PendFrame(todo[d])
           /\ Fresh(d)' <=> Fresh(d)
           /\ \A n : Tells(d, n)' <=> Tells(d, n)
           /\ \A n : Heard(d, n)' <=> Heard(d, n)
           /\ \A e : Script(d, e)' <=> Script(d, e)
BY DEF Same, NoText, ToShow, AnswerTo, Fresh, Tells, Heard, Script, PendOut, PendFrame

LEMMA OrderlyKept ==
    ASSUME NEW d, Orderly(d), Same(d),
           Gone(d) => Gone(d)' /\ (d \in lost' <=> d \in lost),
           at[d] = "waiting" =>
               /\ Result(d)' <=> Result(d)
               /\ IF Serve!TooLong(ask[d].req) THEN Told(d)'
                  ELSE \A n : Sent(d, n) => Sent(d, n)'
    PROVE  Orderly(d)'
<1>1. ASSUME at[d] = "waiting" PROVE Waiting(d)'
  <2>1. Waiting(d)
    BY <1>1 DEF Orderly
  <2>2. /\ Calls(ask'[d]) /\ IsSeq(inbox'[d]) /\ wire'[d] = Opening(ask'[d])
        /\ PendFrame(todo[d])' = << >>
    BY <2>1, SameText DEF Waiting, Same
  <2>3. ASSUME Serve!TooLong(ask[d].req)
        PROVE  NoText(d)' /\ gate'[d] = NewGate /\ Told(d)'
    BY <1>1, <2>1, <2>3, SameText DEF Waiting, Same
  <2>4. ASSUME ~Serve!TooLong(ask[d].req)
        PROVE  \E n \in 0 .. Len(AnswerTo(d)) : \E k \in 0 .. n :
                   Heard(d, k)' /\ Sent(d, n)' /\ Carries(d, k, n)'
    <3>0. PICK n \in 0 .. Len(AnswerTo(d)) :
              \E k \in 0 .. n : Heard(d, k) /\ Sent(d, n) /\ Carries(d, k, n)
      BY <2>1, <2>4 DEF Waiting
    <3>1. PICK k \in 0 .. n : Heard(d, k) /\ Sent(d, n) /\ Carries(d, k, n)
      BY <3>0
    <3>2. Heard(d, k)' /\ Sent(d, n)'
      BY <1>1, <2>4, <3>1, SameText
    <3>3. Carries(d, k, n)'
      BY <1>1, <3>1, SameText DEF Carries, Same
    <3> QED BY <3>2, <3>3
  <2>5. Serve!TooLong(ask[d].req)' <=> Serve!TooLong(ask[d].req)
    BY DEF Same, Serve!TooLong
  <2>6. AnswerTo(d)' = AnswerTo(d)
    BY SameText
  <2> QED BY <2>2, <2>3, <2>4, <2>5, <2>6 DEF Waiting
<1>2. ASSUME at[d] \in {"closing", "closed"} PROVE Finishing(d)'
  <2>1. Finishing(d)
    BY <1>2 DEF Orderly
  <2>2. ask'[d] = ask[d] /\ wire'[d] = wire[d]
    BY DEF Same
  <2>3. AnswerTo(d)' = AnswerTo(d) /\ PendFrame(todo[d])' = PendFrame(todo[d])
    BY SameText
  <2>4. Serve!TooLong(ask[d].req)' <=> Serve!TooLong(ask[d].req)
    BY <2>2 DEF Serve!TooLong
  <2>5. (NoText(d)' <=> NoText(d)) /\ (\A n : Tells(d, n)' <=> Tells(d, n))
    BY SameText
  <2>6. \A e : Script(d, e)' <=> Script(d, e)
    BY SameText
  <2> QED BY <2>1, <2>2, <2>3, <2>4, <2>5, <2>6 DEF Finishing
<1>3. /\ ask'[d] = ask[d] /\ at'[d] = at[d] /\ wire'[d] = wire[d] /\ todo'[d] = todo[d]
      /\ PendOut(todo[d])' = PendOut(todo[d]) /\ PendFrame(todo[d])' = PendFrame(todo[d])
      /\ Fresh(d)' <=> Fresh(d)
  BY SameText DEF Same
<1>4. /\ IsSeq(wire'[d]) /\ Plain(PendFrame(todo[d])')
      /\ PendOut(todo[d])' # << >> => wire'[d] = Opening(ask'[d])
  BY <1>3 DEF Orderly
<1>5. /\ at'[d] = "absent" => Fresh(d)' /\ wire'[d] = << >> /\ todo'[d] = << >>
      /\ at'[d] = "opening" => /\ Calls(ask'[d]) /\ Fresh(d)'
                               /\ wire'[d] \o PendFrame(todo[d])' = Opening(ask'[d])
  BY <1>3 DEF Orderly
<1> QED BY <1>1, <1>2, <1>3, <1>4, <1>5 DEF Orderly

-----------------------------------------------------------------------------
(* A step of a connection thread leaves the scheduler's state alone *)

Away ==
    /\ sched' = sched /\ members' = members /\ lost' = lost
    /\ group' = group /\ ids' = ids /\ refused' = refused

LEMMA AwayFacts ==
    ASSUME NEW d, Away, InJobs(d)' <=> InJobs(d)
    PROVE  /\ Gone(d)' <=> Gone(d)
           /\ Result(d)' <=> Result(d)
           /\ ask'[d] = ask[d] => \A n : Sent(d, n)' <=> Sent(d, n)
           /\ inbox'[d] = inbox[d] => (Told(d)' <=> Told(d))
<1>1. (InGroup(d)' <=> InGroup(d)) /\ (InHand' <=> InHand) /\ \A i : SlotOf(i)' = SlotOf(i)
  BY DEF Away, InGroup, InHand, SlotOf
<1>2. (Gone(d)' <=> Gone(d)) /\ (Result(d)' <=> Result(d))
  BY <1>1 DEF Gone, Result, Away
<1>3. ASSUME ask'[d] = ask[d], NEW n PROVE Sent(d, n)' <=> Sent(d, n)
  <2>1. AnswerTo(d)' = AnswerTo(d)
    BY <1>3 DEF AnswerTo
  <2> QED BY <1>1, <1>2, <2>1 DEF Sent, Away
<1>4. ASSUME inbox'[d] = inbox[d] PROVE Told(d)' <=> Told(d)
  BY <1>1, <1>4 DEF Told, Away
<1> QED BY <1>2, <1>3, <1>4

LEMMA OthersKept ==
    ASSUME NEW d, Orderly(d), Same(d), Away, InJobs(d)' <=> InJobs(d)
    PROVE  Orderly(d)'
<1>1. /\ Gone(d)' <=> Gone(d)
      /\ Result(d)' <=> Result(d)
      /\ \A n : Sent(d, n)' <=> Sent(d, n)
      /\ Told(d)' <=> Told(d)
  BY AwayFacts DEF Same
<1>2. at[d] = "waiting" /\ Serve!TooLong(ask[d].req) => Told(d)
  BY DEF Orderly, Waiting
<1>3. lost' = lost
  BY DEF Away
<1> QED BY <1>1, <1>2, <1>3, OrderlyKept

Submitted == {"waiting", "closing", "closed"}

LEMMA GroupKept ==
    ASSUME JobsInv, Away, \A d \in Client : at[d] \in Submitted => ask'[d] = ask[d]
    PROVE  GroupInv'
<1>1. QueueInv /\ JobInv /\ GroupInv
  BY DEF JobsInv
<1> SUFFICES ASSUME InHand PROVE GroupInv'
  BY DEF GroupInv, InHand, Away
<1>2. \A i : SlotOf(i)' = SlotOf(i)
  BY DEF SlotOf, Away
<1>3. \A s, r : Says(s, r)' <=> Says(s, r)
  BY DEF Says, Away
<1>4. ASSUME NEW i \in DOMAIN members PROVE ask'[members[i]] = ask[members[i]]
  <2>1. members[i] \in Client /\ InGroup(members[i])
    BY <1>1 DEF QueueInv, InGroup
  <2> QED BY <1>1, <2>1 DEF JobInv, Submitted
<1>5. \A i \in DOMAIN members : /\ group[SlotOf(i)] = ask[members[i]].req
                                /\ Says(SlotOf(i), group[SlotOf(i)])
  BY <1>1 DEF GroupInv
<1>6. ASSUME NEW i \in DOMAIN members'
      PROVE  /\ group'[SlotOf(i)'] = ask'[members'[i]].req
             /\ Says(SlotOf(i), group[SlotOf(i)])'
  <2>1. i \in DOMAIN members /\ members' = members /\ group' = group
    BY <1>6 DEF Away
  <2>2. PICK s : s = SlotOf(i)
    OBVIOUS
  <2>3. PICK r : r = group[s]
    OBVIOUS
  <2>4. group'[SlotOf(i)'] = ask'[members'[i]].req
    BY <1>2, <1>4, <1>5, <2>1
  <2>5. SlotOf(i)' = s /\ (group[SlotOf(i)])' = r /\ Says(s, r)
    BY <1>2, <1>5, <2>1, <2>2, <2>3
  <2>6. Says(s, r)'
    BY <1>3, <2>5
  <2>7. Says(SlotOf(i), group[SlotOf(i)])' <=> Says(s, r)'
    BY <2>5 DEF Says
  <2> QED BY <2>4, <2>6, <2>7
<1> QED BY <1>1, <1>6 DEF GroupInv, Away, InHand

LEMMA JobsKept ==
    ASSUME JobsInv, Away, jobs' = jobs, sender' = sender,
           \A d \in Client :
              /\ at[d] \in Submitted => at'[d] \in Submitted /\ ask'[d] = ask[d]
              /\ at'[d] \in {"opening", "waiting"} => Calls(ask'[d])
    PROVE  QueueInv' /\ JobInv' /\ GroupInv'
<1>1. /\ at \in [Client -> {"absent", "opening", "waiting", "closing", "closed"}]
      /\ QueueInv /\ JobInv
  BY DEF JobsInv, TypeOK
<1>2. QueueInv'
  BY <1>1 DEF QueueInv, Away
<1>3. \A d : (InJobs(d)' <=> InJobs(d)) /\ (InGroup(d)' <=> InGroup(d)) /\ (Gone(d)' <=> Gone(d))
  BY DEF InJobs, InGroup, Gone, Away
<1>4. JobInv'
  <2> SUFFICES ASSUME NEW d \in Client
               PROVE  /\ InJobs(d) \/ InGroup(d) =>
                           /\ at'[d] \in {"waiting", "closing", "closed"}
                           /\ sender[d] = TRUE /\ Calls(ask'[d])
                      /\ d \in lost => Gone(d) /\ at'[d] \notin {"absent", "opening"}
    BY <1>3 DEF JobInv, Away
  <2>1. at[d] \in {"absent", "opening"} \/ at[d] \in Submitted
    BY <1>1 DEF Submitted
  <2>2. /\ InJobs(d) \/ InGroup(d) => at[d] \in Submitted /\ sender[d] = TRUE /\ Calls(ask[d])
        /\ d \in lost => Gone(d) /\ at[d] \in Submitted
    BY <1>1, <2>1 DEF JobInv, Submitted
  <2> QED BY <2>2 DEF Submitted
<1>5. GroupInv'
  BY GroupKept
<1> QED BY <1>2, <1>4, <1>5

LEMMA ConnTypes ==
    ASSUME NEW c \in Client, TypeOK, jobs' \in Seq(Client),
           Accept(c) \/ NoRequest(c) \/ HangUp(c) \/ Connection(c)
    PROVE  TypeOK'
<1> USE DEF TypeOK, schedVars, engineVars
<1>1. ASSUME Accept(c) PROVE TypeOK'
  BY <1>1 DEF Accept
<1>2. ASSUME NoRequest(c) PROVE TypeOK'
  BY <1>2 DEF NoRequest
<1>3. ASSUME HangUp(c) PROVE TypeOK'
  BY <1>3 DEF HangUp
<1>4. ASSUME Connection(c) PROVE TypeOK'
  <2>0. slots' = slots
    BY <1>4 DEF Connection
  <2>1. ASSUME Write(c) PROVE TypeOK'
    <3>1. at[c] \in {"opening", "waiting", "closing"} /\ todo'[c] = Tail(todo[c])
      BY <2>1 DEF Write
    <3>2. \A d \in Client : todo'[d] # << >> => at[d] \in {"opening", "waiting", "closing"}
      BY <2>1, <3>1 DEF Write
    <3>3. DOMAIN todo' = Client /\ DOMAIN wire' = Client /\ DOMAIN shown' = Client
      BY <2>1 DEF Write
    <3> QED BY <2>0, <2>1, <3>2, <3>3 DEF Write
  <2>2. ASSUME WriteFails(c) PROVE TypeOK'
    BY <2>0, <2>2 DEF WriteFails
  <2>3. ASSUME Submit(c) PROVE TypeOK'
    BY <2>0, <2>3 DEF Submit
  <2>4. ASSUME Close(c) PROVE TypeOK'
    BY <2>0, <2>4 DEF Close
  <2>5. ASSUME HearToken(c) PROVE TypeOK'
    <3>1. DOMAIN gate' = Client /\ DOMAIN todo' = Client /\ DOMAIN inbox' = Client
      BY <2>5 DEF HearToken
    <3>2. \A d \in Client : inbox'[d] # << >> => inbox[d] # << >> \/ d = c
      BY <2>5 DEF HearToken
    <3>3. \A d \in Client : todo'[d] # << >> => todo[d] # << >> \/ d = c
      BY <2>5 DEF HearToken
    <3>4. /\ at[c] = "waiting" /\ at' = at /\ ask' = ask /\ wire' = wire /\ shown' = shown
          /\ here' = here /\ sender' = sender /\ jobs' = jobs /\ sched' = sched
          /\ members' = members /\ lost' = lost
      BY <2>5 DEF HearToken, Reading
    <3> QED BY <2>0, <3>1, <3>2, <3>3, <3>4
  <2>6. ASSUME NEW last, Reading(c), EndsWith(c, last) PROVE TypeOK'
    BY <2>0, <2>6 DEF EndsWith, Reading
  <2> QED BY <1>4, <2>1, <2>2, <2>3, <2>4, <2>5, <2>6 DEF Connection, HearDone, HearFail
<1> QED BY <1>1, <1>2, <1>3, <1>4

\* A job is sent by a client that has none on its way.
LEMMA SubmitJobs ==
    ASSUME NEW c \in Client, JobsInv, Submit(c)
    PROVE  /\ QueueInv' /\ JobInv' /\ GroupInv' /\ Away
           /\ \A d \in Client : InJobs(d)' <=> (InJobs(d) \/ d = c)
           /\ Gone(c) /\ c \notin lost
<1>1. /\ TypeOK /\ QueueInv /\ JobInv
      /\ jobs \in Seq(Client) /\ members \in Seq(Client)
  BY DEF JobsInv, QueueInv
<1>2. /\ at[c] = "opening" /\ jobs' = Append(jobs, c) /\ Away
      /\ ask' = ask /\ sender' = [sender EXCEPT ![c] = TRUE]
      /\ at' = [at EXCEPT ![c] = "waiting"] /\ todo[c] = << >>
  BY DEF Submit, Away, schedVars, engineVars
<1>3. Gone(c) /\ c \notin lost /\ Calls(ask[c])
  BY <1>1, <1>2 DEF JobInv, Gone
<1>4. /\ DOMAIN jobs = 1 .. Len(jobs) /\ Len(jobs) \in Nat
      /\ DOMAIN jobs' = 1 .. Len(jobs) + 1 /\ jobs' \in Seq(Client)
      /\ \A i \in 1 .. Len(jobs) : jobs'[i] = jobs[i]
      /\ jobs'[Len(jobs) + 1] = c
  BY <1>1, <1>2
<1>5. \A i \in DOMAIN jobs : jobs[i] # c
  BY <1>3 DEF Gone, InJobs
<1>6. \A i \in DOMAIN members : members[i] # c
  BY <1>3 DEF Gone, InGroup
<1>7. members' = members /\ sched' = sched /\ lost' = lost
  BY <1>2 DEF Away
<1>8. \A i \in DOMAIN jobs' : (i \in DOMAIN jobs /\ jobs'[i] = jobs[i]) \/ i = Len(jobs) + 1
  BY <1>4
<1>9. QueueInv'
  <2>1. \A i, j \in DOMAIN jobs' : jobs'[i] = jobs'[j] => i = j
    BY <1>1, <1>4, <1>5, <1>8 DEF QueueInv
  <2>2. \A i \in DOMAIN jobs', j \in DOMAIN members : jobs'[i] # members[j]
    BY <1>1, <1>4, <1>6, <1>8 DEF QueueInv
  <2> QED BY <1>1, <1>4, <1>7, <2>1, <2>2 DEF QueueInv
<1>10. ASSUME NEW d \in Client PROVE InJobs(d)' <=> (InJobs(d) \/ d = c)
  BY <1>4, <1>8 DEF InJobs
<1>11. \A d : InGroup(d)' <=> InGroup(d)
  BY <1>7 DEF InGroup
<1>12. JobInv'
  <2> SUFFICES ASSUME NEW d \in Client
               PROVE  /\ InJobs(d)' \/ InGroup(d) =>
                           /\ at'[d] \in {"waiting", "closing", "closed"}
                           /\ sender'[d] = TRUE /\ Calls(ask[d])
                      /\ d \in lost => Gone(d)' /\ at'[d] \notin {"absent", "opening"}
                      /\ at'[d] \in {"opening", "waiting"} => Calls(ask[d])
    BY <1>2, <1>7, <1>11 DEF JobInv
  <2>1. CASE d = c
    BY <1>1, <1>2, <1>3, <2>1 DEF TypeOK
  <2>2. CASE d # c
    <3>1. at'[d] = at[d] /\ sender'[d] = sender[d] /\ (InJobs(d)' <=> InJobs(d))
      BY <1>1, <1>2, <1>10, <2>2 DEF TypeOK
    <3>2. Gone(d)' <=> Gone(d)
      BY <1>11, <3>1 DEF Gone
    <3> QED BY <1>1, <3>1, <3>2 DEF JobInv
  <2> QED BY <2>1, <2>2
<1>13. GroupInv'
  BY <1>2, GroupKept
<1> QED BY <1>2, <1>3, <1>9, <1>10, <1>12, <1>13

\* The other steps of a connection thread leave the jobs where they are.
LEMMA ConnJobs ==
    ASSUME NEW c \in Client, JobsInv,
           Accept(c) \/ NoRequest(c) \/ HangUp(c) \/ Connection(c), ~Submit(c)
    PROVE  /\ QueueInv' /\ JobInv' /\ GroupInv'
           /\ Away /\ jobs' = jobs
<1>1. TypeOK /\ JobInv
  BY DEF JobsInv
<1> DEFINE Left == /\ Away /\ jobs' = jobs /\ sender' = sender
                   /\ \A d \in Client :
                        /\ at[d] \in Submitted => at'[d] \in Submitted /\ ask'[d] = ask[d]
                        /\ at'[d] \in {"opening", "waiting"} => Calls(ask'[d])
<1>2. \A d \in Client : at[d] \in {"opening", "waiting"} => Calls(ask[d])
  BY <1>1 DEF JobInv
<1> USE DEF Away, Submitted, schedVars, engineVars, connVars
<1>3. ASSUME Accept(c) PROVE Left
  BY <1>1, <1>2, <1>3 DEF Accept, TypeOK, Calls
<1>4. ASSUME NoRequest(c) PROVE Left
  BY <1>1, <1>2, <1>4 DEF NoRequest, TypeOK
<1>5. ASSUME HangUp(c) PROVE Left
  BY <1>1, <1>2, <1>5 DEF HangUp, TypeOK
<1>6. ASSUME Connection(c) PROVE Left
  <2>1. ASSUME Write(c) PROVE Left
    BY <1>1, <1>2, <2>1 DEF Write, TypeOK
  <2>2. ASSUME WriteFails(c) PROVE Left
    BY <1>1, <1>2, <2>2 DEF WriteFails, TypeOK
  <2>3. ASSUME Close(c) PROVE Left
    BY <1>1, <1>2, <2>3 DEF Close, TypeOK
  <2>4. ASSUME HearToken(c) PROVE Left
    BY <1>1, <1>2, <2>4 DEF HearToken, TypeOK
  <2>5. ASSUME NEW last, Reading(c), EndsWith(c, last) PROVE Left
    BY <1>1, <1>2, <2>5 DEF EndsWith, Reading, TypeOK
  <2> QED BY <1>6, <2>1, <2>2, <2>3, <2>4, <2>5 DEF Connection, HearDone, HearFail
<1>7. Left
  BY <1>3, <1>4, <1>5, <1>6
<1>8. Away
  BY <1>7
<1> QED BY <1>7, <1>8, JobsKept

-----------------------------------------------------------------------------
(* A step of a connection thread leaves its own client in order *)

LEMMA PendFacts ==
    ASSUME NEW t, Plain(PendFrame(t))
    PROVE  /\ t = << >> => PendOut(t) = << >> /\ PendFrame(t) = << >>
           /\ t # << >> => /\ PendFrame(Tail(t)) = Tail(t) /\ PendOut(Tail(t)) = << >>
                           /\ Plain(Tail(t))
                           /\ IF IsDelta(Head(t))
                              THEN PendOut(t) = <<Head(t)[2]>> /\ PendFrame(t) = Tail(t)
                              ELSE PendOut(t) = << >> /\ PendFrame(t) = t
<1>1. ASSUME NEW u, Plain(u) PROVE PendFrame(u) = u /\ PendOut(u) = << >>
  <2>1. u # << >> => ~IsDelta(Head(u))
    BY <1>1, SeqFacts DEF Plain
  <2> QED BY <2>1 DEF PendFrame, PendOut
<1>2. ASSUME t # << >> PROVE Plain(Tail(t))
  <2>1. CASE IsDelta(Head(t))
    BY <1>2, <2>1 DEF PendFrame
  <2>2. CASE ~IsDelta(Head(t))
    <3>1. Plain(t)
      BY <2>2 DEF PendFrame
    <3>2. IsSeq(Tail(t)) /\ IsSeq(t)
      BY <1>2, <3>1, SeqFacts DEF Plain
    <3>3. /\ DOMAIN Tail(t) = 1 .. Len(t) - 1 /\ DOMAIN t = 1 .. Len(t) /\ Len(t) \in Nat
          /\ \A i \in 1 .. Len(t) - 1 : Tail(t)[i] = t[i + 1]
      BY <1>2, <3>2, SeqFacts
    <3>4. ASSUME NEW i \in DOMAIN Tail(t) PROVE ~IsDelta(Tail(t)[i])
      <4>1. i + 1 \in DOMAIN t /\ Tail(t)[i] = t[i + 1]
        BY <3>3
      <4> QED BY <3>1, <4>1 DEF Plain
    <3> QED BY <3>2, <3>4 DEF Plain
  <2> QED BY <2>1, <2>2
<1>3. t = << >> => PendOut(t) = << >> /\ PendFrame(t) = << >>
  BY DEF PendOut, PendFrame
<1>4. t # << >> =>
        IF IsDelta(Head(t)) THEN PendOut(t) = <<Head(t)[2]>> /\ PendFrame(t) = Tail(t)
        ELSE PendOut(t) = << >> /\ PendFrame(t) = t
  BY DEF PendOut, PendFrame
<1> QED BY <1>1, <1>2, <1>3, <1>4

\* The writes that follow a call of the gate, before the events of last.
LEMMA DeltaFacts ==
    ASSUME NEW out, out = << >> \/ \E x : out = <<x>>, NEW last, Plain(last)
    PROVE  /\ PendOut(Deltas(out) \o last) = out /\ PendFrame(Deltas(out) \o last) = last
           /\ PendOut(Deltas(out)) = out /\ PendFrame(Deltas(out)) = << >>
           /\ PendOut(last) = << >> /\ PendFrame(last) = last
<1>1. IsSeq(last) /\ << >> \o last = last
  BY SeqFacts DEF Plain
<1>2. PendOut(last) = << >> /\ PendFrame(last) = last
  <2>1. last # << >> => ~IsDelta(Head(last))
    BY <1>1, SeqFacts DEF Plain
  <2> QED BY <2>1 DEF PendFrame, PendOut
<1>3. CASE out = << >>
  <2>1. Deltas(out) = << >>
    BY <1>3 DEF Deltas
  <2> QED BY <1>1, <1>2, <1>3, <2>1 DEF PendOut, PendFrame
<1>4. CASE \E x : out = <<x>>
  <2>1. PICK x : out = <<x>>
    BY <1>4
  <2>2. PICK e : e = Delta(x)
    OBVIOUS
  <2>3. Deltas(out) = <<e>>
    BY <2>1, <2>2 DEF Deltas
  <2>4. IsDelta(e) /\ e[2] = x
    BY <2>2 DEF IsDelta, Delta
  <2>5. PICK S : last \in Seq(S)
    BY <1>1 DEF IsSeq
  <2>6. PICK T : T = S \union {e}
    OBVIOUS
  <2>7. last \in Seq(T) /\ <<e>> \in Seq(T)
    BY <2>5, <2>6
  <2>8. PICK w : w = <<e>> \o last
    OBVIOUS
  <2>9. w \in Seq(T) /\ w # << >> /\ Head(w) = e /\ Tail(w) = last
    <3>1. w \in Seq(T) /\ Len(w) = Len(last) + 1 /\ w[1] = e
      BY <2>7, <2>8
    <3>2. \A i \in 1 .. Len(last) : w[i + 1] = last[i]
      BY <2>7, <2>8
    <3>3. w # << >> /\ Len(last) \in Nat
      BY <2>7, <3>1
    <3>4. Tail(w) \in Seq(T) /\ Len(Tail(w)) = Len(last)
      BY <3>1, <3>3
    <3>5. \A i \in 1 .. Len(last) : Tail(w)[i] = last[i]
      BY <3>1, <3>2, <3>3
    <3>6. Tail(w) = last
      BY <2>7, <3>4, <3>5
    <3> QED BY <3>1, <3>3, <3>6
  <2>10. Head(<<e>>) = e /\ Tail(<<e>>) = << >> /\ <<e>> # << >>
    OBVIOUS
  <2>11. PendOut(w) = out /\ PendFrame(w) = last
    BY <2>1, <2>4, <2>9 DEF PendOut, PendFrame
  <2>12. PendOut(<<e>>) = out /\ PendFrame(<<e>>) = << >>
    BY <2>1, <2>4, <2>10 DEF PendOut, PendFrame
  <2> QED BY <1>2, <2>3, <2>8, <2>11, <2>12
<1> QED BY <1>3, <1>4

LEMMA PlainEmpty == Plain(<< >>) /\ IsSeq(<< >>)
<1>1. << >> \in Seq({})
  OBVIOUS
<1> QED BY <1>1 DEF Plain, IsSeq

LEMMA AcceptOrder ==
    ASSUME NEW c \in Client, JobsInv, Orderly(c), Accept(c)
    PROVE  Orderly(c)'
<1>1. PICK a \in Asks :
        /\ ask' = [ask EXCEPT ![c] = a]
        /\ todo' = [todo EXCEPT ![c] = IF Static(a) THEN StaticReply(a) ELSE Opening(a)]
        /\ at' = [at EXCEPT ![c] = IF Static(a) THEN "closing" ELSE "opening"]
  BY DEF Accept
<1>2. wire' = wire /\ shown' = shown /\ gate' = gate /\ at[c] = "absent"
  BY DEF Accept
<1>3. DOMAIN ask = Client /\ DOMAIN todo = Client /\ DOMAIN at = Client
  BY DEF JobsInv, TypeOK
<1>4. wire[c] = << >> /\ shown[c] = << >> /\ gate[c] = NewGate
  BY <1>2 DEF Orderly, Fresh, NoText
<1>5. PICK t : t = IF Static(a) THEN StaticReply(a) ELSE Opening(a)
  OBVIOUS
<1>6. /\ ask'[c] = a /\ todo'[c] = t
      /\ at'[c] = IF Static(a) THEN "closing" ELSE "opening"
  BY <1>1, <1>3, <1>5
<1>7. Plain(t)
  BY <1>5, ScriptsPlain
<1>8. PendOut(t) = << >> /\ PendFrame(t) = t /\ << >> \o t = t
  <2>1. PendOut(t) = << >> /\ PendFrame(t) = t
    BY <1>7, DeltaFacts
  <2> QED BY <1>7, <2>1, SeqFacts DEF Plain
<1>9. /\ PendOut(todo[c])' = << >> /\ PendFrame(todo[c])' = t
      /\ wire'[c] = << >> /\ gate'[c] = NewGate /\ shown'[c] = << >>
  BY <1>2, <1>4, <1>6, <1>8
<1>10. NoText(c)' /\ Fresh(c)'
  BY <1>9 DEF NoText, Fresh
<1>11. wire'[c] \o PendFrame(todo[c])' = t
  BY <1>8, <1>9
<1>12. ASSUME ~Static(a) PROVE Orderly(c)'
  <2>1. at'[c] = "opening" /\ Calls(ask'[c]) /\ t = Opening(ask'[c])
    BY <1>5, <1>6, <1>12 DEF Calls
  <2> QED BY <1>7, <1>9, <1>10, <1>11, <2>1, PlainEmpty DEF Orderly
<1>13. ASSUME Static(a) PROVE Orderly(c)'
  <2>1. at'[c] = "closing" /\ ask'[c] = a /\ t = StaticReply(ask'[c])
    BY <1>5, <1>6, <1>13
  <2>2. Finishing(c)'
    BY <1>10, <1>11, <1>13, <2>1 DEF Finishing
  <2> QED BY <1>7, <1>9, <2>1, <2>2, PlainEmpty DEF Orderly
<1> QED BY <1>12, <1>13

\* A write moves an event, or the text in front, from what is to be sent to what
\* was: the two together are as they were.
LEMMA WriteMoves ==
    ASSUME NEW c \in Client, TypeOK, Orderly(c), here[c], Write(c)
    PROVE  /\ todo[c] # << >> /\ todo'[c] = Tail(todo[c])
           /\ IsSeq(wire'[c]) /\ Plain(PendFrame(todo[c])')
           /\ PendOut(todo[c])' = << >>
           /\ wire'[c] \o PendFrame(todo[c])' = wire[c] \o PendFrame(todo[c])
           /\ ToShow(c)' = ToShow(c)
           /\ NoText(c) => NoText(c)'
           /\ IsDelta(Head(todo[c])) => wire'[c] = wire[c] /\ PendFrame(todo[c])' = PendFrame(todo[c])
           /\ ~IsDelta(Head(todo[c])) => PendFrame(todo[c]) # << >>
<1>1. /\ DOMAIN todo = Client /\ DOMAIN wire = Client /\ DOMAIN shown = Client
      /\ todo' = [todo EXCEPT ![c] = Tail(@)] /\ todo[c] # << >>
  BY DEF TypeOK, Write
<1>2. PICK t : t = todo[c]
  OBVIOUS
<1>3. PICK e : e = Head(t)
  OBVIOUS
<1>4. /\ wire' = IF here[c] /\ ~IsDelta(e) THEN [wire EXCEPT ![c] = Append(@, e)] ELSE wire
      /\ shown' = IF here[c] /\ IsDelta(e) THEN [shown EXCEPT ![c] = @ \o e[2]] ELSE shown
  BY <1>2, <1>3 DEF Write
<1>5. todo'[c] = Tail(t) /\ t # << >>
  BY <1>1, <1>2
<1>6. IsSeq(wire[c]) /\ Plain(PendFrame(t))
  BY <1>2 DEF Orderly
<1>7. /\ PendFrame(Tail(t)) = Tail(t) /\ PendOut(Tail(t)) = << >> /\ Plain(Tail(t))
      /\ IF IsDelta(e) THEN PendOut(t) = <<e[2]>> /\ PendFrame(t) = Tail(t)
         ELSE PendOut(t) = << >> /\ PendFrame(t) = t
  BY <1>3, <1>5, <1>6, PendFacts
<1>8. PendFrame(todo[c])' = Tail(t) /\ PendOut(todo[c])' = << >>
  BY <1>5, <1>7
<1>9. ASSUME IsDelta(e)
      PROVE  /\ wire'[c] = wire[c] /\ PendFrame(todo[c])' = PendFrame(todo[c])
             /\ wire'[c] \o PendFrame(todo[c])' = wire[c] \o PendFrame(todo[c])
             /\ ToShow(c)' = ToShow(c) /\ ~NoText(c) /\ IsSeq(wire'[c])
  <2>1. wire'[c] = wire[c] /\ shown'[c] = shown[c] \o e[2]
    BY <1>1, <1>4, <1>9
  <2>2. PendFrame(todo[c]) = Tail(t) /\ PendOut(todo[c]) = <<e[2]>>
    BY <1>2, <1>7, <1>9
  <2>3. <<e[2]>> # << >> /\ <<e[2]>>[1] = e[2]
    OBVIOUS
  <2>4. ToShow(c) = shown[c] \o e[2]
    BY <2>2, <2>3 DEF ToShow, Shows
  <2>5. ToShow(c)' = shown'[c]
    BY <1>8 DEF ToShow, Shows
  <2>6. ~NoText(c)
    BY <2>2, <2>3 DEF NoText
  <2> QED BY <1>6, <1>8, <2>1, <2>2, <2>4, <2>5, <2>6
<1>10. ASSUME ~IsDelta(e)
      PROVE  /\ PendFrame(todo[c]) # << >> /\ IsSeq(wire'[c])
             /\ wire'[c] \o PendFrame(todo[c])' = wire[c] \o PendFrame(todo[c])
             /\ ToShow(c)' = ToShow(c) /\ (NoText(c) => NoText(c)')
  <2>1. wire'[c] = Append(wire[c], e) /\ shown'[c] = shown[c]
    BY <1>1, <1>4, <1>10
  <2>2. PendFrame(todo[c]) = t /\ PendOut(todo[c]) = << >>
    BY <1>2, <1>7, <1>10
  <2>3. IsSeq(t)
    BY <1>6, <1>2, <2>2 DEF Plain
  <2>4. Append(wire[c], e) \o Tail(t) = wire[c] \o t
    BY <1>3, <1>5, <1>6, <2>3, ConcatFacts
  <2>5. IsSeq(wire'[c])
    BY <1>6, <2>1, AppendFacts
  <2>6. ToShow(c)' = ToShow(c) /\ (NoText(c) => NoText(c)')
    BY <1>8, <2>1, <2>2 DEF ToShow, Shows, NoText
  <2> QED BY <1>5, <1>8, <2>1, <2>2, <2>4, <2>5, <2>6
<1> QED BY <1>2, <1>3, <1>5, <1>7, <1>8, <1>9, <1>10

LEMMA WriteOrder ==
    ASSUME NEW c \in Client, JobsInv, Orderly(c), here[c], Write(c)
    PROVE  Orderly(c)'
<1>1. /\ todo[c] # << >> /\ todo'[c] = Tail(todo[c])
      /\ IsSeq(wire'[c]) /\ Plain(PendFrame(todo[c])')
      /\ PendOut(todo[c])' = << >>
      /\ wire'[c] \o PendFrame(todo[c])' = wire[c] \o PendFrame(todo[c])
      /\ ToShow(c)' = ToShow(c)
      /\ NoText(c) => NoText(c)'
      /\ IsDelta(Head(todo[c])) => wire'[c] = wire[c] /\ PendFrame(todo[c])' = PendFrame(todo[c])
      /\ ~IsDelta(Head(todo[c])) => PendFrame(todo[c]) # << >>
  BY WriteMoves DEF JobsInv
<1>2. /\ ask' = ask /\ at' = at /\ gate' = gate /\ inbox' = inbox
      /\ jobs' = jobs /\ Away
  BY DEF Write, Away, schedVars, engineVars
<1>3. (InJobs(c)' <=> InJobs(c)) /\ AnswerTo(c)' = AnswerTo(c) /\ lost' = lost
  BY <1>2 DEF InJobs, AnswerTo, Away
<1>4. /\ Gone(c)' <=> Gone(c)
      /\ Result(c)' <=> Result(c)
      /\ \A n : Sent(c, n)' <=> Sent(c, n)
      /\ Told(c)' <=> Told(c)
  BY <1>2, <1>3, AwayFacts
<1>5. Fresh(c) => Fresh(c)'
  BY <1>1, <1>2 DEF Fresh
<1>6. ASSUME at[c] = "waiting" PROVE Waiting(c)'
  <2>1. Waiting(c)
    BY <1>6 DEF Orderly
  <2>2. wire'[c] = wire[c] /\ PendFrame(todo[c])' = << >>
    BY <1>1, <2>1 DEF Waiting
  <2>3. ASSUME NEW k, Heard(c, k) PROVE Heard(c, k)'
    BY <1>1, <1>2, <1>3, <2>3 DEF Heard
  <2>4. ASSUME NEW k, NEW n, Carries(c, k, n) PROVE Carries(c, k, n)'
    BY <1>2, <1>3, <1>4, <2>4 DEF Carries
  <2>5. ASSUME ~Serve!TooLong(ask[c].req)
        PROVE  \E n \in 0 .. Len(AnswerTo(c)) : \E k \in 0 .. n :
                  Heard(c, k)' /\ Sent(c, n)' /\ Carries(c, k, n)'
    BY <1>4, <2>1, <2>3, <2>4, <2>5 DEF Waiting
  <2>6. Serve!TooLong(ask[c].req)' <=> Serve!TooLong(ask[c].req)
    BY <1>2 DEF Serve!TooLong
  <2>7. Serve!TooLong(ask[c].req) => NoText(c)' /\ gate'[c] = NewGate /\ Told(c)'
    BY <1>1, <1>2, <1>4, <2>1 DEF Waiting
  <2>8. Calls(ask'[c]) /\ IsSeq(inbox'[c]) /\ wire'[c] = Opening(ask'[c])
    BY <1>2, <2>1, <2>2 DEF Waiting
  <2> QED BY <1>3, <2>2, <2>5, <2>6, <2>7, <2>8 DEF Waiting
<1>7. ASSUME at[c] \in {"closing", "closed"} PROVE Finishing(c)'
  <2>1. Finishing(c)
    BY <1>7 DEF Orderly
  <2>2. \A e : Script(c, e) => Script(c, e)'
    BY <1>1, <1>2 DEF Script
  <2>3. \A n : Tells(c, n) => Tells(c, n)'
    BY <1>1, <1>2, <1>3 DEF Tells
  <2>4. Serve!TooLong(ask[c].req)' <=> Serve!TooLong(ask[c].req)
    BY <1>2 DEF Serve!TooLong
  <2> QED BY <1>1, <1>2, <1>3, <1>4, <2>1, <2>2, <2>3, <2>4 DEF Finishing
<1>8. at[c] # "absent"
  BY <1>1 DEF Orderly
<1>9. at[c] = "opening" => /\ Calls(ask'[c]) /\ Fresh(c)'
                           /\ wire'[c] \o PendFrame(todo[c])' = Opening(ask'[c])
  BY <1>1, <1>2, <1>5 DEF Orderly
<1> QED BY <1>1, <1>2, <1>6, <1>7, <1>8, <1>9 DEF Orderly

LEMMA SubmitOrder ==
    ASSUME NEW c \in Client, JobsInv, Orderly(c), Submit(c)
    PROVE  Orderly(c)'
<1>1. /\ DOMAIN at = Client /\ at[c] = "opening" /\ todo[c] = << >>
      /\ at' = [at EXCEPT ![c] = "waiting"]
      /\ ask' = ask /\ todo' = todo /\ wire' = wire /\ shown' = shown /\ gate' = gate
      /\ inbox' = inbox
  BY DEF Submit, JobsInv, TypeOK
<1>2. /\ (InJobs(c)' <=> (InJobs(c) \/ c = c)) /\ Gone(c) /\ c \notin lost /\ Away
  BY SubmitJobs
<1>3. Calls(ask[c]) /\ Fresh(c) /\ wire[c] \o PendFrame(todo[c]) = Opening(ask[c]) /\ IsSeq(wire[c])
  BY <1>1 DEF Orderly
<1>4. PendFrame(todo[c]) = << >> /\ PendOut(todo[c]) = << >>
  BY <1>1 DEF PendFrame, PendOut
<1>5. wire[c] = Opening(ask[c])
  BY <1>3, <1>4, SeqFacts
<1>6. inbox[c] = << >>
  BY <1>1 DEF JobsInv, TypeOK
<1>7. ~Result(c)' /\ ~InGroup(c)' /\ InJobs(c)'
  BY <1>2 DEF Result, Gone, InGroup, Away
<1>8. NoText(c)' /\ AnswerTo(c)' = AnswerTo(c) /\ ToShow(c)' = << >>
  BY <1>1, <1>3, <1>4 DEF Fresh, NoText, AnswerTo, ToShow, Shows
<1>9. ASSUME ~Serve!TooLong(ask[c].req)
      PROVE  /\ 0 \in 0 .. Len(AnswerTo(c)) /\ 0 \in 0 .. 0
             /\ Heard(c, 0)' /\ Sent(c, 0)' /\ Carries(c, 0, 0)'
  <2>1. PICK a : a = AnswerTo(c)
    OBVIOUS
  <2>2. Fits(ask[c].req)
    BY <1>3, <1>9, ClientAssumption DEF Calls, Fits
  <2>3. Len(a) \in Nat
    BY <2>1, <2>2, AnswerFacts DEF AnswerTo, Path
  <2>4. Heard(c, 0)'
    <3>1. Fed(a)[0] = [gate |-> NewGate, text |-> << >>]
      BY <2>3, FedFacts
    <3>2. Fed(a)[0].gate = NewGate /\ Fed(a)[0].text = << >>
      BY <3>1
    <3> QED BY <1>1, <1>3, <1>8, <2>1, <3>2 DEF Heard, Fresh
  <2>5. Sent(c, 0)'
    <3>1. \A i \in DOMAIN members' : members'[i] # c
      BY <1>7 DEF InGroup
    <3> QED BY <1>7, <3>1 DEF Sent
  <2>6. Carries(c, 0, 0)'
    BY <1>1, <1>6, <1>7 DEF Carries
  <2> QED BY <2>1, <2>3, <2>4, <2>5, <2>6
<1>10. Told(c)'
  <2>1. \A i \in DOMAIN members' : members'[i] # c
    BY <1>7 DEF InGroup
  <2> QED BY <1>1, <1>6, <2>1 DEF Told
<1>11. Serve!TooLong(ask[c].req)' <=> Serve!TooLong(ask[c].req)
  BY <1>1 DEF Serve!TooLong
<1>12. /\ ask'[c] = ask[c] /\ wire'[c] = wire[c] /\ gate'[c] = NewGate
       /\ PendFrame(todo[c])' = << >> /\ PendOut(todo[c])' = << >> /\ inbox'[c] = << >>
  BY <1>1, <1>3, <1>4, <1>6 DEF Fresh
<1>13. Waiting(c)'
  BY <1>3, <1>5, <1>8, <1>9, <1>10, <1>11, <1>12, PlainEmpty DEF Waiting
<1>14. at'[c] = "waiting"
  BY <1>1
<1> QED BY <1>3, <1>12, <1>13, <1>14, PlainEmpty DEF Orderly

LEMMA CloseOrder ==
    ASSUME NEW c \in Client, JobsInv, Orderly(c), Close(c)
    PROVE  Orderly(c)'
<1>1. /\ DOMAIN at = Client /\ at[c] = "closing" /\ at' = [at EXCEPT ![c] = "closed"]
      /\ ask' = ask /\ todo' = todo /\ wire' = wire /\ shown' = shown /\ gate' = gate
      /\ jobs' = jobs /\ Away
  BY DEF Close, JobsInv, TypeOK, Away, schedVars, engineVars
<1>2. InJobs(c)' <=> InJobs(c)
  BY <1>1 DEF InJobs
<1>3. (Gone(c)' <=> Gone(c)) /\ lost' = lost
  BY <1>1, <1>2, AwayFacts DEF Away
<1>4. Finishing(c)
  BY <1>1 DEF Orderly
<1>5. Finishing(c)'
  BY <1>1, <1>3, <1>4 DEF Finishing, NoText, Script, Tells, ToShow, AnswerTo, PendOut, PendFrame,
                          Serve!TooLong
<1>6. at'[c] = "closed"
  BY <1>1
<1>7. PendOut(todo[c])' = PendOut(todo[c]) /\ PendFrame(todo[c])' = PendFrame(todo[c])
  BY <1>1 DEF PendOut, PendFrame
<1> QED BY <1>1, <1>5, <1>6, <1>7 DEF Orderly

\* What stands in front in the channel of a client that waits for its answer.
LEMMA HeadOf ==
    ASSUME NEW c, IsSeq(inbox[c]), NEW n \in Nat, NEW k \in 0 .. n, Carries(c, k, n)
    PROVE  /\ k < n => inbox[c] # << >> /\ Head(inbox[c]) = Token(Text[AnswerTo(c)[k + 1]])
           /\ k = n /\ Result(c) =>
                inbox[c] # << >> /\ Head(inbox[c]) = Done(Gathered(AnswerTo(c)))
           /\ k = n /\ ~Result(c) => inbox[c] = << >>
<1>1. PICK m \in Nat : m = Len(inbox[c])
  BY SeqFacts
<1>2. /\ inbox[c] # << >> => Head(inbox[c]) = inbox[c][1]
      /\ m = 0 <=> inbox[c] = << >>
  <2>1. inbox[c] # << >> => Len(inbox[c]) # 0 /\ Head(inbox[c]) = inbox[c][1]
    BY SeqFacts
  <2>2. Len(inbox[c]) = 0 => inbox[c] = << >>
    BY SeqFacts
  <2> QED BY <1>1, <2>1, <2>2
<1>3. /\ m = (n - k) + (IF Result(c) THEN 1 ELSE 0)
      /\ \A i \in 1 .. n - k : inbox[c][i] = Token(Text[AnswerTo(c)[k + i]])
      /\ Result(c) => inbox[c][(n - k) + 1] = Done(Gathered(AnswerTo(c)))
  BY <1>1 DEF Carries
<1>4. ASSUME k < n
      PROVE  inbox[c] # << >> /\ Head(inbox[c]) = Token(Text[AnswerTo(c)[k + 1]])
  <2>1. 1 \in 1 .. n - k /\ m # 0
    BY <1>3, <1>4
  <2> QED BY <1>2, <1>3, <2>1
<1>5. ASSUME k = n PROVE n - k = 0 /\ (n - k) + 1 = 1
  BY <1>5
<1>6. ASSUME k = n, Result(c)
      PROVE  inbox[c] # << >> /\ Head(inbox[c]) = Done(Gathered(AnswerTo(c)))
  BY <1>2, <1>3, <1>5, <1>6
<1>7. ASSUME k = n, ~Result(c) PROVE inbox[c] = << >>
  BY <1>2, <1>3, <1>5, <1>7
<1> QED BY <1>4, <1>6, <1>7

\* The messages differ in their first component.
LEMMA Kinds ==
    ASSUME NEW x, NEW y
    PROVE  /\ Token(x)[1] = "token" /\ Done(x)[1] = "done" /\ Fail[1] = "fail"
           /\ Token(x) = Token(y) => x = y
           /\ Token(x) # Done(y) /\ Token(x) # Fail /\ Done(x) # Fail
<1>1. /\ Token(x)[1] = "token" /\ Done(x)[1] = "done" /\ Fail[1] = "fail"
      /\ Token(x)[2] = x /\ Token(y)[2] = y /\ Done(y)[1] = "done"
  BY DEF Token, Done, Fail
<1> QED BY <1>1

LEMMA HearTokenOrder ==
    ASSUME NEW c \in Client, JobsInv, Orderly(c), HearToken(c)
    PROVE  Orderly(c)'
<1>1. PICK p : /\ Head(inbox[c]) = Token(p)
               /\ IF ask[c].stream
                  THEN /\ gate' = [gate EXCEPT ![c] = push(gate[c], p).gate]
                       /\ todo' = [todo EXCEPT ![c] = Deltas(push(gate[c], p).out)]
                  ELSE gate' = gate /\ todo' = todo
  BY DEF HearToken
<1>2. /\ at[c] = "waiting" /\ todo[c] = << >> /\ inbox[c] # << >>
      /\ inbox' = [inbox EXCEPT ![c] = Tail(@)]
      /\ ask' = ask /\ at' = at /\ wire' = wire /\ shown' = shown /\ jobs' = jobs
      /\ Away
      /\ DOMAIN gate = Client /\ DOMAIN todo = Client /\ DOMAIN inbox = Client
  BY DEF HearToken, Reading, Away, schedVars, engineVars, JobsInv, TypeOK
<1>3. Waiting(c) /\ IsSeq(wire[c])
  BY <1>2 DEF Orderly
<1>4. (InJobs(c)' <=> InJobs(c)) /\ AnswerTo(c)' = AnswerTo(c)
  BY <1>2 DEF InJobs, AnswerTo
<1>5. (Result(c)' <=> Result(c)) /\ \A n : Sent(c, n)' <=> Sent(c, n)
  BY <1>2, <1>4, AwayFacts
<1>6. ~Serve!TooLong(ask[c].req)
  <2>1. ASSUME Serve!TooLong(ask[c].req) PROVE Head(inbox[c]) = Fail
    BY <1>2, <1>3, <2>1 DEF Waiting, Told
  <2> QED BY <1>1, <2>1, Kinds
<1>7. PICK n \in 0 .. Len(AnswerTo(c)) : \E k \in 0 .. n :
          Heard(c, k) /\ Sent(c, n) /\ Carries(c, k, n)
  BY <1>3, <1>6 DEF Waiting
<1>8. PICK k \in 0 .. n : Heard(c, k) /\ Sent(c, n) /\ Carries(c, k, n)
  BY <1>7
<1>9. IsSeq(inbox[c]) /\ Calls(ask[c]) /\ wire[c] = Opening(ask[c])
  BY <1>3 DEF Waiting
<1>10. Fits(ask[c].req)
  BY <1>6, <1>9, ClientAssumption DEF Calls, Fits
<1>11. PICK L \in Nat : L = Len(AnswerTo(c))
  BY <1>10, AnswerFacts DEF AnswerTo, Path
<1>12. n \in Nat /\ k \in Nat /\ n <= L
  BY <1>7, <1>8, <1>11
<1>13. k < n /\ p = Text[AnswerTo(c)[k + 1]]
  <2>1. k < n => Head(inbox[c]) = Token(Text[AnswerTo(c)[k + 1]])
    BY <1>8, <1>9, <1>12, HeadOf
  <2>2. k = n => inbox[c] = << >> \/ Head(inbox[c]) = Done(Gathered(AnswerTo(c)))
    BY <1>8, <1>9, <1>12, HeadOf
  <2>3. k # n
    BY <1>1, <1>2, <2>2, Kinds
  <2>4. k < n
    BY <1>8, <1>12, <2>3
  <2> QED BY <1>1, <2>1, <2>4, Kinds
<1>14. k + 1 \in 0 .. n /\ k + 1 \in 1 .. L
  BY <1>12, <1>13
<1>15. PendOut(todo[c]) = << >> /\ PendFrame(todo[c]) = << >>
  BY <1>2 DEF PendOut, PendFrame
<1>16. /\ Heard(c, k + 1)'
       /\ PendFrame(todo[c])' = << >>
  <2>1. CASE ask[c].stream
    <3>1. PICK g : g = gate[c]
      OBVIOUS
    <3>2. PICK out : out = push(g, p).out
      OBVIOUS
    <3>3. gate'[c] = push(g, p).gate /\ todo'[c] = Deltas(out)
      BY <1>1, <1>2, <2>1, <3>1, <3>2
    <3>4. out = << >> \/ \E x : out = <<x>>
      BY <3>2, OneText
    <3>5. PendOut(todo[c])' = out /\ PendFrame(todo[c])' = << >>
      <4>1. PendOut(Deltas(out)) = out /\ PendFrame(Deltas(out)) = << >>
        BY <3>4, PlainEmpty, DeltaFacts
      <4> QED BY <3>3, <4>1
    <3>6. PICK a : a = AnswerTo(c)
      OBVIOUS
    <3>7. g = Fed(a)[k].gate /\ shown[c] = Fed(a)[k].text
      BY <1>8, <1>15, <2>1, <3>1, <3>6 DEF Heard, ToShow, Shows
    <3>8. /\ Fed(a)[k + 1].gate = push(g, p).gate
          /\ Fed(a)[k + 1].text = Shows(shown[c], out)
      <4>1. (k + 1) - 1 = k
        BY <1>12
      <4>2. /\ Fed(a)[k + 1].gate = push(Fed(a)[(k + 1) - 1].gate, Text[a[k + 1]]).gate
            /\ Fed(a)[k + 1].text = Shows(Fed(a)[(k + 1) - 1].text,
                                          push(Fed(a)[(k + 1) - 1].gate, Text[a[k + 1]]).out)
        BY <1>11, <1>14, <3>6, FedFacts
      <4> QED BY <1>13, <3>2, <3>6, <3>7, <4>1, <4>2
    <3>9. ToShow(c)' = Shows(shown[c], out)
      BY <1>2, <3>5 DEF ToShow
    <3> QED BY <1>2, <1>4, <2>1, <3>3, <3>5, <3>6, <3>8, <3>9 DEF Heard
  <2>2. CASE ~ask[c].stream
    <3>1. todo' = todo
      BY <1>1, <2>2
    <3>2. NoText(c)' /\ PendFrame(todo[c])' = << >>
      BY <1>2, <1>8, <1>15, <2>2, <3>1 DEF Heard, NoText
    <3> QED BY <1>2, <2>2, <3>2 DEF Heard
  <2> QED BY <2>1, <2>2
<1>17. Carries(c, k + 1, n)' /\ IsSeq(inbox'[c])
  <2>1. PICK s : s = inbox[c]
    OBVIOUS
  <2>2. inbox'[c] = Tail(s) /\ IsSeq(s) /\ s # << >>
    BY <1>2, <1>9, <2>1
  <2>3. /\ Len(s) \in Nat /\ IsSeq(Tail(s)) /\ Len(Tail(s)) = Len(s) - 1
        /\ \A i \in 1 .. Len(s) - 1 : Tail(s)[i] = s[i + 1]
    BY <2>2, SeqFacts
  <2>4. /\ Len(s) = (n - k) + (IF Result(c) THEN 1 ELSE 0)
        /\ \A i \in 1 .. n - k : s[i] = Token(Text[AnswerTo(c)[k + i]])
        /\ Result(c) => s[(n - k) + 1] = Done(Gathered(AnswerTo(c)))
    BY <1>8, <2>1 DEF Carries
  <2>5. Len(Tail(s)) = (n - (k + 1)) + (IF Result(c) THEN 1 ELSE 0)
    BY <1>12, <1>13, <2>3, <2>4
  <2>6. ASSUME NEW i \in 1 .. n - (k + 1)
        PROVE  Tail(s)[i] = Token(Text[AnswerTo(c)[(k + 1) + i]])
    <3>1. i + 1 \in 1 .. n - k /\ i \in 1 .. Len(s) - 1 /\ k + (i + 1) = (k + 1) + i
      BY <1>12, <1>13, <2>3, <2>4
    <3> QED BY <2>3, <2>4, <3>1
  <2>7. ASSUME Result(c)
        PROVE  Tail(s)[(n - (k + 1)) + 1] = Done(Gathered(AnswerTo(c)))
    <3>1. /\ (n - (k + 1)) + 1 \in 1 .. Len(s) - 1
          /\ ((n - (k + 1)) + 1) + 1 = (n - k) + 1
      BY <1>12, <1>13, <2>3, <2>4, <2>7
    <3> QED BY <2>3, <2>4, <2>7, <3>1
  <2> QED BY <1>4, <1>5, <2>2, <2>3, <2>5, <2>6, <2>7 DEF Carries
<1>18. Serve!TooLong(ask[c].req)' <=> Serve!TooLong(ask[c].req)
  BY <1>2 DEF Serve!TooLong
<1>19. Sent(c, n)'
  BY <1>5, <1>8
<1>20. Waiting(c)'
  <2>1. \E m \in 0 .. Len(AnswerTo(c)') : \E j \in 0 .. m :
           Heard(c, j)' /\ Sent(c, m)' /\ Carries(c, j, m)'
    BY <1>4, <1>7, <1>14, <1>16, <1>17, <1>19
  <2>2. /\ Calls(ask'[c]) /\ IsSeq(inbox'[c]) /\ wire'[c] = Opening(ask'[c])
        /\ PendFrame(todo[c])' = << >>
    BY <1>2, <1>9, <1>16, <1>17
  <2> QED BY <1>6, <1>18, <2>1, <2>2 DEF Waiting
<1>21. wire'[c] = Opening(ask'[c]) /\ at'[c] = "waiting" /\ IsSeq(wire'[c])
  BY <1>2, <1>3, <1>9
<1> QED BY <1>16, <1>20, <1>21, PlainEmpty DEF Orderly

\* The end of a response: what the gate still holds, and the last events.
LEMMA EndFacts ==
    ASSUME NEW c \in Client, JobsInv, Orderly(c), Reading(c),
           NEW last, Plain(last), EndsWith(c, last)
    PROVE  /\ at'[c] = "closing" /\ ask'[c] = ask[c] /\ wire'[c] = wire[c]
           /\ wire[c] = Opening(ask[c]) /\ Waiting(c) /\ IsSeq(wire'[c])
           /\ Away /\ jobs' = jobs
           /\ PendFrame(todo[c])' = last /\ Script(c, last)'
           /\ \A n : Heard(c, n) => Tells(c, n)'
           /\ Fresh(c) => NoText(c)'
<1>1. /\ at[c] = "waiting" /\ todo[c] = << >>
      /\ at' = [at EXCEPT ![c] = "closing"]
      /\ ask' = ask /\ wire' = wire /\ shown' = shown /\ gate' = gate /\ jobs' = jobs /\ Away
      /\ DOMAIN at = Client /\ DOMAIN todo = Client
  BY DEF EndsWith, Reading, Away, schedVars, engineVars, JobsInv, TypeOK
<1>2. Waiting(c) /\ wire[c] = Opening(ask[c]) /\ IsSeq(wire[c])
  BY <1>1 DEF Orderly, Waiting
<1>3. PICK out : out = IF ask[c].stream THEN flush(gate[c]) ELSE << >>
  OBVIOUS
<1>4. todo'[c] = Deltas(out) \o last
  <2>1. todo'[c] = (IF ask[c].stream THEN Deltas(flush(gate[c])) ELSE << >>) \o last
    BY <1>1 DEF EndsWith
  <2>2. Deltas(<< >>) = << >>
    BY DEF Deltas
  <2> QED BY <1>3, <2>1, <2>2
<1>5. out = << >> \/ \E x : out = <<x>>
  BY <1>3, OneText
<1>6. PendOut(todo[c])' = out /\ PendFrame(todo[c])' = last
  <2>1. PendOut(Deltas(out) \o last) = out /\ PendFrame(Deltas(out) \o last) = last
    BY <1>5, DeltaFacts
  <2> QED BY <1>4, <2>1
<1>7. ToShow(c) = shown[c] /\ PendOut(todo[c]) = << >>
  BY <1>1 DEF ToShow, PendOut, Shows
<1>8. ToShow(c)' = Shows(shown[c], out)
  BY <1>1, <1>6 DEF ToShow
<1>9. ASSUME NEW n, Heard(c, n) PROVE Tells(c, n)'
  <2>1. AnswerTo(c)' = AnswerTo(c)
    BY <1>1 DEF AnswerTo
  <2>2. CASE ask[c].stream
    <3>1. PICK a : a = AnswerTo(c)
      OBVIOUS
    <3>2. gate[c] = Fed(a)[n].gate /\ shown[c] = Fed(a)[n].text
      BY <1>7, <1>9, <2>2, <3>1 DEF Heard
    <3>3. Streamed(a, n) = Shows(shown[c], out)
      BY <1>3, <2>2, <3>2 DEF Streamed
    <3> QED BY <1>1, <1>8, <2>1, <2>2, <3>1, <3>3 DEF Tells
  <2>3. CASE ~ask[c].stream
    BY <1>1, <1>3, <1>6, <1>9, <2>3 DEF Tells, Heard, NoText
  <2> QED BY <2>2, <2>3
<1>10. ASSUME Fresh(c) PROVE NoText(c)'
  <2>1. out = << >>
    BY <1>3, <1>10, OneText DEF Fresh
  <2> QED BY <1>1, <1>6, <1>10, <2>1 DEF Fresh, NoText
<1>11. Script(c, last)'
  BY <1>1, <1>2, <1>6 DEF Script
<1>12. at'[c] = "closing"
  BY <1>1
<1> QED BY <1>1, <1>2, <1>6, <1>9, <1>10, <1>11, <1>12

LEMMA EndOrder ==
    ASSUME NEW c \in Client, JobsInv, Orderly(c), Reading(c),
           NEW last, Plain(last), EndsWith(c, last),
           IF Serve!TooLong(ask[c].req) THEN last = Errors(ask[c])
           ELSE /\ Gone(c)
                /\ IF c \in lost
                   THEN /\ last = Errors(ask[c])
                        /\ \E n \in 0 .. Len(AnswerTo(c)) : Heard(c, n)
                   ELSE /\ last = IF ask[c].stream THEN Closing(ask[c])
                                  ELSE Whole(Gathered(AnswerTo(c)))
                        /\ Heard(c, Len(AnswerTo(c)))
    PROVE  Orderly(c)'
<1>1. /\ at'[c] = "closing" /\ ask'[c] = ask[c] /\ wire'[c] = wire[c]
      /\ wire[c] = Opening(ask[c]) /\ Waiting(c) /\ IsSeq(wire'[c])
      /\ Away /\ jobs' = jobs
      /\ PendFrame(todo[c])' = last /\ Script(c, last)'
      /\ \A n : Heard(c, n) => Tells(c, n)'
      /\ Fresh(c) => NoText(c)'
  BY EndFacts
<1>2. (InJobs(c)' <=> InJobs(c)) /\ AnswerTo(c)' = AnswerTo(c) /\ lost' = lost
  BY <1>1 DEF InJobs, AnswerTo, Away
<1>3. Gone(c)' <=> Gone(c)
  BY <1>1, <1>2, AwayFacts
<1>4. Serve!TooLong(ask[c].req)' <=> Serve!TooLong(ask[c].req)
  BY <1>1 DEF Serve!TooLong
<1>5. Calls(ask[c]) /\ (Serve!TooLong(ask[c].req) => Fresh(c))
  BY <1>1 DEF Waiting, Fresh
<1>6. ASSUME Serve!TooLong(ask[c].req) PROVE Finishing(c)'
  BY <1>1, <1>4, <1>5, <1>6 DEF Finishing, Calls
<1>7. ASSUME ~Serve!TooLong(ask[c].req), c \in lost PROVE Finishing(c)'
  <2>1. Script(c, Errors(ask[c]))' /\ Gone(c)'
    BY <1>1, <1>3, <1>7
  <2>2. \E n \in 0 .. Len(AnswerTo(c)) : Tells(c, n)'
    BY <1>1, <1>7
  <2> QED BY <1>1, <1>2, <1>4, <1>5, <1>7, <2>1, <2>2 DEF Finishing, Calls
<1>8. ASSUME ~Serve!TooLong(ask[c].req), c \notin lost PROVE Finishing(c)'
  <2>1. PICK w : w = IF ask[c].stream THEN Closing(ask[c]) ELSE Whole(Gathered(AnswerTo(c)))
    OBVIOUS
  <2>2. last = w /\ Gone(c)' /\ Tells(c, Len(AnswerTo(c)))'
    BY <1>1, <1>2, <1>3, <1>8, <2>1
  <2>3. (wire[c] \o PendFrame(todo[c]))' = Opening(ask'[c]) \o w
    BY <1>1, <2>2 DEF Script
  <2>4. Script(c, IF ask[c].stream THEN Closing(ask[c]) ELSE Whole(Gathered(AnswerTo(c))))'
    BY <1>1, <1>2, <2>1, <2>3 DEF Script
  <2> QED BY <1>1, <1>2, <1>4, <1>5, <1>8, <2>2, <2>4 DEF Finishing, Calls
<1>9. Finishing(c)'
  BY <1>6, <1>7, <1>8
<1> QED BY <1>1, <1>9 DEF Orderly

LEMMA HearDoneOrder ==
    ASSUME NEW c \in Client, JobsInv, Orderly(c), HearDone(c)
    PROVE  Orderly(c)'
<1>1. PICK last : /\ last = IF ask[c].stream THEN Closing(ask[c]) ELSE Whole(Head(inbox[c])[2])
                  /\ EndsWith(c, last)
  BY DEF HearDone
<1>2. /\ Reading(c) /\ inbox[c] # << >> /\ Head(inbox[c])[1] = "done" /\ at[c] = "waiting"
  BY DEF HearDone, Reading
<1>3. Waiting(c)
  BY <1>2 DEF Orderly
<1>4. Calls(ask[c]) /\ ask[c] \in Asks /\ IsSeq(inbox[c])
  BY <1>3 DEF Waiting, Calls
<1>5. Plain(last)
  BY <1>1, <1>4, ScriptsPlain
<1>6. ~Serve!TooLong(ask[c].req)
  <2>1. Serve!TooLong(ask[c].req) => Head(inbox[c]) = Fail
    BY <1>2, <1>3 DEF Waiting, Told
  <2> QED BY <1>2, <2>1, Kinds
<1>7. PICK n \in 0 .. Len(AnswerTo(c)) : \E k \in 0 .. n :
          Heard(c, k) /\ Sent(c, n) /\ Carries(c, k, n)
  BY <1>3, <1>6 DEF Waiting
<1>8. PICK k \in 0 .. n : Heard(c, k) /\ Sent(c, n) /\ Carries(c, k, n)
  BY <1>7
<1>9. /\ k < n => Head(inbox[c]) = Token(Text[AnswerTo(c)[k + 1]])
      /\ k = n /\ Result(c) => Head(inbox[c]) = Done(Gathered(AnswerTo(c)))
      /\ k = n /\ ~Result(c) => inbox[c] = << >>
  <2>1. n \in Nat
    BY <1>7
  <2> QED BY <1>4, <1>8, <2>1, HeadOf
<1>10. k = n
  <2>1. ~(k < n)
    BY <1>2, <1>9, Kinds
  <2>2. k \in Nat /\ n \in Nat /\ k <= n
    BY <1>7, <1>8
  <2> QED BY <2>1, <2>2
<1>11. Result(c) /\ Head(inbox[c]) = Done(Gathered(AnswerTo(c)))
  BY <1>2, <1>9, <1>10
<1>12. n = Len(AnswerTo(c))
  BY <1>8, <1>11 DEF Sent
<1>13. Head(inbox[c])[2] = Gathered(AnswerTo(c))
  BY <1>11 DEF Done
<1>14. Gone(c) /\ c \notin lost
  BY <1>11 DEF Result
<1>15. /\ last = IF ask[c].stream THEN Closing(ask[c]) ELSE Whole(Gathered(AnswerTo(c)))
       /\ Heard(c, Len(AnswerTo(c)))
  BY <1>1, <1>8, <1>10, <1>12, <1>13
<1> QED BY <1>1, <1>2, <1>5, <1>6, <1>14, <1>15, EndOrder

LEMMA HearFailOrder ==
    ASSUME NEW c \in Client, JobsInv, Orderly(c), HearFail(c)
    PROVE  Orderly(c)'
<1>1. PICK last : last = Errors(ask[c]) /\ EndsWith(c, last)
  BY DEF HearFail
<1>2. /\ Reading(c) /\ at[c] = "waiting"
      /\ IF inbox[c] = << >> THEN ~sender[c] ELSE Head(inbox[c]) = Fail
  BY DEF HearFail, Reading
<1>3. Waiting(c)
  BY <1>2 DEF Orderly
<1>4. Calls(ask[c]) /\ ask[c] \in Asks /\ IsSeq(inbox[c])
  BY <1>3 DEF Waiting, Calls
<1>5. Plain(last)
  BY <1>1, <1>4, ScriptsPlain
<1>6. ASSUME ~Serve!TooLong(ask[c].req)
      PROVE  Gone(c) /\ c \in lost /\ \E n \in 0 .. Len(AnswerTo(c)) : Heard(c, n)
  <2>1. PICK n \in 0 .. Len(AnswerTo(c)) : \E k \in 0 .. n :
            Heard(c, k) /\ Sent(c, n) /\ Carries(c, k, n)
    BY <1>3, <1>6 DEF Waiting
  <2>2. PICK k \in 0 .. n : Heard(c, k) /\ Sent(c, n) /\ Carries(c, k, n)
    BY <2>1
  <2>3. /\ k < n => inbox[c] # << >> /\ Head(inbox[c]) = Token(Text[AnswerTo(c)[k + 1]])
        /\ k = n /\ Result(c) =>
             inbox[c] # << >> /\ Head(inbox[c]) = Done(Gathered(AnswerTo(c)))
    <3>1. n \in Nat
      BY <2>1
    <3> QED BY <1>4, <2>2, <3>1, HeadOf
  <2>4. k = n
    <3>1. ~(k < n)
      BY <1>2, <2>3, Kinds
    <3>2. k \in Nat /\ n \in Nat /\ k <= n
      BY <2>1, <2>2
    <3> QED BY <3>1, <3>2
  <2>5. ~Result(c)
    BY <1>2, <2>3, <2>4, Kinds
  <2>6. inbox[c] = << >>
    BY <1>4, <2>1, <2>2, <2>4, <2>5, HeadOf
  <2>7. ~sender[c]
    BY <1>2, <2>6
  <2>8. Gone(c)
    BY <2>7 DEF JobsInv, JobInv, Gone
  <2> QED BY <2>1, <2>2, <2>4, <2>5, <2>8 DEF Result
<1> QED BY <1>1, <1>2, <1>5, <1>6, EndOrder

-----------------------------------------------------------------------------
(* Every step of a connection thread *)

LEMMA ConnOthers ==
    ASSUME NEW c \in Client, NEW d \in Client, d # c, TypeOK,
           Accept(c) \/ NoRequest(c) \/ HangUp(c) \/ Connection(c)
    PROVE  Same(d) /\ here'[d] = here[d]
<1> USE DEF TypeOK, Same
<1>1. ASSUME Accept(c) PROVE Same(d) /\ here'[d] = here[d]
  BY <1>1 DEF Accept
<1>2. ASSUME NoRequest(c) PROVE Same(d) /\ here'[d] = here[d]
  BY <1>2 DEF NoRequest
<1>3. ASSUME HangUp(c) PROVE Same(d) /\ here'[d] = here[d]
  BY <1>3 DEF HangUp
<1>4. ASSUME Connection(c) PROVE Same(d) /\ here'[d] = here[d]
  <2>1. ASSUME Write(c) PROVE Same(d) /\ here'[d] = here[d]
    BY <2>1 DEF Write
  <2>2. ASSUME WriteFails(c) PROVE Same(d) /\ here'[d] = here[d]
    BY <2>2 DEF WriteFails
  <2>3. ASSUME Submit(c) PROVE Same(d) /\ here'[d] = here[d]
    BY <2>3 DEF Submit
  <2>4. ASSUME Close(c) PROVE Same(d) /\ here'[d] = here[d]
    BY <2>4 DEF Close
  <2>5. ASSUME HearToken(c) PROVE Same(d) /\ here'[d] = here[d]
    BY <2>5 DEF HearToken
  <2>6. ASSUME NEW last, EndsWith(c, last) PROVE Same(d) /\ here'[d] = here[d]
    BY <2>6 DEF EndsWith
  <2> QED BY <1>4, <2>1, <2>2, <2>3, <2>4, <2>5, <2>6 DEF Connection, HearDone, HearFail
<1> QED BY <1>1, <1>2, <1>3, <1>4

LEMMA ConnStep ==
    ASSUME NEW c \in Client, ServerInv,
           Accept(c) \/ NoRequest(c) \/ HangUp(c) \/ Connection(c)
    PROVE  ServerInv'
<1>1. JobsInv /\ TypeOK /\ \A d \in Client : here[d] => Orderly(d)
  BY DEF ServerInv, JobsInv
<1>2. /\ QueueInv' /\ JobInv' /\ GroupInv' /\ Away
      /\ \A d \in Client : d # c => (InJobs(d)' <=> InJobs(d))
  <2>1. CASE Submit(c)
    BY <1>1, <2>1, SubmitJobs
  <2>2. CASE ~Submit(c)
    <3>1. QueueInv' /\ JobInv' /\ GroupInv' /\ Away /\ jobs' = jobs
      BY <1>1, <2>2, ConnJobs
    <3> QED BY <3>1 DEF InJobs
  <2> QED BY <2>1, <2>2
<1>3. JobsInv'
  <2>1. jobs' \in Seq(Client)
    BY <1>2 DEF QueueInv
  <2>2. TypeOK'
    BY <1>1, <2>1, ConnTypes
  <2> QED BY <1>2, <2>2 DEF JobsInv
<1>4. ASSUME NEW d \in Client, d # c, here'[d] PROVE Orderly(d)'
  <2>1. Same(d) /\ here[d]
    BY <1>1, <1>4, ConnOthers
  <2> QED BY <1>1, <1>2, <1>4, <2>1, OthersKept
<1>5. ASSUME here'[c] PROVE Orderly(c)'
  <2>1. here[c] /\ ~NoRequest(c) /\ ~HangUp(c) /\ ~WriteFails(c)
    <3>1. NoRequest(c) \/ HangUp(c) => here' = [here EXCEPT ![c] = FALSE]
      BY DEF NoRequest, HangUp
    <3>2. WriteFails(c) => ~here[c] /\ here' = here
      BY DEF WriteFails
    <3>3. DOMAIN here = Client
      BY <1>1 DEF TypeOK
    <3>4. ~NoRequest(c) /\ ~HangUp(c)
      BY <1>5, <3>1, <3>3
    <3>5. ~WriteFails(c)
      BY <1>5, <3>2
    <3>6. here' = here
      BY <3>4, <3>5 DEF Accept, Connection, Write, Submit, Close, HearToken, HearDone,
                        HearFail, EndsWith
    <3> QED BY <1>5, <3>4, <3>5, <3>6
  <2>2. Orderly(c)
    BY <1>1, <2>1
  <2> QED BY <1>1, <2>1, <2>2, AcceptOrder, WriteOrder, SubmitOrder, CloseOrder,
             HearTokenOrder, HearDoneOrder, HearFailOrder DEF Connection
<1> QED BY <1>3, <1>4, <1>5 DEF ServerInv

-----------------------------------------------------------------------------
(* A step of the scheduler *)

\* The clients of a group that is served, and their slots.
LEMMA GroupFacts ==
    ASSUME JobsInv, InHand
    PROVE  \E n \in 1 .. NSeq :
              /\ DOMAIN group = 0 .. n - 1 /\ Cardinality(DOMAIN group) = n
              /\ members \in Seq(Client) /\ Len(members) \in 1 .. n
              /\ DOMAIN members = 1 .. Len(members)
              /\ sched = "serve" => Len(members) = n
              /\ \A i \in DOMAIN members : /\ SlotOf(i) = (n - Len(members)) + (i - 1)
                                           /\ SlotOf(i) \in 0 .. n - 1
<1>1. QueueInv /\ GroupInv /\ NSeq \in Nat
  BY ServeAssumption DEF JobsInv
<1>2. PICK n \in 1 .. NSeq : DOMAIN group = 0 .. n - 1
  BY <1>1 DEF GroupInv
<1>3. Cardinality(DOMAIN group) = n
  <2>1. n \in Int /\ 0 \in Int /\ n - 1 \in Int /\ ~(0 > n - 1)
    BY <1>1, <1>2
  <2>2. Cardinality(0 .. n - 1) = (n - 1) - 0 + 1
    BY <2>1, FS_Interval
  <2> QED BY <1>2, <2>1, <2>2
<1>4. members \in Seq(Client) /\ members # << >>
  BY <1>1 DEF QueueInv, InHand
<1>5. Len(members) <= n /\ (sched = "serve" => Len(members) = n)
  BY <1>1, <1>3 DEF GroupInv
<1>6. Len(members) \in 1 .. n /\ DOMAIN members = 1 .. Len(members)
  BY <1>2, <1>4, <1>5
<1>7. ASSUME NEW i \in DOMAIN members
      PROVE  /\ SlotOf(i) = (n - Len(members)) + (i - 1)
             /\ SlotOf(i) \in 0 .. n - 1
  <2>1. SlotOf(i) = (n - Len(members)) + (i - 1)
    BY <1>3 DEF SlotOf
  <2> QED BY <1>2, <1>6, <2>1
<1> QED BY <1>2, <1>3, <1>4, <1>5, <1>6, <1>7

LEMMA SchedSame ==
    ASSUME NEW d, connVars' = connVars
    PROVE  /\ here'[d] = here[d]
           /\ inbox'[d] = inbox[d] => Same(d)
BY DEF connVars, Same

LEMMA TakeStep ==
    ASSUME ServerInv, TakeFirst \/ TakeWaiting, slots' = slots
    PROVE  ServerInv'
<1>1. TypeOK /\ QueueInv /\ JobInv /\ \A d \in Client : here[d] => Orderly(d)
  BY DEF ServerInv, JobsInv
<1>2. jobs \in Seq(Client) /\ members \in Seq(Client) /\ slots \in 1 .. NSeq /\ NSeq \in Nat
  BY <1>1, ServeAssumption DEF QueueInv, TypeOK
<1>3. /\ jobs # << >> /\ jobs' = Tail(jobs) /\ sched' = "window" /\ sched \in {"recv", "window"}
      /\ members' = Append(members, Head(jobs)) /\ Len(members) < slots
      /\ connVars' = connVars /\ inbox' = inbox /\ sender' = sender /\ lost' = lost
  <2>1. ASSUME TakeFirst
        PROVE  members' = Append(members, Head(jobs)) /\ Len(members) < slots
    <3>1. members = << >> /\ members' = <<Head(jobs)>>
      BY <1>1, <2>1 DEF TakeFirst, QueueInv
    <3>2. Append(members, Head(jobs)) = <<Head(jobs)>> /\ Len(members) = 0
      BY <3>1
    <3> QED BY <1>2, <3>1, <3>2
  <2>2. ASSUME TakeWaiting
        PROVE  members' = Append(members, Head(jobs)) /\ Len(members) < slots
    BY <2>2 DEF TakeWaiting
  <2> QED BY <2>1, <2>2 DEF TakeFirst, TakeWaiting
<1>4. PICK h \in Client : h = Head(jobs) /\ h = jobs[1]
  BY <1>2, <1>3
<1>5. /\ Len(jobs) \in Nat \ {0} /\ DOMAIN jobs = 1 .. Len(jobs)
      /\ DOMAIN jobs' = 1 .. Len(jobs) - 1
      /\ jobs' \in Seq(Client)
      /\ \A i \in DOMAIN jobs' : i + 1 \in DOMAIN jobs /\ jobs'[i] = jobs[i + 1]
  BY <1>2, <1>3
<1>6. /\ Len(members) \in Nat /\ DOMAIN members = 1 .. Len(members)
      /\ members' \in Seq(Client) /\ Len(members') = Len(members) + 1
      /\ DOMAIN members' = 1 .. Len(members) + 1
      /\ \A i \in 1 .. Len(members) : members'[i] = members[i]
      /\ members'[Len(members) + 1] = h
  BY <1>2, <1>3, <1>4
<1>7. /\ \A i, j \in DOMAIN jobs : jobs[i] = jobs[j] => i = j
      /\ \A i, j \in DOMAIN members : members[i] = members[j] => i = j
      /\ \A i \in DOMAIN jobs, j \in DOMAIN members : jobs[i] # members[j]
  BY <1>1 DEF QueueInv
<1>8. 1 \in DOMAIN jobs /\ \A j \in DOMAIN members : members[j] # h
  BY <1>4, <1>5, <1>7
<1>9. ASSUME NEW i \in DOMAIN members'
      PROVE  (i \in DOMAIN members /\ members'[i] = members[i]) \/ (i = Len(members) + 1 /\ members'[i] = h)
  BY <1>6
<1>10. \A i \in DOMAIN jobs' : jobs'[i] # h
  <2> SUFFICES ASSUME NEW i \in DOMAIN jobs', jobs'[i] = h PROVE FALSE
    OBVIOUS
  <2>1. i + 1 \in DOMAIN jobs /\ jobs[i + 1] = jobs[1] /\ i \in Nat \ {0}
    BY <1>4, <1>5
  <2> QED BY <1>7, <1>8, <2>1
<1>11. QueueInv'
  <2>1. ASSUME NEW i \in DOMAIN jobs', NEW j \in DOMAIN jobs', jobs'[i] = jobs'[j] PROVE i = j
    <3>1. i + 1 = j + 1 /\ i \in Int /\ j \in Int
      BY <1>5, <1>7, <2>1
    <3> QED BY <3>1
  <2>2. \A i, j \in DOMAIN members' : members'[i] = members'[j] => i = j
    BY <1>7, <1>8, <1>9
  <2>3. \A i \in DOMAIN jobs', j \in DOMAIN members' : jobs'[i] # members'[j]
    BY <1>5, <1>7, <1>9, <1>10
  <2>4. members' # << >>
    BY <1>6
  <2> QED BY <1>3, <1>5, <1>6, <2>1, <2>2, <2>3, <2>4 DEF QueueInv
<1>12. ASSUME NEW d PROVE InJobs(d)' \/ InGroup(d)' <=> InJobs(d) \/ InGroup(d)
  <2>1. ASSUME InJobs(d) PROVE InJobs(d)' \/ InGroup(d)'
    <3>1. PICK i \in DOMAIN jobs : jobs[i] = d
      BY <2>1 DEF InJobs
    <3>2. CASE i = 1
      BY <1>4, <1>6, <3>1, <3>2 DEF InGroup
    <3>3. CASE i # 1
      <4>1. i - 1 \in DOMAIN jobs' /\ (i - 1) + 1 = i
        BY <1>5, <3>3
      <4> QED BY <1>5, <3>1, <4>1 DEF InJobs
    <3> QED BY <3>2, <3>3
  <2>2. ASSUME InGroup(d) PROVE InGroup(d)'
    BY <1>6, <2>2 DEF InGroup
  <2>3. ASSUME InJobs(d)' PROVE InJobs(d)
    BY <1>5, <2>3 DEF InJobs
  <2>4. ASSUME InGroup(d)' PROVE InJobs(d) \/ InGroup(d)
    BY <1>4, <1>8, <1>9, <2>4 DEF InGroup, InJobs
  <2> QED BY <2>1, <2>2, <2>3, <2>4
<1>13. \A d : (Gone(d)' <=> Gone(d)) /\ (Result(d)' <=> Result(d))
  BY <1>3, <1>12 DEF Gone, Result
<1>14. ask' = ask /\ at' = at /\ here' = here
  BY <1>3 DEF connVars
<1>15. JobInv'
  BY <1>1, <1>3, <1>12, <1>13, <1>14 DEF JobInv
<1>16. ~InHand /\ ~InHand'
  BY <1>3 DEF InHand
<1>17. GroupInv'
  BY <1>16 DEF GroupInv
<1>18. TypeOK'
  <2>1. Len(members') <= slots'
    BY <1>2, <1>3, <1>6
  <2>2. /\ todo' = todo /\ wire' = wire /\ shown' = shown /\ gate' = gate
    BY <1>3 DEF connVars
  <2> QED BY <1>1, <1>3, <1>5, <1>14, <2>1, <2>2 DEF TypeOK
<1>19. ASSUME NEW d \in Client, here'[d] PROVE Orderly(d)'
  <2>1. Same(d) /\ Orderly(d)
    BY <1>1, <1>3, <1>14, <1>19, SchedSame
  <2>2. ASSUME at[d] = "waiting", Serve!TooLong(ask[d].req) PROVE Told(d)'
    <3>1. Told(d)
      BY <2>1, <2>2 DEF Orderly, Waiting
    <3> QED BY <1>3, <1>16, <3>1 DEF Told
  <2>3. AnswerTo(d)' = AnswerTo(d)
    BY <1>14 DEF AnswerTo
  <2>4. ASSUME NEW n, Sent(d, n) PROVE Sent(d, n)'
    BY <1>12, <1>13, <1>16, <2>3, <2>4 DEF Sent
  <2> QED BY <1>3, <1>13, <2>1, <2>2, <2>4, OrderlyKept
<1> QED BY <1>11, <1>15, <1>17, <1>18, <1>19 DEF ServerInv, JobsInv

\* The request of a client that is served.
LEMMA MemberCalls ==
    ASSUME JobsInv, NEW i \in DOMAIN members
    PROVE  /\ members[i] \in Client /\ InGroup(members[i]) /\ ~InJobs(members[i])
           /\ ask[members[i]] \in Asks /\ ask[members[i]].req \in Requests
           /\ members[i] \notin lost /\ ~Gone(members[i])
<1>1. members[i] \in Client /\ InGroup(members[i]) /\ ~InJobs(members[i])
  BY DEF JobsInv, QueueInv, InGroup, InJobs
<1>2. Calls(ask[members[i]]) /\ members[i] \notin lost
  BY <1>1 DEF JobsInv, JobInv, Gone
<1> QED BY <1>1, <1>2, ClientAssumption DEF Calls, Gone

LEMMA StartStep ==
    ASSUME ServerInv, StartGroup, slots' = slots
    PROVE  ServerInv'
<1>1. /\ TypeOK /\ QueueInv /\ JobInv /\ JobsInv /\ \A d \in Client : here[d] => Orderly(d)
      /\ members \in Seq(Client) /\ slots \in 1 .. NSeq /\ NSeq \in Nat
  BY ServeAssumption DEF ServerInv, JobsInv, QueueInv, TypeOK
<1>2. /\ sched = "window" /\ sched' = "serve"
      /\ group' = [s \in 0 .. Len(members) - 1 |-> ask[members[s + 1]].req]
      /\ ids' = [s \in 0 .. NSeq - 1 |-> << >>] /\ refused' = {}
      /\ connVars' = connVars /\ inbox' = inbox /\ sender' = sender /\ jobs' = jobs
      /\ members' = members /\ lost' = lost
  BY DEF StartGroup, Serve!Accept
<1>3. ask' = ask /\ at' = at /\ here' = here
  BY <1>2 DEF connVars
<1>4. PICK n \in 1 .. NSeq : n = Len(members) /\ n <= slots
  <2>1. members # << >>
    BY <1>1, <1>2 DEF QueueInv
  <2>2. Len(members) \in Nat \ {0} /\ Len(members) <= slots
    BY <1>1, <2>1 DEF TypeOK
  <2> QED BY <1>1, <2>2
<1>5. \A d : (InJobs(d)' <=> InJobs(d)) /\ (InGroup(d)' <=> InGroup(d)) /\ (Gone(d)' <=> Gone(d))
  BY <1>2 DEF InJobs, InGroup, Gone
<1>6. \A d : Result(d)' <=> Result(d)
  BY <1>2, <1>5 DEF Result
<1>7. QueueInv' /\ JobInv' /\ TypeOK'
  <2>1. QueueInv'
    BY <1>1, <1>2 DEF QueueInv
  <2>2. JobInv'
    BY <1>1, <1>2, <1>3, <1>5 DEF JobInv
  <2>3. TypeOK'
    BY <1>1, <1>2 DEF TypeOK, connVars
  <2> QED BY <2>1, <2>2, <2>3
<1>8. DOMAIN group' = 0 .. n - 1 /\ DOMAIN members = 1 .. n
  BY <1>1, <1>2, <1>4
<1>9. Cardinality(DOMAIN group') = n
  <2>1. n \in Int /\ 0 \in Int /\ n - 1 \in Int /\ ~(0 > n - 1)
    BY <1>1, <1>4
  <2>2. Cardinality(0 .. n - 1) = (n - 1) - 0 + 1
    BY <2>1, FS_Interval
  <2> QED BY <1>8, <2>1, <2>2
<1>10. ASSUME NEW i \in DOMAIN members
       PROVE  /\ SlotOf(i)' = i - 1 /\ i - 1 \in 0 .. n - 1
              /\ ids'[i - 1] = << >> /\ group'[i - 1] = ask[members[i]].req
  <2>1. i - 1 \in 0 .. n - 1 /\ (i - 1) + 1 = i /\ i - 1 \in 0 .. NSeq - 1
    BY <1>1, <1>4, <1>8
  <2>2. SlotOf(i)' = i - 1
    BY <1>2, <1>4, <1>9, <2>1 DEF SlotOf
  <2> QED BY <1>2, <1>4, <2>1, <2>2
<1>11. ASSUME NEW i \in DOMAIN members
       PROVE  /\ group'[SlotOf(i)'] = ask'[members'[i]].req
              /\ Says(SlotOf(i), group[SlotOf(i)])'
  <2>1. PICK r : r = ask[members[i]].req
    OBVIOUS
  <2>2. r \in Requests
    BY <1>1, <2>1, MemberCalls
  <2>3. ASSUME ~Serve!TooLong(r)
        PROVE  0 \in 0 .. Len(Answer(r)) /\ << >> = SubSeq(Answer(r), 1, 0)
    <3>1. Answer(r) \in Seq(Tok)
      BY <2>2, <2>3, AnswerFacts DEF Fits, Path
    <3> QED BY <3>1
  <2>4. group'[SlotOf(i)'] = r /\ ids'[SlotOf(i)'] = << >>
    BY <1>10, <2>1
  <2>5. Says(SlotOf(i), group[SlotOf(i)])'
    BY <1>2, <2>3, <2>4 DEF Says
  <2> QED BY <1>2, <1>3, <2>1, <2>4, <2>5
<1>12. GroupInv'
  <2>1. DOMAIN ids' = 0 .. NSeq - 1 /\ Len(members') = Cardinality(DOMAIN group')
    BY <1>2, <1>4, <1>9
  <2>2. Len(members') <= Cardinality(DOMAIN group')
    BY <1>4, <2>1
  <2>3. \E m \in 1 .. NSeq : DOMAIN group' = 0 .. m - 1
    BY <1>4, <1>8
  <2> QED BY <1>2, <1>11, <2>1, <2>2, <2>3 DEF GroupInv
<1>13. ASSUME NEW d \in Client, here'[d] PROVE Orderly(d)'
  <2>1. Same(d) /\ Orderly(d)
    BY <1>1, <1>2, <1>3, <1>13, SchedSame
  <2>2. ASSUME at[d] = "waiting", Serve!TooLong(ask[d].req) PROVE Told(d)'
    <3>1. Told(d)
      BY <2>1, <2>2 DEF Orderly, Waiting
    <3> QED BY <1>2, <3>1 DEF Told
  <2>3. AnswerTo(d)' = AnswerTo(d)
    BY <1>3 DEF AnswerTo
  <2>4. ASSUME NEW k, ~Serve!TooLong(ask[d].req), Sent(d, k) PROVE Sent(d, k)'
    <3>1. ~InHand
      BY <1>2 DEF InHand
    <3>2. InJobs(d) \/ InGroup(d) => k = 0
      BY <2>4, <3>1 DEF Sent
    <3>3. ASSUME NEW i \in DOMAIN members, members[i] = d
          PROVE  ids'[SlotOf(i)'] = SubSeq(AnswerTo(d), 1, k)
      <4>1. k = 0 /\ ask[d].req \in Requests
        BY <1>1, <3>2, <3>3, MemberCalls
      <4>2. AnswerTo(d) \in Seq(Tok)
        BY <2>4, <4>1, AnswerFacts DEF Fits, Path, AnswerTo
      <4>3. SubSeq(AnswerTo(d), 1, 0) = << >>
        BY <4>2
      <4> QED BY <1>10, <3>3, <4>1, <4>3
    <3> QED BY <1>2, <1>5, <1>6, <2>3, <2>4, <3>2, <3>3 DEF Sent
  <2> QED BY <1>2, <1>5, <1>6, <2>1, <2>2, <2>4, OrderlyKept
<1> QED BY <1>7, <1>12, <1>13 DEF ServerInv, JobsInv

\* What a step within a group leaves alone.
LEMMA WithinGroup ==
    ASSUME TypeOK, QueueInv, JobInv, connVars' = connVars, sender' = sender, jobs' = jobs,
           members' = members, lost' = lost, slots' = slots,
           sched = "serve", sched' \in {"serve", "deliver"}, DOMAIN inbox' = Client,
           \A d \in Client : inbox'[d] # << >> => at[d] = "waiting"
    PROVE  /\ TypeOK' /\ QueueInv' /\ JobInv' /\ InHand /\ InHand'
           /\ \A d : (InJobs(d)' <=> InJobs(d)) /\ (InGroup(d)' <=> InGroup(d))
           /\ \A d : (Gone(d)' <=> Gone(d)) /\ (Result(d)' <=> Result(d))
           /\ \A d : AnswerTo(d)' = AnswerTo(d)
           /\ group' = group => \A i : SlotOf(i)' = SlotOf(i)
<1>1. ask' = ask /\ at' = at
  BY DEF connVars
<1>2. \A d : (InJobs(d)' <=> InJobs(d)) /\ (InGroup(d)' <=> InGroup(d)) /\ (Gone(d)' <=> Gone(d))
  BY DEF InJobs, InGroup, Gone
<1>3. QueueInv'
  BY DEF QueueInv
<1>4. JobInv'
  BY <1>1, <1>2 DEF JobInv
<1>5. TypeOK'
  BY DEF TypeOK, connVars
<1> QED BY <1>1, <1>2, <1>3, <1>4, <1>5 DEF Result, AnswerTo, SlotOf, InHand

LEMMA PostFacts ==
    ASSUME TypeOK, NEW c \in Client, NEW m, Post(c, m)
    PROVE  /\ DOMAIN inbox' = Client
           /\ \A d \in Client : inbox'[d] # << >> => at[d] = "waiting"
           /\ \A d \in Client : d # c => inbox'[d] = inbox[d]
           /\ inbox'[c] = IF at[c] = "waiting" THEN Append(inbox[c], m) ELSE inbox[c]
BY DEF Post, TypeOK

LEMMA RefuseStep ==
    ASSUME ServerInv, NEW s \in DOMAIN group, RefuseJob(s), slots' = slots
    PROVE  ServerInv'
<1>1. /\ TypeOK /\ QueueInv /\ JobInv /\ GroupInv /\ JobsInv
      /\ \A d \in Client : here[d] => Orderly(d)
  BY DEF ServerInv, JobsInv
<1>2. /\ sched = "serve" /\ sched' = "serve" /\ group' = group /\ ids' = ids
      /\ refused' = refused \union {s} /\ Serve!TooLong(group[s])
      /\ connVars' = connVars /\ sender' = sender /\ jobs' = jobs
      /\ members' = members /\ lost' = lost
  BY DEF RefuseJob, Serve!Refuse
<1>3. PICK m : m = members[s + 1]
  OBVIOUS
<1>4. /\ s + 1 \in DOMAIN members /\ SlotOf(s + 1) = s
      /\ \A i \in DOMAIN members : SlotOf(i) = s => i = s + 1
  <2>1. PICK n \in 1 .. NSeq :
          /\ DOMAIN group = 0 .. n - 1 /\ DOMAIN members = 1 .. n
          /\ Len(members) = n
          /\ \A i \in DOMAIN members : SlotOf(i) = (n - n) + (i - 1)
    BY <1>1, <1>2, GroupFacts DEF InHand
  <2>2. n \in Nat
    BY <2>1, ServeAssumption
  <2> QED BY <2>1, <2>2
<1>5. m \in Client /\ ~Gone(m) /\ InGroup(m)
  BY <1>1, <1>3, <1>4, MemberCalls
<1>6. group[s] = ask[m].req
  BY <1>1, <1>2, <1>3, <1>4 DEF GroupInv, InHand
<1>7. Post(m, Fail)
  BY <1>3 DEF RefuseJob
<1>8. /\ DOMAIN inbox' = Client
      /\ \A d \in Client : inbox'[d] # << >> => at[d] = "waiting"
      /\ \A d \in Client : d # m => inbox'[d] = inbox[d]
      /\ inbox'[m] = IF at[m] = "waiting" THEN Append(inbox[m], Fail) ELSE inbox[m]
  BY <1>1, <1>5, <1>7, PostFacts
<1>9. /\ TypeOK' /\ QueueInv' /\ JobInv' /\ InHand /\ InHand'
      /\ \A d : (InJobs(d)' <=> InJobs(d)) /\ (InGroup(d)' <=> InGroup(d))
      /\ \A d : (Gone(d)' <=> Gone(d)) /\ (Result(d)' <=> Result(d))
      /\ \A d : AnswerTo(d)' = AnswerTo(d)
      /\ \A i : SlotOf(i)' = SlotOf(i)
  BY <1>1, <1>2, <1>8, WithinGroup
<1>10. ask' = ask /\ at' = at /\ here' = here
  BY <1>2 DEF connVars
<1>11. GroupInv'
  <2>1. ASSUME NEW i \in DOMAIN members
        PROVE  /\ group'[SlotOf(i)'] = ask'[members'[i]].req
               /\ Says(SlotOf(i), group[SlotOf(i)])'
    <3>1. group[SlotOf(i)] = ask[members[i]].req /\ Says(SlotOf(i), group[SlotOf(i)])
      BY <1>1, <1>9 DEF GroupInv
    <3>2. PICK q, r : q = SlotOf(i) /\ r = group[q]
      OBVIOUS
    <3>3. SlotOf(i)' = q /\ (group[SlotOf(i)])' = r /\ Says(q, r)
      BY <1>2, <1>9, <3>1, <3>2
    <3>4. q = s => Serve!TooLong(r)
      BY <1>2, <3>2
    <3>5. Says(q, r)'
      BY <1>2, <3>3, <3>4 DEF Says
    <3>6. Says(SlotOf(i), group[SlotOf(i)])' <=> Says(q, r)'
      BY <3>3 DEF Says
    <3> QED BY <1>2, <1>9, <1>10, <3>1, <3>5, <3>6
  <2> QED BY <1>1, <1>2, <1>9, <2>1 DEF GroupInv
<1>12. ASSUME NEW d \in Client, here'[d] PROVE Orderly(d)'
  <2>1. Orderly(d) /\ (inbox'[d] = inbox[d] => Same(d))
    BY <1>1, <1>2, <1>10, <1>12, SchedSame
  <2>2. ASSUME NEW n, Sent(d, n) PROVE Sent(d, n)'
    BY <1>2, <1>9, <2>2 DEF Sent
  <2>3. CASE d # m
    <3>1. ASSUME at[d] = "waiting", Serve!TooLong(ask[d].req) PROVE Told(d)'
      <4>1. Told(d)
        BY <2>1, <3>1 DEF Orderly, Waiting
      <4>2. inbox'[d] = inbox[d]
        BY <1>8, <2>3
      <4>3. ASSUME NEW i \in DOMAIN members, members[i] = d PROVE SlotOf(i) # s
        BY <1>3, <1>4, <2>3, <4>3
      <4> QED BY <1>2, <1>9, <4>1, <4>2, <4>3 DEF Told
    <3> QED BY <1>2, <1>8, <1>9, <2>1, <2>2, <2>3, <3>1, OrderlyKept
  <2>4. CASE d = m /\ at[m] # "waiting"
    BY <1>2, <1>8, <1>9, <2>1, <2>4, OrderlyKept
  <2>5. CASE d = m /\ at[m] = "waiting"
    <3>1. Waiting(m) /\ Serve!TooLong(ask[m].req)
      BY <1>2, <1>6, <2>1, <2>5 DEF Orderly
    <3>2. inbox'[m] = Append(inbox[m], Fail) /\ IsSeq(inbox[m])
      BY <1>8, <2>5, <3>1 DEF Waiting
    <3>3. IsSeq(inbox'[m]) /\ inbox'[m] # << >> /\ Head(inbox'[m]) = Fail
      BY <3>1, <3>2, AppendFacts DEF Waiting, Told
    <3>4. Told(m)'
      BY <3>3 DEF Told
    <3>5. Serve!TooLong(ask[m].req)'
      BY <1>10, <3>1 DEF Serve!TooLong
    <3>6. /\ ask'[m] = ask[m] /\ at'[m] = at[m] /\ todo'[m] = todo[m] /\ wire'[m] = wire[m]
          /\ shown'[m] = shown[m] /\ gate'[m] = gate[m]
      BY <1>2 DEF connVars
    <3>7. /\ NoText(m)' <=> NoText(m)
          /\ PendOut(todo[m])' = PendOut(todo[m]) /\ PendFrame(todo[m])' = PendFrame(todo[m])
      BY <3>6 DEF NoText, PendOut, PendFrame
    <3>8. Waiting(m)'
      BY <3>1, <3>3, <3>4, <3>5, <3>6, <3>7 DEF Waiting
    <3>9. Orderly(m)'
      BY <2>1, <2>5, <3>6, <3>7, <3>8 DEF Orderly
    <3> QED BY <2>5, <3>9
  <2> QED BY <2>3, <2>4, <2>5
<1> QED BY <1>9, <1>11, <1>12 DEF ServerInv, JobsInv

\* One more message in the channel of a client that waits.
LEMMA CarriesMore ==
    ASSUME NEW c, IsSeq(inbox[c]), NEW n \in Nat, NEW k \in 0 .. n, Carries(c, k, n), ~Result(c),
           NEW m, inbox'[c] = Append(inbox[c], m), AnswerTo(c)' = AnswerTo(c)
    PROVE  /\ IsSeq(inbox'[c])
           /\ ~Result(c)' /\ m = Token(Text[AnswerTo(c)[n + 1]]) => Carries(c, k, n + 1)'
           /\ Result(c)' /\ m = Done(Gathered(AnswerTo(c))) => Carries(c, k, n)'
<1>1. PICK s : s = inbox[c]
  OBVIOUS
<1>2. PICK L \in Nat : L = Len(s)
  BY <1>1, SeqFacts
<1>3. /\ IsSeq(Append(s, m)) /\ Len(Append(s, m)) = L + 1
      /\ \A i \in 1 .. L : Append(s, m)[i] = s[i]
      /\ Append(s, m)[L + 1] = m
  BY <1>1, <1>2, AppendFacts
<1>4. L = n - k /\ \A i \in 1 .. n - k : s[i] = Token(Text[AnswerTo(c)[k + i]])
  BY <1>1, <1>2 DEF Carries
<1>5. n - k \in Nat /\ (n + 1) - k = (n - k) + 1 /\ k + (L + 1) = n + 1
  BY <1>4
<1>6. ASSUME ~Result(c)', m = Token(Text[AnswerTo(c)[n + 1]]) PROVE Carries(c, k, n + 1)'
  <2>1. Len(inbox'[c]) = ((n + 1) - k) + 0
    BY <1>1, <1>3, <1>4, <1>5
  <2>2. ASSUME NEW i \in 1 .. (n + 1) - k PROVE inbox'[c][i] = Token(Text[AnswerTo(c)[k + i]])
    <3>1. i \in 1 .. L \/ i = L + 1
      BY <1>4, <1>5
    <3> QED BY <1>1, <1>3, <1>4, <1>5, <1>6, <3>1
  <2> QED BY <1>6, <2>1, <2>2 DEF Carries
<1>7. ASSUME Result(c)', m = Done(Gathered(AnswerTo(c))) PROVE Carries(c, k, n)'
  <2>1. Len(inbox'[c]) = (n - k) + 1 /\ inbox'[c][(n - k) + 1] = m
    BY <1>1, <1>3, <1>4
  <2>2. \A i \in 1 .. n - k : inbox'[c][i] = Token(Text[AnswerTo(c)[k + i]])
    BY <1>1, <1>3, <1>4
  <2> QED BY <1>7, <2>1, <2>2 DEF Carries
<1> QED BY <1>1, <1>3, <1>6, <1>7

\* A client that waits for an answer that fits, as its channel changes.
LEMMA WaitingKept ==
    ASSUME NEW c \in Client, Orderly(c), at[c] = "waiting", connVars' = connVars,
           ~Serve!TooLong(ask[c].req), IsSeq(inbox'[c]),
           \E n \in 0 .. Len(AnswerTo(c)) : \E k \in 0 .. n :
              Heard(c, k) /\ Sent(c, n)' /\ Carries(c, k, n)'
    PROVE  Orderly(c)'
<1>1. /\ ask'[c] = ask[c] /\ at'[c] = at[c] /\ todo'[c] = todo[c] /\ wire'[c] = wire[c]
      /\ shown'[c] = shown[c] /\ gate'[c] = gate[c]
  BY DEF connVars
<1>2. /\ NoText(c)' <=> NoText(c)
      /\ PendOut(todo[c])' = PendOut(todo[c]) /\ PendFrame(todo[c])' = PendFrame(todo[c])
      /\ AnswerTo(c)' = AnswerTo(c) /\ ToShow(c)' = ToShow(c)
      /\ Serve!TooLong(ask[c].req)' <=> Serve!TooLong(ask[c].req)
  BY <1>1 DEF NoText, PendOut, PendFrame, AnswerTo, ToShow, Serve!TooLong
<1>3. \A k : Heard(c, k)' <=> Heard(c, k)
  BY <1>1, <1>2 DEF Heard
<1>4. Waiting(c)
  BY DEF Orderly
<1>5. Waiting(c)'
  BY <1>1, <1>2, <1>3, <1>4 DEF Waiting
<1> QED BY <1>1, <1>2, <1>5 DEF Orderly

\* The client and the request of the slot a step within the group is about.
LEMMA SlotFacts ==
    ASSUME JobsInv, sched = "serve", NEW s \in DOMAIN group
    PROVE  /\ s + 1 \in DOMAIN members /\ SlotOf(s + 1) = s
           /\ \A i \in DOMAIN members : SlotOf(i) = s => i = s + 1
           /\ members[s + 1] \in Client /\ InGroup(members[s + 1])
           /\ ~InJobs(members[s + 1]) /\ ~Gone(members[s + 1])
           /\ group[s] = ask[members[s + 1]].req /\ group[s] \in Requests
           /\ s \in DOMAIN ids /\ Says(s, group[s])
<1>1. PICK n \in 1 .. NSeq :
        /\ DOMAIN group = 0 .. n - 1 /\ DOMAIN members = 1 .. n
        /\ Len(members) = n
        /\ \A i \in DOMAIN members : SlotOf(i) = (n - n) + (i - 1)
  BY GroupFacts DEF InHand
<1>2. n \in Nat /\ NSeq \in Nat
  BY <1>1, ServeAssumption
<1>3. /\ s + 1 \in DOMAIN members /\ SlotOf(s + 1) = s
      /\ \A i \in DOMAIN members : SlotOf(i) = s => i = s + 1
      /\ s \in 0 .. NSeq - 1
  BY <1>1, <1>2
<1>4. /\ members[s + 1] \in Client /\ InGroup(members[s + 1])
      /\ ~InJobs(members[s + 1]) /\ ~Gone(members[s + 1])
      /\ ask[members[s + 1]].req \in Requests
  BY <1>3, MemberCalls
<1>5. /\ group[s] = ask[members[s + 1]].req /\ Says(s, group[s])
      /\ DOMAIN ids = 0 .. NSeq - 1
  BY <1>3 DEF JobsInv, GroupInv, InHand
<1> QED BY <1>3, <1>4, <1>5

LEMMA EmitStep ==
    ASSUME ServerInv, NEW s \in DOMAIN group, EmitToken(s), slots' = slots
    PROVE  ServerInv'
<1>1. /\ TypeOK /\ QueueInv /\ JobInv /\ GroupInv /\ JobsInv
      /\ \A d \in Client : here[d] => Orderly(d)
  BY DEF ServerInv, JobsInv
<1>2. PICK t : t = Greedy[group[s].prompt \o ids[s]]
  OBVIOUS
<1>3. /\ sched = "serve" /\ sched' = "serve" /\ group' = group /\ refused' = refused
      /\ ids' = [ids EXCEPT ![s] = Append(@, t)] /\ ~Serve!TooLong(group[s])
      /\ connVars' = connVars /\ sender' = sender /\ jobs' = jobs
      /\ members' = members /\ lost' = lost
  BY <1>2 DEF EmitToken, Serve!Emit, Serve!NextOf
<1>4. PICK m \in Client : m = members[s + 1]
  BY <1>1, <1>3, SlotFacts
<1>5. PICK r \in Requests : r = group[s] /\ r = ask[m].req
  BY <1>1, <1>3, <1>4, SlotFacts
<1>6. /\ s + 1 \in DOMAIN members /\ SlotOf(s + 1) = s
      /\ \A i \in DOMAIN members : SlotOf(i) = s => i = s + 1
      /\ InGroup(m) /\ ~InJobs(m) /\ ~Gone(m) /\ s \in DOMAIN ids /\ Says(s, r)
  BY <1>1, <1>3, <1>4, <1>5, SlotFacts
<1>7. Fits(r) /\ ~(Len(ids[s]) = Serve!Quota(r) \/ Ended(r, ids[s]))
  <2>1. ~(Len(ids[s]) = Serve!Quota(group[s]) \/ t \in EosTokens)
    BY <1>2 DEF EmitToken, Serve!Emit, Serve!Answered, Serve!NextOf
  <2> QED BY <1>2, <1>3, <1>5, <2>1 DEF Fits, Ended
\* What the slot said is the first n tokens of the answer: now it is n + 1.
<1>8. ASSUME NEW n \in 0 .. Len(Answer(r)), ids[s] = SubSeq(Answer(r), 1, n)
      PROVE  /\ n \in Nat /\ n + 1 \in 0 .. Len(Answer(r))
             /\ ids'[s] = SubSeq(Answer(r), 1, n + 1)
             /\ t = Answer(r)[n + 1]
  <2>1. PICK said : said = ids[s]
    OBVIOUS
  <2>2. /\ n < Len(Answer(r)) /\ Answer(r)[n + 1] = Greedy[r.prompt \o said]
        /\ Append(said, Greedy[r.prompt \o said]) = SubSeq(Answer(r), 1, n + 1)
    <3>1. said = SubSeq(Answer(r), 1, n) /\ ~(Len(said) = Serve!Quota(r) \/ Ended(r, said))
      BY <1>7, <1>8, <2>1
    <3>2. Fits(r) /\ n \in 0 .. Len(Answer(r))
      BY <1>7, <1>8
    <3> QED BY <3>1, <3>2, AnswerGrows
  <2>3. PICK L \in Nat : L = Len(Answer(r))
    BY <1>7, AnswerFacts DEF Path
  <2>4. n \in Nat /\ n + 1 \in 0 .. Len(Answer(r))
    BY <2>2, <2>3
  <2>5. ids'[s] = Append(said, t) /\ t = Greedy[r.prompt \o said]
    BY <1>2, <1>3, <1>5, <1>6, <2>1
  <2> QED BY <2>2, <2>4, <2>5
<1>9. Post(m, Token(Text[t]))
  BY <1>2, <1>4 DEF EmitToken, Serve!NextOf
<1>10. /\ DOMAIN inbox' = Client
       /\ \A d \in Client : inbox'[d] # << >> => at[d] = "waiting"
       /\ \A d \in Client : d # m => inbox'[d] = inbox[d]
       /\ inbox'[m] = IF at[m] = "waiting" THEN Append(inbox[m], Token(Text[t])) ELSE inbox[m]
  BY <1>1, <1>9, PostFacts
<1>11. /\ TypeOK' /\ QueueInv' /\ JobInv' /\ InHand /\ InHand'
       /\ \A d : (InJobs(d)' <=> InJobs(d)) /\ (InGroup(d)' <=> InGroup(d))
       /\ \A d : (Gone(d)' <=> Gone(d)) /\ (Result(d)' <=> Result(d))
       /\ \A d : AnswerTo(d)' = AnswerTo(d)
       /\ \A i : SlotOf(i)' = SlotOf(i)
  BY <1>1, <1>3, <1>10, WithinGroup
<1>12. ask' = ask /\ at' = at /\ here' = here
  BY <1>3 DEF connVars
<1>13. \A q : q # s => ids'[q] = ids[q]
  BY <1>3
<1>14. GroupInv'
  <2>1. ASSUME NEW i \in DOMAIN members
        PROVE  /\ group'[SlotOf(i)'] = ask'[members'[i]].req
               /\ Says(SlotOf(i), group[SlotOf(i)])'
    <3>1. group[SlotOf(i)] = ask[members[i]].req /\ Says(SlotOf(i), group[SlotOf(i)])
      BY <1>1, <1>11 DEF GroupInv
    <3>2. PICK q, x : q = SlotOf(i) /\ x = group[q]
      OBVIOUS
    <3>3. SlotOf(i)' = q /\ (group[SlotOf(i)])' = x /\ Says(q, x)
      BY <1>3, <1>11, <3>1, <3>2
    <3>4. CASE q # s
      <4>1. Says(q, x)'
        BY <1>3, <1>13, <3>3, <3>4 DEF Says
      <4>2. Says(SlotOf(i), group[SlotOf(i)])' <=> Says(q, x)'
        BY <3>3 DEF Says
      <4> QED BY <1>3, <1>11, <1>12, <3>1, <4>1, <4>2
    <3>5. CASE q = s
      <4>1. x = r /\ ~Serve!TooLong(r)
        BY <1>5, <1>7, <3>2, <3>5 DEF Fits
      <4>2. s \notin refused /\ \E n \in 0 .. Len(Answer(r)) : ids[s] = SubSeq(Answer(r), 1, n)
        BY <1>6, <4>1 DEF Says
      <4>3. \E n \in 0 .. Len(Answer(r)) : ids'[s] = SubSeq(Answer(r), 1, n)
        BY <1>8, <4>2
      <4>4. Says(s, r)'
        BY <1>3, <4>1, <4>2, <4>3 DEF Says
      <4>5. Says(SlotOf(i), group[SlotOf(i)])' <=> Says(s, r)'
        BY <3>3, <3>5, <4>1 DEF Says
      <4> QED BY <1>3, <1>11, <1>12, <3>1, <4>4, <4>5
    <3> QED BY <3>4, <3>5
  <2>2. DOMAIN ids' = DOMAIN ids
    BY <1>3
  <2> QED BY <1>1, <1>3, <1>11, <2>1, <2>2 DEF GroupInv
<1>15. ASSUME NEW d \in Client, here'[d] PROVE Orderly(d)'
  <2>1. Orderly(d) /\ (inbox'[d] = inbox[d] => Same(d))
    BY <1>1, <1>3, <1>12, <1>15, SchedSame
  <2>2. CASE d # m
    <3>1. ASSUME at[d] = "waiting", Serve!TooLong(ask[d].req) PROVE Told(d)'
      <4>1. Told(d)
        BY <2>1, <3>1 DEF Orderly, Waiting
      <4>2. inbox'[d] = inbox[d]
        BY <1>10, <2>2
      <4> QED BY <1>3, <1>11, <4>1, <4>2 DEF Told
    <3>2. ASSUME NEW n, Sent(d, n) PROVE Sent(d, n)'
      <4>1. ASSUME NEW i \in DOMAIN members, members[i] = d
            PROVE  ids'[SlotOf(i)] = ids[SlotOf(i)]
        BY <1>4, <1>6, <1>13, <2>2, <4>1
      <4> QED BY <1>3, <1>11, <3>2, <4>1 DEF Sent
    <3> QED BY <1>3, <1>10, <1>11, <2>1, <2>2, <3>1, <3>2, OrderlyKept
  <2>3. CASE d = m /\ at[m] # "waiting"
    BY <1>3, <1>10, <1>11, <2>1, <2>3, OrderlyKept
  <2>4. CASE d = m /\ at[m] = "waiting"
    <3>1. Waiting(m) /\ ~Serve!TooLong(ask[m].req) /\ Orderly(m) /\ AnswerTo(m) = Answer(r)
      BY <1>5, <1>7, <2>1, <2>4 DEF Orderly, Fits, AnswerTo
    <3>2. IsSeq(inbox[m]) /\ inbox'[m] = Append(inbox[m], Token(Text[t]))
      BY <1>10, <2>4, <3>1 DEF Waiting
    <3>3. PICK n \in 0 .. Len(AnswerTo(m)) : \E k \in 0 .. n :
              Heard(m, k) /\ Sent(m, n) /\ Carries(m, k, n)
      BY <3>1 DEF Waiting
    <3>4. PICK k \in 0 .. n : Heard(m, k) /\ Sent(m, n) /\ Carries(m, k, n)
      BY <3>3
    <3>5. ids[s] = SubSeq(AnswerTo(m), 1, n)
      BY <1>4, <1>6, <1>11, <3>4 DEF Sent
    <3>6. /\ n \in Nat /\ n + 1 \in 0 .. Len(AnswerTo(m))
          /\ ids'[s] = SubSeq(AnswerTo(m), 1, n + 1) /\ t = AnswerTo(m)[n + 1]
      BY <1>8, <3>1, <3>3, <3>5
    <3>7. ~Result(m) /\ ~Result(m)'
      BY <1>6, <1>11 DEF Result
    <3>8. IsSeq(inbox'[m]) /\ Carries(m, k, n + 1)'
      BY <1>11, <3>2, <3>4, <3>6, <3>7, CarriesMore
    <3>9. Sent(m, n + 1)'
      <4>1. ASSUME NEW i \in DOMAIN members, members[i] = m
            PROVE  ids'[SlotOf(i)] = SubSeq(AnswerTo(m), 1, n + 1)
        <5>1. i = s + 1
          BY <1>1, <1>4, <1>6, <4>1 DEF QueueInv
        <5> QED BY <1>6, <3>6, <5>1
      <4> QED BY <1>3, <1>6, <1>11, <3>7, <4>1 DEF Sent
    <3>10. k \in 0 .. n + 1
      BY <3>4, <3>6
    <3>11. Orderly(m)'
      BY <1>3, <2>4, <3>1, <3>4, <3>6, <3>8, <3>9, <3>10, WaitingKept
    <3> QED BY <2>4, <3>11
  <2> QED BY <2>2, <2>3, <2>4
<1> QED BY <1>11, <1>14, <1>15 DEF ServerInv, JobsInv

LEMMA DoneStep ==
    ASSUME ServerInv, GroupDone, slots' = slots
    PROVE  ServerInv'
<1>1. /\ TypeOK /\ QueueInv /\ JobInv /\ GroupInv /\ JobsInv
      /\ \A d \in Client : here[d] => Orderly(d)
  BY DEF ServerInv, JobsInv
<1>2. /\ sched = "serve" /\ sched' = "deliver" /\ group' = group /\ ids' = ids
      /\ refused' = refused
      /\ connVars' = connVars /\ inbox' = inbox /\ sender' = sender /\ jobs' = jobs
      /\ members' = members /\ lost' = lost
      /\ \A s \in DOMAIN group : s \in refused \/ (~Serve!TooLong(group[s]) /\ Serve!Answered(s))
  BY DEF GroupDone, Serve!Deliver
<1>3. /\ TypeOK' /\ QueueInv' /\ JobInv' /\ InHand /\ InHand'
      /\ \A d : (InJobs(d)' <=> InJobs(d)) /\ (InGroup(d)' <=> InGroup(d))
      /\ \A d : (Gone(d)' <=> Gone(d)) /\ (Result(d)' <=> Result(d))
      /\ \A d : AnswerTo(d)' = AnswerTo(d)
      /\ \A i : SlotOf(i)' = SlotOf(i)
  <2>1. DOMAIN inbox' = Client /\ \A d \in Client : inbox'[d] # << >> => at[d] = "waiting"
    BY <1>1, <1>2 DEF TypeOK
  <2> QED BY <1>1, <1>2, <2>1, WithinGroup
<1>4. ask' = ask /\ at' = at /\ here' = here
  BY <1>2 DEF connVars
<1>5. ASSUME NEW s \in DOMAIN group PROVE Says(s, group[s])'
  <2>1. PICK r \in Requests : r = group[s]
    BY <1>1, <1>2, SlotFacts
  <2>2. Says(s, r) /\ (s \in refused \/ (~Serve!TooLong(r) /\ Serve!Answered(s)))
    BY <1>1, <1>2, <2>1, SlotFacts
  <2>3. CASE Serve!TooLong(r)
    BY <1>2, <2>1, <2>2, <2>3 DEF Says
  <2>4. CASE ~Serve!TooLong(r)
    <3>1. PICK n \in 0 .. Len(Answer(r)) : ids[s] = SubSeq(Answer(r), 1, n)
      BY <2>2, <2>4 DEF Says
    <3>2. s \notin refused /\ Serve!Answered(s)
      BY <2>2, <2>4 DEF Says
    <3>3. PICK said : said = ids[s]
      OBVIOUS
    <3>4. Len(said) = Serve!Quota(r) \/ Ended(r, said)
      BY <2>1, <3>2, <3>3 DEF Serve!Answered, Serve!NextOf, Ended
    <3>5. Fits(r) /\ said = SubSeq(Answer(r), 1, n)
      BY <2>4, <3>1, <3>3 DEF Fits
    <3>6. n = Len(Answer(r))
      BY <3>1, <3>4, <3>5, AnswerGrows
    <3> QED BY <1>2, <2>1, <2>4, <3>1, <3>2, <3>6 DEF Says
  <2> QED BY <2>3, <2>4
<1>6. GroupInv'
  <2>1. ASSUME NEW i \in DOMAIN members
        PROVE  /\ group'[SlotOf(i)'] = ask'[members'[i]].req
               /\ Says(SlotOf(i), group[SlotOf(i)])'
    <3>1. PICK s \in DOMAIN group : s = SlotOf(i)
      BY <1>1, <1>3, GroupFacts
    <3>2. group[s] = ask[members[i]].req
      BY <1>1, <1>3, <3>1 DEF GroupInv
    <3>3. SlotOf(i)' = s
      BY <1>3, <3>1
    <3>4. Says(SlotOf(i), group[SlotOf(i)])' <=> Says(s, group[s])'
      BY <1>2, <3>3 DEF Says
    <3> QED BY <1>2, <1>4, <1>5, <3>2, <3>3, <3>4
  <2> QED BY <1>1, <1>2, <1>3, <2>1 DEF GroupInv
<1>7. ASSUME NEW d \in Client, here'[d] PROVE Orderly(d)'
  <2>1. Orderly(d) /\ Same(d)
    BY <1>1, <1>2, <1>4, <1>7, SchedSame
  <2>2. ASSUME at[d] = "waiting", Serve!TooLong(ask[d].req) PROVE Told(d)'
    <3>1. Told(d)
      BY <2>1, <2>2 DEF Orderly, Waiting
    <3> QED BY <1>2, <1>3, <3>1 DEF Told
  <2>3. ASSUME NEW n, Sent(d, n) PROVE Sent(d, n)'
    BY <1>2, <1>3, <2>3 DEF Sent
  <2> QED BY <1>2, <1>3, <2>1, <2>2, <2>3, OrderlyKept
<1> QED BY <1>3, <1>6, <1>7 DEF ServerInv, JobsInv

LEMMA SendStep ==
    ASSUME ServerInv, SendDone, slots' = slots
    PROVE  ServerInv'
<1>1. /\ TypeOK /\ QueueInv /\ JobInv /\ GroupInv /\ JobsInv
      /\ \A d \in Client : here[d] => Orderly(d)
  BY DEF ServerInv, JobsInv
<1>2. /\ sched = "deliver" /\ sched' = (IF Len(members) = 1 THEN "recv" ELSE "deliver")
      /\ group' = group /\ ids' = ids /\ refused' = refused
      /\ connVars' = connVars /\ sender' = [sender EXCEPT ![Head(members)] = FALSE]
      /\ jobs' = jobs /\ members' = Tail(members) /\ lost' = lost
  BY DEF SendDone, engineVars
<1>3. InHand
  BY <1>2 DEF InHand
<1>4. PICK n \in 1 .. NSeq :
        /\ DOMAIN group = 0 .. n - 1 /\ Cardinality(DOMAIN group) = n
        /\ members \in Seq(Client) /\ Len(members) \in 1 .. n
        /\ DOMAIN members = 1 .. Len(members)
        /\ \A i \in DOMAIN members : /\ SlotOf(i) = (n - Len(members)) + (i - 1)
                                     /\ SlotOf(i) \in 0 .. n - 1
  BY <1>1, <1>3, GroupFacts
<1>5. PICK L \in Nat : L = Len(members) /\ L \in 1 .. n
  <2>1. Len(members) \in Nat
    BY <1>4
  <2>2. PICK x \in Nat : x = Len(members)
    BY <2>1
  <2>3. x \in 1 .. n
    BY <1>4, <2>2
  <2> QED BY <2>2, <2>3
<1>6. PICK m \in Client : m = Head(members) /\ m = members[1]
  BY <1>4, <1>5
<1>7. 1 \in DOMAIN members /\ n \in Nat
  BY <1>4, <1>5, ServeAssumption
<1>8. InGroup(m) /\ ~InJobs(m) /\ ~Gone(m) /\ m \notin lost /\ ask[m].req \in Requests
  BY <1>1, <1>6, <1>7, MemberCalls
<1>9. PICK s : s = SlotOf(1) /\ s = Cardinality(DOMAIN group) - Len(members)
  <2>1. SlotOf(1) = (n - L) + (1 - 1) /\ Cardinality(DOMAIN group) - Len(members) = n - L
    BY <1>4, <1>5, <1>7
  <2>2. SlotOf(1) = Cardinality(DOMAIN group) - Len(members)
    BY <1>5, <1>7, <2>1
  <2> QED BY <2>2
<1>10. group[s] = ask[m].req /\ Says(s, group[s])
  BY <1>1, <1>3, <1>6, <1>7, <1>9 DEF GroupInv
<1>11. Post(m, Done(Gathered(ids[s])))
  BY <1>6, <1>9 DEF SendDone
<1>12. /\ DOMAIN inbox' = Client
       /\ \A d \in Client : inbox'[d] # << >> => at[d] = "waiting"
       /\ \A d \in Client : d # m => inbox'[d] = inbox[d]
       /\ inbox'[m] = IF at[m] = "waiting" THEN Append(inbox[m], Done(Gathered(ids[s])))
                      ELSE inbox[m]
  BY <1>1, <1>11, PostFacts
<1>13. /\ members' \in Seq(Client) /\ DOMAIN members' = 1 .. L - 1 /\ Len(members') = L - 1
       /\ members' = << >> <=> L = 1
       /\ \A i \in 1 .. L - 1 : i + 1 \in DOMAIN members /\ members'[i] = members[i + 1]
  <2>1. members # << >>
    BY <1>4, <1>5
  <2>2. /\ Tail(members) \in Seq(Client) /\ DOMAIN Tail(members) = 1 .. L - 1
        /\ Len(Tail(members)) = L - 1
        /\ \A i \in 1 .. L - 1 : Tail(members)[i] = members[i + 1]
    BY <1>4, <1>5, <2>1
  <2>3. \A i \in 1 .. L - 1 : i + 1 \in DOMAIN members
    BY <1>4, <1>5
  <2>4. members' = Tail(members)
    BY <1>2
  <2>5. Tail(members) = << >> <=> L = 1
    BY <2>2
  <2> QED BY <2>2, <2>3, <2>4, <2>5
<1>14. /\ \A i, j \in DOMAIN members : members[i] = members[j] => i = j
       /\ \A i, j \in DOMAIN jobs : jobs[i] = jobs[j] => i = j
       /\ \A i \in DOMAIN jobs, j \in DOMAIN members : jobs[i] # members[j]
       /\ jobs \in Seq(Client)
  BY <1>1 DEF QueueInv
<1>15. QueueInv'
  <2>1. ASSUME NEW i \in DOMAIN members', NEW j \in DOMAIN members', members'[i] = members'[j]
        PROVE  i = j
    <3>1. i + 1 = j + 1 /\ i \in Int /\ j \in Int
      BY <1>13, <1>14, <2>1
    <3> QED BY <3>1
  <2>2. \A i \in DOMAIN jobs', j \in DOMAIN members' : jobs'[i] # members'[j]
    BY <1>2, <1>13, <1>14
  <2>3. sched' = "recv" <=> members' = << >>
    BY <1>2, <1>5, <1>13
  <2> QED BY <1>2, <1>13, <1>14, <2>1, <2>2, <2>3 DEF QueueInv
<1>16. \A d : InJobs(d)' <=> InJobs(d)
  BY <1>2 DEF InJobs
<1>17. ASSUME NEW d PROVE InGroup(d)' <=> InGroup(d) /\ d # m
  <2>1. ASSUME InGroup(d)' PROVE InGroup(d) /\ d # m
    <3>1. PICK i \in 1 .. L - 1 : members'[i] = d
      BY <1>13, <2>1 DEF InGroup
    <3>2. i + 1 \in DOMAIN members /\ members[i + 1] = d /\ i + 1 # 1
      BY <1>13, <3>1
    <3> QED BY <1>6, <1>7, <1>14, <3>2 DEF InGroup
  <2>2. ASSUME InGroup(d), d # m PROVE InGroup(d)'
    <3>1. PICK i \in DOMAIN members : members[i] = d
      BY <2>2 DEF InGroup
    <3>2. i - 1 \in 1 .. L - 1 /\ (i - 1) + 1 = i
      BY <1>4, <1>5, <1>6, <2>2, <3>1
    <3>3. members'[i - 1] = d
      BY <1>13, <3>1, <3>2
    <3> QED BY <1>13, <3>2, <3>3 DEF InGroup
  <2> QED BY <2>1, <2>2
<1>18. \A d : d # m => (Gone(d)' <=> Gone(d)) /\ (Result(d)' <=> Result(d))
  BY <1>2, <1>16, <1>17 DEF Gone, Result
<1>19. Gone(m)' /\ Result(m)' /\ ~Result(m)
  BY <1>2, <1>8, <1>16, <1>17 DEF Gone, Result
<1>20. ask' = ask /\ at' = at /\ here' = here
  BY <1>2 DEF connVars
<1>21. JobInv'
  <2> SUFFICES ASSUME NEW d \in Client
               PROVE  /\ InJobs(d)' \/ InGroup(d)' =>
                           /\ at[d] \in {"waiting", "closing", "closed"}
                           /\ sender'[d] = TRUE /\ Calls(ask[d])
                      /\ d \in lost => Gone(d)' /\ at[d] \notin {"absent", "opening"}
                      /\ at[d] \in {"opening", "waiting"} => Calls(ask[d])
    BY <1>2, <1>20 DEF JobInv
  <2>1. CASE d = m
    BY <1>1, <1>8, <1>16, <1>17, <2>1 DEF JobInv
  <2>2. CASE d # m
    <3>1. sender'[d] = sender[d]
      BY <1>1, <1>2, <1>6, <2>2 DEF TypeOK
    <3> QED BY <1>1, <1>16, <1>17, <1>18, <2>2, <3>1 DEF JobInv
  <2> QED BY <2>1, <2>2
<1>22. ASSUME NEW i \in 1 .. L - 1 PROVE SlotOf(i)' = SlotOf(i + 1)
  <2>1. SlotOf(i)' = (n - (L - 1)) + (i - 1)
    BY <1>2, <1>4, <1>13 DEF SlotOf
  <2>2. SlotOf(i + 1) = (n - L) + ((i + 1) - 1)
    BY <1>4, <1>5, <1>13
  <2> QED BY <1>5, <1>7, <2>1, <2>2
<1>23. GroupInv'
  <2> SUFFICES ASSUME InHand' PROVE GroupInv'
    BY DEF GroupInv
  <2>1. sched' = "deliver"
    BY <1>2 DEF InHand
  <2>2. ASSUME NEW i \in DOMAIN members'
        PROVE  /\ group'[SlotOf(i)'] = ask'[members'[i]].req
               /\ Says(SlotOf(i), group[SlotOf(i)])'
    <3>1. i \in 1 .. L - 1 /\ i + 1 \in DOMAIN members /\ members'[i] = members[i + 1]
      BY <1>13
    <3>2. PICK q, r : q = SlotOf(i + 1) /\ r = group[q]
      OBVIOUS
    <3>3. r = ask[members[i + 1]].req /\ Says(q, r)
      BY <1>1, <1>3, <3>1, <3>2 DEF GroupInv
    <3>4. SlotOf(i)' = q /\ group'[SlotOf(i)'] = r
      BY <1>2, <1>22, <3>1, <3>2
    <3>5. Says(q, r)'
      BY <1>2, <2>1, <3>3 DEF Says
    <3>6. Says(SlotOf(i), group[SlotOf(i)])' <=> Says(q, r)'
      BY <3>4 DEF Says
    <3> QED BY <1>20, <3>1, <3>3, <3>4, <3>5, <3>6
  <2>3. Len(members') <= Cardinality(DOMAIN group')
    BY <1>2, <1>4, <1>5, <1>7, <1>13
  <2> QED BY <1>1, <1>2, <1>3, <2>1, <2>2, <2>3 DEF GroupInv
<1>24. TypeOK'
  <2>1. Len(members') <= slots' /\ slots' \in 1 .. NSeq
    <3>1. PICK p \in Nat : p = slots
      BY <1>1, ServeAssumption DEF TypeOK
    <3>2. L <= p
      BY <1>1, <1>5, <3>1 DEF TypeOK
    <3>3. Len(members') <= p
      BY <1>5, <1>13, <3>1, <3>2
    <3> QED BY <1>1, <3>1, <3>3 DEF TypeOK
  <2>2. sender' \in [Client -> BOOLEAN]
    BY <1>1, <1>2 DEF TypeOK
  <2>3. sched' \in {"recv", "deliver"}
    BY <1>2
  <2>4. /\ ask' = ask /\ at' = at /\ todo' = todo /\ wire' = wire /\ shown' = shown
        /\ here' = here /\ gate' = gate /\ jobs' = jobs /\ lost' = lost
    BY <1>2 DEF connVars
  <2> QED BY <1>1, <1>12, <2>1, <2>2, <2>3, <2>4 DEF TypeOK
<1>25. \A d : AnswerTo(d)' = AnswerTo(d)
  BY <1>20 DEF AnswerTo
<1>26. ASSUME NEW d \in Client, here'[d] PROVE Orderly(d)'
  <2>1. Orderly(d) /\ (inbox'[d] = inbox[d] => Same(d))
    BY <1>1, <1>2, <1>20, <1>26, SchedSame
  <2>2. CASE d # m
    <3>1. ASSUME at[d] = "waiting", Serve!TooLong(ask[d].req) PROVE Told(d)'
      <4>1. Told(d)
        BY <2>1, <3>1 DEF Orderly, Waiting
      <4>2. inbox'[d] = inbox[d]
        BY <1>12, <2>2
      <4> QED BY <1>2, <1>3, <1>13, <1>22, <4>1, <4>2 DEF Told
    <3>2. ASSUME NEW k, Sent(d, k) PROVE Sent(d, k)'
      <4>1. ASSUME ~InHand' PROVE ~InGroup(d)'
        <5>1. sched' = "recv" /\ members' = << >>
          BY <1>2, <1>15, <4>1 DEF InHand, QueueInv
        <5> QED BY <5>1 DEF InGroup
      <4>2. ASSUME NEW i \in DOMAIN members', members'[i] = d
            PROVE  ids'[SlotOf(i)'] = SubSeq(AnswerTo(d), 1, k)
        BY <1>2, <1>3, <1>13, <1>22, <3>2, <4>2 DEF Sent
      <4> QED BY <1>16, <1>18, <1>25, <2>2, <3>2, <4>1, <4>2 DEF Sent
    <3> QED BY <1>2, <1>12, <1>18, <2>1, <2>2, <3>1, <3>2, OrderlyKept
  <2>3. CASE d = m /\ at[m] # "waiting"
    BY <1>2, <1>8, <1>12, <2>1, <2>3, OrderlyKept
  <2>4. CASE d = m /\ at[m] = "waiting"
    <3>1. Waiting(m) /\ Orderly(m) /\ IsSeq(inbox[m])
      BY <2>1, <2>4 DEF Orderly, Waiting
    <3>2. inbox'[m] = Append(inbox[m], Done(Gathered(ids[s])))
      BY <1>12, <2>4
    <3>3. \A i \in DOMAIN members' : members'[i] # m
      BY <1>17 DEF InGroup
    <3>4. CASE Serve!TooLong(ask[m].req)
      <4>1. s \in refused
        BY <1>2, <1>10, <3>4 DEF Says
      <4>2. Told(m)
        BY <3>1, <3>4 DEF Waiting
      <4>3. inbox[m] # << >> /\ Head(inbox[m]) = Fail
        BY <1>3, <1>6, <1>7, <1>9, <4>1, <4>2 DEF Told
      <4>4. IsSeq(inbox'[m]) /\ inbox'[m] # << >> /\ Head(inbox'[m]) = Fail
        BY <3>1, <3>2, <4>3, AppendFacts
      <4>5. Told(m)'
        BY <4>4 DEF Told
      <4>6. /\ ask'[m] = ask[m] /\ at'[m] = at[m] /\ todo'[m] = todo[m] /\ wire'[m] = wire[m]
            /\ shown'[m] = shown[m] /\ gate'[m] = gate[m]
        BY <1>2 DEF connVars
      <4>7. /\ NoText(m)' <=> NoText(m)
            /\ PendOut(todo[m])' = PendOut(todo[m]) /\ PendFrame(todo[m])' = PendFrame(todo[m])
            /\ Serve!TooLong(ask[m].req)'
        BY <3>4, <4>6 DEF NoText, PendOut, PendFrame, Serve!TooLong
      <4>8. Waiting(m)'
        BY <3>1, <3>4, <4>4, <4>5, <4>6, <4>7 DEF Waiting
      <4> QED BY <2>4, <3>1, <4>6, <4>7, <4>8 DEF Orderly
    <3>5. CASE ~Serve!TooLong(ask[m].req)
      <4>1. PICK k \in 0 .. Len(AnswerTo(m)) : \E j \in 0 .. k :
                Heard(m, j) /\ Sent(m, k) /\ Carries(m, j, k)
        BY <3>1, <3>5 DEF Waiting
      <4>2. PICK j \in 0 .. k : Heard(m, j) /\ Sent(m, k) /\ Carries(m, j, k)
        BY <4>1
      <4>3. PICK a \in Seq(Tok) : a = AnswerTo(m) /\ a = Answer(ask[m].req)
        BY <1>8, <3>5, AnswerFacts DEF Fits, Path, AnswerTo
      <4>4. ids[s] = SubSeq(a, 1, k)
        BY <1>3, <1>6, <1>7, <1>9, <4>2, <4>3 DEF Sent
      <4>5. \E l \in 0 .. Len(a) : ids[s] = SubSeq(a, 1, l) /\ l = Len(a)
        BY <1>2, <1>10, <3>5, <4>3 DEF Says
      <4>6. ids[s] = a
        BY <4>3, <4>5
      <4>7. k = Len(a) /\ k \in Nat
        <5>1. k \in 0 .. Len(a) /\ Len(a) \in Nat
          BY <4>1, <4>3
        <5>2. Len(SubSeq(a, 1, k)) = k
          BY <4>3, <5>1
        <5> QED BY <4>4, <4>6, <5>1, <5>2
      <4>8. IsSeq(inbox'[m]) /\ Carries(m, j, k)'
        BY <1>19, <1>25, <3>1, <3>2, <4>2, <4>3, <4>6, <4>7, CarriesMore
      <4>9. Sent(m, k)'
        BY <1>8, <1>16, <1>17, <1>25, <3>3, <4>3, <4>7 DEF Sent
      <4>10. Orderly(m)'
        BY <1>2, <2>4, <3>1, <3>5, <4>1, <4>2, <4>8, <4>9, WaitingKept
      <4> QED BY <2>4, <4>10
    <3> QED BY <3>4, <3>5
  <2> QED BY <2>2, <2>3, <2>4
<1> QED BY <1>15, <1>21, <1>23, <1>24, <1>26 DEF ServerInv, JobsInv

LEMMA DropStep ==
    ASSUME ServerInv, GroupDropped, slots' = slots
    PROVE  ServerInv'
<1>1. /\ TypeOK /\ QueueInv /\ JobInv /\ JobsInv
      /\ \A d \in Client : here[d] => Orderly(d)
  BY DEF ServerInv, JobsInv
<1>2. /\ sched = "serve" /\ sched' = "recv"
      /\ connVars' = connVars /\ inbox' = inbox /\ jobs' = jobs /\ members' = << >>
      /\ sender' = [c \in Client |-> sender[c] /\ c \notin Range(members)]
      /\ lost' = lost \union Range(members)
  BY DEF GroupDropped
<1>3. \A d : d \in Range(members) <=> InGroup(d)
  BY DEF Range, InGroup
<1>4. \A d : d \in lost' <=> d \in lost \/ InGroup(d)
  BY <1>2, <1>3
<1>5. \A d : (InJobs(d)' <=> InJobs(d)) /\ ~InGroup(d)'
  BY <1>2 DEF InJobs, InGroup
<1>6. \A d : InGroup(d) => ~InJobs(d)
  BY <1>1 DEF QueueInv, InGroup, InJobs
<1>7. \A d : /\ Gone(d)' <=> (Gone(d) \/ InGroup(d))
             /\ Result(d)' <=> Result(d)
  BY <1>4, <1>5, <1>6 DEF Gone, Result
<1>8. ask' = ask /\ at' = at /\ here' = here
  BY <1>2 DEF connVars
<1>9. QueueInv'
  <2>1. /\ jobs \in Seq(Client) /\ << >> \in Seq(Client) /\ DOMAIN << >> = {}
        /\ \A i, j \in DOMAIN jobs : jobs[i] = jobs[j] => i = j
    BY <1>1 DEF QueueInv
  <2> QED BY <1>2, <2>1 DEF QueueInv
<1>10. JobInv'
  <2> SUFFICES ASSUME NEW d \in Client
               PROVE  /\ InJobs(d) => /\ at[d] \in {"waiting", "closing", "closed"}
                                      /\ sender'[d] = TRUE /\ Calls(ask[d])
                      /\ d \in lost \/ InGroup(d) =>
                           Gone(d)' /\ at[d] \notin {"absent", "opening"}
                      /\ at[d] \in {"opening", "waiting"} => Calls(ask[d])
    BY <1>4, <1>5, <1>8 DEF JobInv
  <2>1. InJobs(d) => sender[d] = TRUE /\ ~InGroup(d)
    BY <1>1, <1>6 DEF JobInv
  <2>2. InJobs(d) => sender'[d] = TRUE
    BY <1>2, <1>3, <2>1
  <2> QED BY <1>1, <1>7, <2>2 DEF JobInv
<1>11. GroupInv'
  BY <1>2 DEF GroupInv, InHand
<1>12. TypeOK'
  <2>1. lost' \subseteq Client
    BY <1>1, <1>2 DEF TypeOK, QueueInv, Range
  <2>2. sender' \in [Client -> BOOLEAN]
    BY <1>1, <1>2 DEF TypeOK
  <2>3. Len(members') <= slots' /\ slots' \in 1 .. NSeq
    <3>1. slots \in 1 .. NSeq /\ NSeq \in Nat /\ Len(<< >>) = 0
      BY <1>1, ServeAssumption DEF TypeOK
    <3> QED BY <1>2, <3>1
  <2>4. /\ todo' = todo /\ wire' = wire /\ shown' = shown /\ gate' = gate
    BY <1>2 DEF connVars
  <2> QED BY <1>1, <1>2, <1>8, <2>1, <2>2, <2>3, <2>4 DEF TypeOK
<1>13. ASSUME NEW d \in Client, here'[d] PROVE Orderly(d)'
  <2>1. Orderly(d) /\ Same(d)
    BY <1>1, <1>2, <1>8, <1>13, SchedSame
  <2>2. ~InHand'
    BY <1>2 DEF InHand
  <2>3. ASSUME at[d] = "waiting", Serve!TooLong(ask[d].req) PROVE Told(d)'
    <3>1. Told(d)
      BY <2>1, <2>3 DEF Orderly, Waiting
    <3> QED BY <1>2, <2>2, <3>1 DEF Told
  <2>4. AnswerTo(d)' = AnswerTo(d)
    BY <1>8 DEF AnswerTo
  <2>5. ASSUME NEW n, Sent(d, n) PROVE Sent(d, n)'
    BY <1>5, <1>7, <2>2, <2>4, <2>5 DEF Sent
  <2>6. Gone(d) => Gone(d)' /\ (d \in lost' <=> d \in lost)
    BY <1>4, <1>7 DEF Gone
  <2> QED BY <1>7, <2>1, <2>3, <2>5, <2>6, OrderlyKept
<1> QED BY <1>9, <1>10, <1>11, <1>12, <1>13 DEF ServerInv, JobsInv

-----------------------------------------------------------------------------
(* The theorems *)

LEMMA ServerStart ==
    ASSUME Init
    PROVE  ServerInv
<1> USE DEF Init
<1>1. slots \in 1 .. NSeq /\ NSeq \in Nat /\ Len(<< >>) = 0 /\ << >> \in Seq(Client)
  BY ServeAssumption
<1>2. TypeOK
  BY <1>1 DEF TypeOK
<1>3. DOMAIN jobs = {} /\ DOMAIN members = {}
  OBVIOUS
<1>4. QueueInv
  BY <1>1, <1>3 DEF QueueInv
<1>5. JobInv
  BY <1>3 DEF JobInv, InJobs, InGroup
<1>6. GroupInv
  BY DEF GroupInv, InHand
<1>7. ASSUME NEW d \in Client PROVE Orderly(d)
  <2>1. /\ wire[d] = << >> /\ todo[d] = << >> /\ shown[d] = << >> /\ gate[d] = NewGate
        /\ at[d] = "absent"
    OBVIOUS
  <2>2. PendOut(todo[d]) = << >> /\ PendFrame(todo[d]) = << >>
    BY <2>1 DEF PendOut, PendFrame
  <2> QED BY <2>1, <2>2, PlainEmpty DEF Orderly, Fresh, NoText
<1> QED BY <1>2, <1>4, <1>5, <1>6, <1>7 DEF ServerInv, JobsInv

LEMMA ServerStill ==
    ASSUME ServerInv, vars' = vars
    PROVE  ServerInv'
<1>1. /\ connVars' = connVars /\ inbox' = inbox /\ sender' = sender /\ jobs' = jobs
      /\ slots' = slots /\ sched' = sched /\ members' = members /\ lost' = lost
      /\ group' = group /\ refused' = refused /\ ids' = ids
  BY DEF vars, schedVars, engineVars
<1>2. Away
  BY <1>1 DEF Away
<1>3. ask' = ask /\ at' = at /\ here' = here
  BY <1>1 DEF connVars
<1>4. JobsInv'
  <2>1. TypeOK'
    BY <1>1 DEF TypeOK, ServerInv, JobsInv, connVars
  <2>2. QueueInv' /\ JobInv' /\ GroupInv'
    BY <1>1, <1>2, <1>3, JobsKept DEF ServerInv, JobsInv, JobInv
  <2> QED BY <2>1, <2>2 DEF JobsInv
<1>5. ASSUME NEW d \in Client, here'[d] PROVE Orderly(d)'
  <2>1. Orderly(d) /\ Same(d) /\ (InJobs(d)' <=> InJobs(d))
    BY <1>1, <1>3, <1>5, SchedSame DEF ServerInv, InJobs
  <2> QED BY <1>2, <2>1, OthersKept
<1> QED BY <1>4, <1>5 DEF ServerInv

LEMMA ServerStep ==
    ASSUME ServerInv, [Next]_vars
    PROVE  ServerInv'
<1>1. ASSUME NEW c \in Client, Accept(c) \/ NoRequest(c) \/ HangUp(c) \/ Connection(c)
      PROVE  ServerInv'
  BY <1>1, ConnStep
<1>2. ASSUME Scheduler PROVE ServerInv'
  <2>1. slots' = slots
    BY <1>2 DEF Scheduler
  <2>2. ASSUME NEW s \in DOMAIN group, RefuseJob(s) \/ EmitToken(s) PROVE ServerInv'
    BY <2>1, <2>2, RefuseStep, EmitStep
  <2> QED BY <1>2, <2>1, <2>2, TakeStep, StartStep, DoneStep, SendStep, DropStep DEF Scheduler
<1> QED BY <1>1, <1>2, ServerStill DEF Next

\* ServerInv holds from the start and every step of the threads keeps it.
THEOREM ServerInvariant == Spec => []ServerInv
<1>1. Init => ServerInv
  BY ServerStart
<1>2. ServerInv /\ [Next]_vars => ServerInv'
  BY ServerStep
<1> QED BY <1>1, <1>2, PTL DEF Spec

\* Every variable of the connection threads and the scheduler has its type, no
\* group is larger than the slots, and a channel holds messages only for a thread
\* that reads it.
THEOREM ServerTypeCorrect == Spec => []TypeOK
<1>1. ServerInv => TypeOK
  BY DEF ServerInv, JobsInv
<1> QED BY <1>1, ServerInvariant, PTL

LEMMA LastWords ==
    ASSUME NEW c \in Client, TypeOK, at[c] = "closed", Orderly(c)
    PROVE  /\ Finishing(c) /\ PendFrame(todo[c]) = << >> /\ PendOut(todo[c]) = << >>
           /\ wire[c] \o << >> = wire[c] /\ ToShow(c) = shown[c]
<1>1. todo[c] = << >>
  BY DEF TypeOK
<1>2. PendFrame(todo[c]) = << >> /\ PendOut(todo[c]) = << >>
  BY <1>1 DEF PendFrame, PendOut
<1>3. Finishing(c) /\ IsSeq(wire[c])
  BY DEF Orderly
<1> QED BY <1>2, <1>3, SeqFacts DEF ToShow, Shows

\* A client that stayed got one whole response, that of its own request: the text
\* is the engine's answer to it alone, taken through its own gate, and where its
\* group failed the response is broken off after a first part of it.
THEOREM ResponsesOwn == Spec => []OwnAnswer
<1>1. ServerInv => OwnAnswer
  <2> SUFFICES ASSUME ServerInv, NEW c \in Client, at[c] = "closed", here[c]
               PROVE  IF Static(ask[c]) THEN wire[c] = StaticReply(ask[c]) /\ shown[c] = << >>
                      ELSE IF Serve!TooLong(ask[c].req) THEN Refused(c)
                      ELSE IF c \in lost THEN BrokenOff(c)
                      ELSE Completed(c)
    BY DEF OwnAnswer
  <2>1. /\ Finishing(c) /\ PendFrame(todo[c]) = << >> /\ PendOut(todo[c]) = << >>
        /\ wire[c] \o << >> = wire[c] /\ ToShow(c) = shown[c]
    BY LastWords DEF ServerInv, JobsInv
  <2>2. \A e : Script(c, e) => wire[c] = Opening(ask[c]) \o e
    BY <2>1 DEF Script
  <2>3. NoText(c) <=> shown[c] = << >>
    BY <2>1 DEF NoText
  <2>4. CASE Static(ask[c])
    BY <2>1, <2>3, <2>4 DEF Finishing
  <2>5. CASE ~Static(ask[c]) /\ Serve!TooLong(ask[c].req)
    BY <2>1, <2>2, <2>3, <2>5 DEF Finishing, Refused
  <2>6. CASE ~Static(ask[c]) /\ ~Serve!TooLong(ask[c].req) /\ c \in lost
    <3>1. wire[c] = Opening(ask[c]) \o Errors(ask[c])
      BY <2>1, <2>2, <2>6 DEF Finishing
    <3>2. PICK n \in 0 .. Len(AnswerTo(c)) : Tells(c, n)
      BY <2>1, <2>6 DEF Finishing
    <3>3. shown[c] = IF ask[c].stream THEN Streamed(AnswerTo(c), n) ELSE << >>
      BY <2>1, <2>3, <3>2 DEF Tells
    <3> QED BY <2>6, <3>1, <3>3 DEF BrokenOff, AnswerTo
  <2>7. CASE ~Static(ask[c]) /\ ~Serve!TooLong(ask[c].req) /\ c \notin lost
    <3>1. PICK a : a = AnswerTo(c) /\ a = Answer(ask[c].req)
      BY DEF AnswerTo
    <3>2. /\ wire[c] = Opening(ask[c]) \o (IF ask[c].stream THEN Closing(ask[c])
                                           ELSE Whole(Gathered(a)))
          /\ Tells(c, Len(a)) /\ ask[c] \in Asks
      BY <2>1, <2>2, <2>7, <3>1 DEF Finishing
    <3>3. CASE ask[c].stream
      <4>1. shown[c] = Streamed(a, Len(a))
        BY <2>1, <3>1, <3>2, <3>3 DEF Tells
      <4>2. wire[c] = Opening(ask[c]) \o Closing(ask[c])
        BY <3>2, <3>3
      <4>3. Completed(c)
        BY <3>1, <3>3, <4>1, <4>2 DEF Completed
      <4> QED BY <2>7, <4>3
    <3>4. CASE ~ask[c].stream
      <4>1. shown[c] = << >>
        BY <2>3, <3>2, <3>4 DEF Tells
      <4>2. Opening(ask[c]) = << >> /\ IsSeq(Whole(Gathered(a)))
        BY <3>2, <3>4, ScriptsPlain DEF Plain
      <4>3. << >> \o Whole(Gathered(a)) = Whole(Gathered(a))
        BY <4>2, SeqFacts
      <4>4. wire[c] = Whole(Gathered(a))
        BY <3>2, <3>4, <4>2, <4>3
      <4>5. Completed(c)
        BY <3>1, <3>4, <4>1, <4>4 DEF Completed
      <4> QED BY <2>7, <4>5
    <3> QED BY <3>3, <3>4
  <2> QED BY <2>4, <2>5, <2>6, <2>7
<1> QED BY <1>1, ServerInvariant, PTL

\* Text is written to a client after the whole opening of its response and before
\* anything of its end.
THEOREM TextBetween == Spec => TextInPlace
<1>1. ASSUME ServerInv, [Next]_vars, NEW c \in Client, shown'[c] # shown[c]
      PROVE  wire[c] = Opening(ask[c])
  <2>1. TypeOK /\ (here[c] => Orderly(c))
    BY <1>1 DEF ServerInv, JobsInv
  <2>2. ASSUME NEW d \in Client, Write(d) PROVE wire[c] = Opening(ask[c])
    <3>1. here[d] /\ IsDelta(Head(todo[d])) /\ d = c /\ todo[d] # << >>
      BY <1>1, <2>1, <2>2 DEF Write, TypeOK
    <3>2. PendOut(todo[c]) = <<Head(todo[c])[2]>>
      BY <3>1 DEF PendOut
    <3>3. PendOut(todo[c]) # << >>
      BY <3>2
    <3> QED BY <2>1, <3>1, <3>3 DEF Orderly
  <2>3. (\E d \in Client : Write(d)) \/ shown' = shown
    <3>1. Scheduler \/ vars' = vars => shown' = shown
      BY DEF Scheduler, TakeFirst, TakeWaiting, StartGroup, RefuseJob, EmitToken, GroupDone,
             SendDone, GroupDropped, connVars, vars
    <3>2. ASSUME NEW d \in Client, Accept(d) \/ NoRequest(d) \/ HangUp(d) \/ Connection(d), ~Write(d)
          PROVE  shown' = shown
      BY <3>2 DEF Accept, NoRequest, HangUp, Connection, WriteFails, Submit, Close, HearToken,
                  HearDone, HearFail, EndsWith
    <3> QED BY <1>1, <3>1, <3>2 DEF Next
  <2> QED BY <1>1, <2>2, <2>3
<1>2. ServerInv /\ [Next]_vars =>
        [\A c \in Client : shown'[c] # shown[c] => wire[c] = Opening(ask[c])]_vars
  BY <1>1
<1> QED BY <1>2, ServerInvariant, PTL DEF Spec, TextInPlace
=============================================================================
