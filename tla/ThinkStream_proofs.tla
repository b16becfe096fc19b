------------------------- MODULE ThinkStream_proofs -------------------------
(***************************************************************************)
(* Theorems about the gate and one stream through it, for every set of     *)
(* pieces, every hold limit and every text.                                *)
(***************************************************************************)
EXTENDS ThinkStream, TLAPS, WellFoundedInduction, FiniteSetTheorems

Text == Seq(Symbol)

-----------------------------------------------------------------------------
(* The least element of a set of places                                     *)

LessThan == {p \in Nat \X Nat : p[1] < p[2]}

LEMMA NatLess == IsWellFoundedOn(LessThan, Nat)
<1>1. OpToRel(<, Nat) = LessThan
  BY DEF OpToRel, LessThan
<1> QED BY <1>1, NatLessThanWellFounded

LEMMA MinFound ==
    ASSUME NEW S, S \subseteq Nat, S # {}
    PROVE  Min(S) \in S /\ \A y \in S : Min(S) <= y
<1>1. \E x \in S : \A y \in S : ~ (<<y, x>> \in LessThan)
  BY NatLess, WFMin
<1>2. ASSUME NEW x \in S, NEW y \in S, <<y, x>> \notin LessThan
      PROVE  x <= y
  BY <1>2, SMT DEF LessThan
<1>3. \E x \in S : \A y \in S : x <= y
  BY <1>1, <1>2
<1> QED BY <1>3 DEF Min

LEMMA MinIs ==
    ASSUME NEW S, S \subseteq Nat, NEW c \in S, \A y \in S : c <= y
    PROVE  Min(S) = c
<1>1. Min(S) \in S /\ Min(S) <= c
  BY MinFound
<1>2. c <= Min(S) /\ Min(S) \in Nat /\ c \in Nat
  BY <1>1
<1> HIDE DEF Min
<1> QED BY <1>1, <1>2

-----------------------------------------------------------------------------
(* Text                                                                     *)

LEMMA Joined ==
    ASSUME NEW s \in Text, NEW t \in Text
    PROVE  /\ s \o t \in Text /\ Len(s \o t) = Len(s) + Len(t)
           /\ \A i \in 1 .. Len(s) : (s \o t)[i] = s[i]
           /\ \A i \in 1 .. Len(t) : (s \o t)[Len(s) + i] = t[i]
  BY DEF Text

LEMMA Rest ==
    ASSUME NEW t \in Text, NEW j \in 1 .. Len(t) + 1
    PROVE  /\ From(t, j) \in Text /\ Len(From(t, j)) = Len(t) - j + 1
           /\ \A m \in 1 .. Len(t) - j + 1 : From(t, j)[m] = t[j + m - 1]
  BY DEF Text, From

LEMMA Front ==
    ASSUME NEW t \in Text, NEW k \in 0 .. Len(t)
    PROVE  /\ SubSeq(t, 1, k) \in Text /\ Len(SubSeq(t, 1, k)) = k
           /\ \A m \in 1 .. k : SubSeq(t, 1, k)[m] = t[m]
  BY DEF Text

LEMMA SameText ==
    ASSUME NEW s \in Text, NEW t \in Text, Len(s) = Len(t),
           \A i \in 1 .. Len(s) : s[i] = t[i]
    PROVE  s = t
  BY DEF Text

LEMMA Regroup ==
    ASSUME NEW s \in Text, NEW t \in Text, NEW u \in Text
    PROVE  (s \o t) \o u = s \o (t \o u)
<1> DEFINE a == (s \o t) \o u
           b == s \o (t \o u)
<1>1. /\ a \in Text /\ b \in Text
      /\ Len(a) = Len(s) + Len(t) + Len(u) /\ Len(b) = Len(a)
      /\ Len(s) \in Nat /\ Len(t) \in Nat /\ Len(u) \in Nat
  BY Joined DEF Text
<1>2. ASSUME NEW i \in 1 .. Len(a)
      PROVE  a[i] = b[i]
  BY <1>1 DEF Text
<1> HIDE DEF a, b
<1>3. a = b
  BY <1>1, <1>2, SameText
<1> QED BY <1>3 DEF a, b

LEMMA RestOfJoined ==
    ASSUME NEW t \in Text, NEW p \in Text, NEW j \in 1 .. Len(t) + 1
    PROVE  From(t \o p, j) = From(t, j) \o p
<1> DEFINE u == t \o p
           r == From(t, j)
<1>1. /\ Len(t) \in Nat /\ Len(p) \in Nat /\ j \in Nat
      /\ u \in Text /\ Len(u) = Len(t) + Len(p)
      /\ \A i \in 1 .. Len(t) : u[i] = t[i]
      /\ \A i \in 1 .. Len(p) : u[Len(t) + i] = p[i]
  BY Joined DEF Text
<1>2. /\ r \in Text /\ Len(r) = Len(t) - j + 1
      /\ \A m \in 1 .. Len(t) - j + 1 : r[m] = t[j + m - 1]
  BY Rest
<1> HIDE DEF u, r
<1>3. j \in 1 .. Len(u) + 1
  BY <1>1
<1>4. /\ From(u, j) \in Text /\ Len(From(u, j)) = Len(u) - j + 1
      /\ \A m \in 1 .. Len(u) - j + 1 : From(u, j)[m] = u[j + m - 1]
  BY <1>1, <1>3, Rest
<1>5. /\ r \o p \in Text /\ Len(r \o p) = Len(r) + Len(p)
      /\ \A i \in 1 .. Len(r) : (r \o p)[i] = r[i]
      /\ \A i \in 1 .. Len(p) : (r \o p)[Len(r) + i] = p[i]
  BY <1>2, Joined
<1> DEFINE a == From(u, j)
           b == r \o p
<1> HIDE DEF a, b
<1>6. ASSUME NEW i \in 1 .. Len(u) - j + 1
      PROVE  a[i] = b[i]
  <2>1. a[i] = u[j + i - 1]
    BY <1>4 DEF a
  <2>2. CASE i <= Len(t) - j + 1
    <3>1. j + i - 1 \in 1 .. Len(t) /\ i \in 1 .. Len(r)
      BY <1>1, <1>2, <2>2
    <3>2. b[i] = r[i] /\ r[i] = t[j + i - 1] /\ u[j + i - 1] = t[j + i - 1]
      BY <1>1, <1>2, <1>5, <3>1 DEF b
    <3> QED BY <2>1, <3>2
  <2>3. CASE i > Len(t) - j + 1
    <3> DEFINE m == i - (Len(t) - j + 1)
    <3>1. m \in 1 .. Len(p) /\ i = Len(r) + m /\ j + i - 1 = Len(t) + m
      BY <1>1, <1>2, <2>3
    <3> HIDE DEF m
    <3>2. b[i] = p[m] /\ u[j + i - 1] = p[m]
      BY <1>1, <1>5, <3>1 DEF b
    <3> QED BY <2>1, <3>2
  <2> QED BY <1>1, <2>2, <2>3
<1>7. a \in Text /\ b \in Text /\ Len(a) = Len(u) - j + 1 /\ Len(b) = Len(a)
  BY <1>1, <1>2, <1>4, <1>5 DEF a, b
<1>8. a = b
  BY <1>6, <1>7, SameText
<1> QED BY <1>8 DEF a, b, u, r

LEMMA FrontOfJoined ==
    ASSUME NEW t \in Text, NEW p \in Text, NEW k \in 0 .. Len(t)
    PROVE  SubSeq(t \o p, 1, k) = SubSeq(t, 1, k)
<1>1. /\ Len(t) \in Nat /\ Len(p) \in Nat
      /\ t \o p \in Text /\ Len(t \o p) = Len(t) + Len(p)
  BY Joined DEF Text
<1>2. k \in 0 .. Len(t \o p)
  BY <1>1
<1>3. \A i \in 1 .. k : SubSeq(t \o p, 1, k)[i] = SubSeq(t, 1, k)[i]
  BY <1>1, <1>2, Front, Joined
<1> QED BY <1>1, <1>2, <1>3, Front, SameText

-----------------------------------------------------------------------------
(* Tags                                                                     *)

\* No tag begins in t.
Quiet(t) == \A i \in 1 .. Len(t) : t[i] # "<"

\* The first tag of t is closed.
Closed(t) == Tags(t) # {} /\ Closers(t, Min(Tags(t))) # {}

LEMMA Places ==
    ASSUME NEW t \in Text
    PROVE  /\ Len(t) \in Nat
           /\ \A i \in Tags(t) : i \in Nat /\ i >= 1 /\ i < Len(t)
           /\ \A i \in Nat : \A c \in Closers(t, i) : c \in Nat /\ i <= c /\ c <= Len(t)
<1>1. Len(t) \in Nat
  BY DEF Text
<1>2. \A i \in Tags(t) : i \in Nat /\ i >= 1 /\ i < Len(t)
  BY <1>1 DEF Tags
<1>3. \A i \in Nat : \A c \in Closers(t, i) : c \in Nat /\ i <= c /\ c <= Len(t)
  BY <1>1 DEF Closers
<1> QED BY <1>1, <1>2, <1>3

LEMMA TagsOfJoined ==
    ASSUME NEW s \in Text, NEW t \in Text
    PROVE  /\ \A i \in Tags(s) : i \in Tags(s \o t)
           /\ \A i \in Tags(t) : Len(s) + i \in Tags(s \o t)
           /\ Quiet(s) => \A i \in Tags(s \o t) : i - Len(s) \in Tags(t)
<1> DEFINE u == s \o t
<1>1. /\ Len(s) \in Nat /\ Len(t) \in Nat
      /\ u \in Text /\ Len(u) = Len(s) + Len(t)
      /\ \A i \in 1 .. Len(s) : u[i] = s[i]
      /\ \A i \in 1 .. Len(t) : u[Len(s) + i] = t[i]
  BY Joined DEF Text
<1> HIDE DEF u
<1>2. ASSUME NEW i \in Tags(s)
      PROVE  i \in Tags(u)
  <2>1. i \in 1 .. Len(s) - 1 /\ s[i] = "<" /\ s[i + 1] = "T"
    BY DEF Tags
  <2>2. i \in 1 .. Len(u) - 1 /\ u[i] = s[i] /\ u[i + 1] = s[i + 1]
    BY <1>1, <2>1
  <2> QED BY <2>1, <2>2 DEF Tags
<1>3. ASSUME NEW i \in Tags(t)
      PROVE  Len(s) + i \in Tags(u)
  <2>1. i \in 1 .. Len(t) - 1 /\ t[i] = "<" /\ t[i + 1] = "T"
    BY DEF Tags
  <2>2. /\ Len(s) + i \in 1 .. Len(u) - 1 /\ u[Len(s) + i] = t[i]
        /\ u[Len(s) + (i + 1)] = t[i + 1] /\ Len(s) + (i + 1) = (Len(s) + i) + 1
    BY <1>1, <2>1
  <2> QED BY <2>1, <2>2 DEF Tags
<1>4. ASSUME Quiet(s), NEW i \in Tags(u)
      PROVE  i - Len(s) \in Tags(t)
  <2>1. i \in 1 .. Len(u) - 1 /\ u[i] = "<" /\ u[i + 1] = "T"
    BY DEF Tags
  <2>2. i > Len(s)
    BY <1>1, <1>4, <2>1 DEF Quiet
  <2> DEFINE m == i - Len(s)
  <2>3. /\ m \in 1 .. Len(t) - 1 /\ m + 1 \in 1 .. Len(t)
        /\ i = Len(s) + m /\ i + 1 = Len(s) + (m + 1)
    BY <1>1, <2>1, <2>2
  <2> HIDE DEF m
  <2>4. t[m] = "<" /\ t[m + 1] = "T"
    BY <1>1, <2>1, <2>3
  <2>5. m \in Tags(t)
    BY <2>3, <2>4 DEF Tags
  <2> QED BY <2>5 DEF m
<1>5. /\ \A i \in Tags(s) : i \in Tags(u)
      /\ \A i \in Tags(t) : Len(s) + i \in Tags(u)
      /\ Quiet(s) => \A i \in Tags(u) : i - Len(s) \in Tags(t)
  BY <1>2, <1>3, <1>4
<1> QED BY <1>5 DEF u

LEMMA ClosersOfJoined ==
    ASSUME NEW s \in Text, NEW t \in Text
    PROVE  /\ \A i \in 1 .. Len(s) : \A c \in Closers(s, i) : c \in Closers(s \o t, i)
           /\ \A i \in 1 .. Len(s) : \A c \in Closers(s \o t, i) :
                 c <= Len(s) => c \in Closers(s, i)
           /\ \A i \in 1 .. Len(t) : \A c \in Closers(t, i) :
                 Len(s) + c \in Closers(s \o t, Len(s) + i)
           /\ \A i \in 1 .. Len(t) : \A c \in Closers(s \o t, Len(s) + i) :
                 c - Len(s) \in Closers(t, i)
<1> DEFINE u == s \o t
<1>1. /\ Len(s) \in Nat /\ Len(t) \in Nat
      /\ u \in Text /\ Len(u) = Len(s) + Len(t)
      /\ \A i \in 1 .. Len(s) : u[i] = s[i]
      /\ \A i \in 1 .. Len(t) : u[Len(s) + i] = t[i]
  BY Joined DEF Text
<1> HIDE DEF u
<1>2. ASSUME NEW i \in 1 .. Len(s)
      PROVE  /\ \A c \in Closers(s, i) : c \in Closers(u, i)
             /\ \A c \in Closers(u, i) : c <= Len(s) => c \in Closers(s, i)
  BY <1>1 DEF Closers
<1>3. ASSUME NEW i \in 1 .. Len(t), NEW c \in Closers(t, i)
      PROVE  Len(s) + c \in Closers(u, Len(s) + i)
  BY <1>1 DEF Closers
<1>4. ASSUME NEW i \in 1 .. Len(t), NEW c \in Closers(u, Len(s) + i)
      PROVE  c - Len(s) \in Closers(t, i)
  <2> DEFINE m == c - Len(s)
  <2>1. m \in i .. Len(t) /\ c = Len(s) + m /\ u[c] = ">"
    BY <1>1 DEF Closers
  <2> HIDE DEF m
  <2>2. t[m] = ">"
    BY <1>1, <2>1
  <2>3. m \in Closers(t, i)
    BY <2>1, <2>2 DEF Closers
  <2> QED BY <2>3 DEF m
<1> QED BY <1>2, <1>3, <1>4 DEF u

\* More text does not move the bracket that closes a tag ...
LEMMA CloserStays ==
    ASSUME NEW s \in Text, NEW t \in Text, NEW i \in 1 .. Len(s), Closers(s, i) # {}
    PROVE  Closers(s \o t, i) # {} /\ Min(Closers(s \o t, i)) = Min(Closers(s, i))
<1> DEFINE c == Min(Closers(s, i))
<1>1. Closers(s, i) \subseteq Nat /\ Closers(s \o t, i) \subseteq Nat
  BY DEF Closers
<1>2. c \in Closers(s, i) /\ \A d \in Closers(s, i) : c <= d
  BY <1>1, MinFound
<1>3. c \in Nat /\ c <= Len(s) /\ Len(s) \in Nat
  BY <1>2 DEF Closers, Text
<1> HIDE DEF c
<1>4. c \in Closers(s \o t, i)
  BY <1>2, ClosersOfJoined
<1>5. ASSUME NEW d \in Closers(s \o t, i)
      PROVE  c <= d
  <2>1. d \in Nat
    BY <1>1
  <2>2. d <= Len(s) => d \in Closers(s, i)
    BY ClosersOfJoined
  <2> QED BY <1>2, <1>3, <2>1, <2>2
<1>6. Min(Closers(s \o t, i)) = c
  BY <1>1, <1>4, <1>5, MinIs
<1> QED BY <1>4, <1>6 DEF c

\* ... and text before it moves it along.
LEMMA CloserMoves ==
    ASSUME NEW s \in Text, NEW t \in Text, NEW i \in 1 .. Len(t), Closers(t, i) # {}
    PROVE  /\ Closers(s \o t, Len(s) + i) # {}
           /\ Min(Closers(s \o t, Len(s) + i)) = Len(s) + Min(Closers(t, i))
<1> DEFINE c == Min(Closers(t, i))
<1>1. Closers(t, i) \subseteq Nat /\ Closers(s \o t, Len(s) + i) \subseteq Nat
  BY DEF Closers, Text
<1>2. c \in Closers(t, i) /\ \A d \in Closers(t, i) : c <= d
  BY <1>1, MinFound
<1>3. c \in Nat /\ Len(s) \in Nat
  BY <1>1, <1>2 DEF Text
<1> HIDE DEF c
<1>4. Len(s) + c \in Closers(s \o t, Len(s) + i)
  BY <1>2, ClosersOfJoined
<1>5. ASSUME NEW d \in Closers(s \o t, Len(s) + i)
      PROVE  Len(s) + c <= d
  <2>1. d - Len(s) \in Closers(t, i) /\ d \in Nat
    BY <1>1, ClosersOfJoined
  <2>2. c <= d - Len(s)
    BY <1>2, <2>1
  <2> QED BY <1>3, <2>1, <2>2
<1>6. Min(Closers(s \o t, Len(s) + i)) = Len(s) + c
  BY <1>1, <1>4, <1>5, MinIs
<1> QED BY <1>4, <1>6 DEF c

LEMMA SomeClosed ==
    ASSUME NEW t \in Text, NEW i \in Tags(t), Closers(t, i) # {}
    PROVE  Closed(t)
<1>1. Tags(t) \subseteq Nat /\ Tags(t) # {}
  BY Places
<1>2. Min(Tags(t)) \in Nat /\ Min(Tags(t)) <= i /\ i \in Nat
  BY <1>1, MinFound
<1>3. Closers(t, i) \subseteq Closers(t, Min(Tags(t)))
  <2> DEFINE a == Min(Tags(t))
  <2> HIDE DEF a
  <2>1. a \in Nat /\ a <= i
    BY <1>2 DEF a
  <2>2. Len(t) \in Nat
    BY DEF Text
  <2>3. Closers(t, i) \subseteq Closers(t, a)
    BY <1>2, <2>1, <2>2 DEF Closers
  <2> QED BY <2>3 DEF a
<1> QED BY <1>1, <1>3 DEF Closed

-----------------------------------------------------------------------------
(* What is cut out                                                          *)

LEMMA RestOfRest ==
    ASSUME NEW t \in Text, NEW j \in 1 .. Len(t) + 1, NEW m \in 1 .. Len(t) - j + 2
    PROVE  From(From(t, j), m) = From(t, j + m - 1)
<1> DEFINE r == From(t, j)
<1>1. Len(t) \in Nat
  BY DEF Text
<1>2. /\ r \in Text /\ Len(r) = Len(t) - j + 1
      /\ \A n \in 1 .. Len(t) - j + 1 : r[n] = t[j + n - 1]
  BY Rest
<1> HIDE DEF r
<1>3. j + m - 1 \in 1 .. Len(t) + 1 /\ m \in 1 .. Len(r) + 1
  BY <1>1, <1>2
<1> DEFINE a == From(r, m)
           b == From(t, j + m - 1)
<1>4. /\ a \in Text /\ Len(a) = Len(r) - m + 1
      /\ \A n \in 1 .. Len(r) - m + 1 : a[n] = r[m + n - 1]
  BY <1>2, <1>3, Rest
<1>5. /\ b \in Text /\ Len(b) = Len(t) - (j + m - 1) + 1
      /\ \A n \in 1 .. Len(t) - (j + m - 1) + 1 : b[n] = t[(j + m - 1) + n - 1]
  BY <1>3, Rest
<1> HIDE DEF a, b
<1>6. Len(a) = Len(b)
  BY <1>1, <1>2, <1>3, <1>4, <1>5
<1>7. ASSUME NEW n \in 1 .. Len(a)
      PROVE  a[n] = b[n]
  <2>1. m + n - 1 \in 1 .. Len(t) - j + 1 /\ j + (m + n - 1) - 1 = (j + m - 1) + n - 1
    BY <1>1, <1>2, <1>3, <1>4
  <2>2. a[n] = r[m + n - 1] /\ r[m + n - 1] = t[j + (m + n - 1) - 1]
    BY <1>2, <1>4, <2>1
  <2>3. b[n] = t[(j + m - 1) + n - 1]
    BY <1>5, <1>6
  <2> QED BY <2>1, <2>2, <2>3
<1>8. a = b
  BY <1>4, <1>5, <1>6, <1>7, SameText
<1> QED BY <1>8 DEF a, b, r

LEMMA RestBehind ==
    ASSUME NEW s \in Text, NEW t \in Text, NEW j \in 1 .. Len(t) + 1
    PROVE  From(s \o t, Len(s) + j) = From(t, j)
<1> DEFINE u == s \o t
           a == From(u, Len(s) + j)
           b == From(t, j)
<1>1. /\ Len(s) \in Nat /\ Len(t) \in Nat
      /\ u \in Text /\ Len(u) = Len(s) + Len(t)
      /\ \A i \in 1 .. Len(t) : u[Len(s) + i] = t[i]
  BY Joined DEF Text
<1> HIDE DEF u
<1>2. Len(s) + j \in 1 .. Len(u) + 1
  BY <1>1
<1>3. /\ a \in Text /\ Len(a) = Len(u) - (Len(s) + j) + 1
      /\ \A n \in 1 .. Len(u) - (Len(s) + j) + 1 : a[n] = u[(Len(s) + j) + n - 1]
  BY <1>1, <1>2, Rest
<1>4. /\ b \in Text /\ Len(b) = Len(t) - j + 1
      /\ \A n \in 1 .. Len(t) - j + 1 : b[n] = t[j + n - 1]
  BY Rest
<1> HIDE DEF a, b
<1>5. Len(a) = Len(b)
  BY <1>1, <1>3, <1>4
<1>6. ASSUME NEW n \in 1 .. Len(a)
      PROVE  a[n] = b[n]
  <2>1. j + n - 1 \in 1 .. Len(t) /\ (Len(s) + j) + n - 1 = Len(s) + (j + n - 1)
    BY <1>1, <1>4, <1>5
  <2> QED BY <1>1, <1>3, <1>4, <1>5, <2>1
<1>7. a = b
  BY <1>3, <1>4, <1>5, <1>6, SameText
<1> QED BY <1>7 DEF a, b, u

LEMMA FrontWhole ==
    ASSUME NEW s \in Text, NEW t \in Text
    PROVE  SubSeq(s \o t, 1, Len(s)) = s
<1>1. Len(s) \in 0 .. Len(s)
  BY DEF Text
<1>2. SubSeq(s \o t, 1, Len(s)) = SubSeq(s, 1, Len(s))
  BY <1>1, FrontOfJoined
<1>3. SubSeq(s, 1, Len(s)) = s
  BY <1>1, Front, SameText
<1> QED BY <1>2, <1>3

LEMMA Trimmed ==
    ASSUME NEW t \in Text
    PROVE  \E m \in 1 .. Len(t) + 1 :
              TrimStart(t) = From(t, m) /\ \A n \in 1 .. m - 1 : t[n] = " "
<1> DEFINE solid == {i \in 1 .. Len(t) : t[i] # " "}
<1>1. Len(t) \in Nat
  BY DEF Text
<1>2. CASE solid = {}
  <2>1. TrimStart(t) = << >>
    BY <1>2 DEF TrimStart
  <2> HIDE DEF solid
  <2>2. Len(t) + 1 \in 1 .. Len(t) + 1 /\ Len(t) - (Len(t) + 1) + 1 = 0
    BY <1>1
  <2>3. From(t, Len(t) + 1) \in Text /\ Len(From(t, Len(t) + 1)) = 0
    BY <2>2, Rest
  <2>4. From(t, Len(t) + 1) = << >>
    BY <2>3 DEF Text
  <2>5. \A n \in 1 .. (Len(t) + 1) - 1 : t[n] = " "
    <3>1. (Len(t) + 1) - 1 = Len(t)
      BY <1>1
    <3>2. \A n \in 1 .. Len(t) : t[n] = " "
      BY <1>2 DEF solid
    <3> QED BY <3>1, <3>2
  <2> QED BY <2>1, <2>2, <2>4, <2>5
<1>3. CASE solid # {}
  <2>1. \A x \in 1 .. Len(t) : x \in Nat
    BY <1>1
  <2>2. solid \subseteq Nat
    BY <2>1
  <2> DEFINE m == Min(solid)
  <2>3. m \in solid /\ \A n \in solid : m <= n
    BY <1>3, <2>2, MinFound
  <2>4. TrimStart(t) = From(t, m)
    BY <1>3 DEF TrimStart
  <2> HIDE DEF m
  <2>5. m \in 1 .. Len(t)
    BY <2>3
  <2>6. ASSUME NEW n \in 1 .. m - 1
        PROVE  t[n] = " "
    <3>1. n \in 1 .. Len(t) /\ ~(m <= n)
      BY <1>1, <2>5
    <3> QED BY <2>3, <3>1
  <2>7. m \in 1 .. Len(t) + 1
    BY <1>1, <2>5
  <2> QED BY <2>4, <2>6, <2>7
<1> QED BY <1>2, <1>3

LEMMA VisibleWhole ==
    ASSUME NEW t, ~Closed(t)
    PROVE  visible(t) = t
  BY DEF visible, Closed

\* What is visible of a text with a closed tag, behind what was sent before it, is
\* all of the two but for one stretch that the tag closes.
LEMMA VisibleCuts ==
    ASSUME NEW s \in Text, NEW t \in Text, Closed(t)
    PROVE  visible(t) \in Text /\ IsCut(s \o visible(t), s \o t, Len(s))
<1> DEFINE i == Min(Tags(t))
           c == Min(Closers(t, i))
           r == From(t, c + 1)
           u == s \o t
<1>1. Tags(t) # {} /\ Closers(t, i) # {}
  BY DEF Closed
<1>2. i \in Tags(t) /\ c \in Closers(t, i)
  <2>1. Tags(t) \subseteq Nat
    BY Places
  <2>2. i \in Tags(t)
    BY <1>1, <2>1, MinFound
  <2> HIDE DEF i
  <2>3. Closers(t, i) \subseteq Nat
    BY <2>2, Places
  <2> QED BY <1>1, <2>2, <2>3, MinFound
<1>3. visible(t) = TrimStart(r)
  BY DEF visible, Closed
<1>4. Len(s) + i \in Tags(u) /\ i \in 1 .. Len(t)
  BY <1>2, TagsOfJoined DEF Tags
<1>5. Closers(u, Len(s) + i) # {} /\ Min(Closers(u, Len(s) + i)) = Len(s) + c
  BY <1>1, <1>4, CloserMoves
<1>6. c \in 1 .. Len(t) /\ Len(t) \in Nat /\ Len(s) \in Nat /\ i \in Nat /\ i >= 1
  <2> HIDE DEF i, c, r, u
  <2>1. i \in Nat /\ i >= 1 /\ Len(t) \in Nat /\ Len(s) \in Nat
    BY <1>2, Places
  <2>2. c \in Nat /\ i <= c /\ c <= Len(t)
    BY <1>2, <2>1, Places
  <2> QED BY <2>1, <2>2
<1>7. u \in Text /\ Len(u) = Len(s) + Len(t)
      /\ \A n \in 1 .. Len(t) : u[Len(s) + n] = t[n]
  BY Joined
<1> HIDE DEF i, c, u
<1>8. /\ r \in Text /\ Len(r) = Len(t) - (c + 1) + 1
      /\ \A n \in 1 .. Len(t) - (c + 1) + 1 : r[n] = t[(c + 1) + n - 1]
  <2>1. c + 1 \in 1 .. Len(t) + 1
    BY <1>6
  <2> QED BY <2>1, Rest
<1>9. PICK m \in 1 .. Len(r) + 1 :
        TrimStart(r) = From(r, m) /\ \A n \in 1 .. m - 1 : r[n] = " "
  BY <1>8, Trimmed
<1> DEFINE z == Len(r)
<1>0. m \in 1 .. z + 1 /\ z = Len(t) - c /\ z \in Nat
  <2>1. m \in 1 .. z + 1 /\ z = Len(t) - (c + 1) + 1
    BY <1>8, <1>9
  <2> HIDE DEF z
  <2> QED BY <1>6, <2>1
<1>10. From(r, m) = From(t, c + m)
  <2>1. /\ c + 1 \in 1 .. Len(t) + 1 /\ m \in 1 .. Len(t) - (c + 1) + 2
        /\ (c + 1) + m - 1 = c + m
    <3> HIDE DEF z
    <3> QED BY <1>6, <1>0
  <2> QED BY <2>1, RestOfRest
<1> HIDE DEF r
<1> DEFINE j == Len(s) + (c + m)
<1>11. j \in 1 .. Len(u) + 1 /\ Len(s) + c < j /\ Len(s) < Len(s) + i
       /\ c + m \in 1 .. Len(t) + 1
  <2> HIDE DEF z
  <2>1. Len(u) = Len(s) + Len(t)
    BY <1>7
  <2> QED BY <1>6, <1>0, <2>1
<1>12. ASSUME NEW n \in Len(s) + c + 1 .. j - 1
       PROVE  u[n] = " "
  <2> DEFINE d == n - Len(s)
             e == d - c
  <2>1. /\ d \in 1 .. Len(t) /\ n = Len(s) + d
        /\ e \in 1 .. m - 1 /\ e \in 1 .. Len(t) - (c + 1) + 1 /\ d = (c + 1) + e - 1
    <3> HIDE DEF z
    <3> QED BY <1>6, <1>0
  <2> HIDE DEF d, e
  <2>2. u[n] = t[d] /\ r[e] = t[d] /\ r[e] = " "
    BY <1>7, <1>8, <1>9, <2>1
  <2> QED BY <2>2
<1>13. From(u, j) = From(t, c + m) /\ SubSeq(u, 1, Len(s)) = s
  BY <1>11, RestBehind, FrontWhole DEF u
<1>14. visible(t) = From(t, c + m) /\ From(t, c + m) \in Text
  BY <1>3, <1>9, <1>10, <1>11, Rest
<1>15. s \o visible(t) = SubSeq(u, 1, Len(s)) \o From(u, j)
  BY <1>13, <1>14
<1> HIDE DEF j
<1>16. IsCut(s \o visible(t), u, Len(s))
  BY <1>4, <1>5, <1>11, <1>12, <1>15 DEF IsCut
<1> QED BY <1>14, <1>16 DEF u

LEMMA CutGrows ==
    ASSUME NEW s \in Text, NEW t \in Text, NEW p \in Text, NEW k \in 0 .. Len(t),
           IsCut(s, t, k)
    PROVE  IsCut(s \o p, t \o p, k)
<1> DEFINE u == t \o p
<1>1. PICK i \in Tags(t), j \in 1 .. Len(t) + 1 :
        /\ k < i
        /\ Closers(t, i) # {}
        /\ Min(Closers(t, i)) < j
        /\ \A m \in Min(Closers(t, i)) + 1 .. j - 1 : t[m] = " "
        /\ s = SubSeq(t, 1, k) \o From(t, j)
  BY DEF IsCut
<1>2. /\ u \in Text /\ Len(u) = Len(t) + Len(p) /\ Len(t) \in Nat /\ Len(p) \in Nat
      /\ \A n \in 1 .. Len(t) : u[n] = t[n]
  BY Joined DEF Text
<1>3. i \in Tags(u) /\ i \in 1 .. Len(t) /\ i \in Nat /\ i >= 1
  <2>1. i \in Nat /\ i >= 1 /\ i < Len(t)
    BY <1>1, Places
  <2>2. i \in Tags(u)
    BY <1>1, TagsOfJoined
  <2> HIDE DEF u
  <2> QED BY <1>2, <2>1, <2>2
<1>4. Closers(u, i) # {} /\ Min(Closers(u, i)) = Min(Closers(t, i))
  BY <1>1, <1>3, CloserStays
<1>5. Min(Closers(t, i)) \in Nat /\ Min(Closers(t, i)) >= 1
  <2>1. Closers(t, i) \subseteq Nat
    BY <1>3, Places
  <2>2. Min(Closers(t, i)) \in Closers(t, i)
    BY <1>1, <2>1, MinFound
  <2> DEFINE c == Min(Closers(t, i))
  <2> HIDE DEF c
  <2>3. c \in Nat /\ i <= c
    BY <1>3, <2>2, Places DEF c
  <2>4. c >= 1
    BY <1>3, <2>3
  <2> QED BY <2>3, <2>4 DEF c
<1>6. \A m \in Min(Closers(u, i)) + 1 .. j - 1 : u[m] = " "
  <2> DEFINE c == Min(Closers(t, i))
  <2> HIDE DEF c
  <2>1. c \in Nat /\ c >= 1 /\ \A m \in c + 1 .. j - 1 : t[m] = " "
    BY <1>1, <1>5 DEF c
  <2>2. \A m \in c + 1 .. j - 1 : m \in 1 .. Len(t)
    <3> HIDE DEF u
    <3>1. Len(t) \in Nat /\ j \in 1 .. Len(t) + 1 /\ c \in Nat
      BY <1>1, <1>2, <2>1
    <3> QED BY <3>1
  <2>3. \A m \in c + 1 .. j - 1 : u[m] = " "
    BY <1>2, <2>1, <2>2
  <2> QED BY <1>4, <2>3 DEF c
<1>7. s \o p = SubSeq(u, 1, k) \o From(u, j)
  <2>1. SubSeq(u, 1, k) = SubSeq(t, 1, k) /\ SubSeq(t, 1, k) \in Text
    BY FrontOfJoined, Front
  <2>2. From(u, j) = From(t, j) \o p /\ From(t, j) \in Text
    BY RestOfJoined, Rest
  <2>3. s = SubSeq(t, 1, k) \o From(t, j)
    BY <1>1
  <2> HIDE DEF u
  <2> DEFINE a == SubSeq(t, 1, k)
             b == From(t, j)
  <2> HIDE DEF a, b
  <2>4. (a \o b) \o p = a \o (b \o p)
    BY <2>1, <2>2, Regroup DEF a, b
  <2> QED BY <2>1, <2>2, <2>3, <2>4 DEF a, b
<1>8. j \in 1 .. Len(u) + 1
  BY <1>2
<1> HIDE DEF u
<1>9. IsCut(s \o p, u, k)
  BY <1>1, <1>3, <1>4, <1>6, <1>7, <1>8 DEF IsCut
<1> QED BY <1>9 DEF u

-----------------------------------------------------------------------------
(* The gate                                                                 *)

LEMMA SaidYield ==
    ASSUME NEW t
    PROVE  Said(Yield(t)) = t
<1>1. CASE t = << >>
  BY <1>1 DEF Said, Yield
<1>2. CASE t # << >>
  <2>1. Yield(t) = <<t>> /\ <<t>> # << >> /\ <<t>>[1] = t
    BY <1>2 DEF Yield
  <2> QED BY <2>1 DEF Said
<1> QED BY <1>1, <1>2

\* What push does in each of its cases.
LEMMA Pushed ==
    ASSUME NEW g, NEW p, NEW t, t = g.held \o p
    PROVE  /\ g.opened => push(g, p).gate = g /\ Said(push(g, p).out) = p
           /\ ~g.opened /\ Closed(t) =>
                /\ push(g, p).gate = [held |-> << >>, opened |-> TRUE]
                /\ Said(push(g, p).out) = visible(t)
           /\ ~g.opened /\ ~Closed(t) /\ (Tags(t) # {} \/ Forming(t)) =>
                /\ push(g, p).gate = [held |-> t, opened |-> FALSE]
                /\ Said(push(g, p).out) = << >>
           /\ ~g.opened /\ Tags(t) = {} /\ ~Forming(t) =>
                /\ push(g, p).gate = [held |-> << >>, opened |-> FALSE]
                /\ Said(push(g, p).out) = t
<1>1. ASSUME NEW x
      PROVE  <<x>> # << >> /\ <<x>>[1] = x
  OBVIOUS
<1>2. ASSUME g.opened
      PROVE  push(g, p) = [gate |-> g, out |-> <<p>>]
  BY <1>2 DEF push
<1>3. ASSUME ~g.opened, Closed(t)
      PROVE  push(g, p) = [gate |-> [held |-> << >>, opened |-> TRUE], out |-> Yield(visible(t))]
  BY <1>3 DEF push, Closed
<1>4. ASSUME ~g.opened, ~Closed(t), Tags(t) # {} \/ Forming(t)
      PROVE  push(g, p) = Holding(t)
  BY <1>4 DEF push, Closed
<1>5. ASSUME ~g.opened, Tags(t) = {}, ~Forming(t)
      PROVE  push(g, p) = [gate |-> NewGate, out |-> <<t>>]
  BY <1>5 DEF push
<1>6. \A x : Said(<<x>>) = x
  BY <1>1 DEF Said
<1>7. Said(<< >>) = << >>
  BY DEF Said
<1>8. g.opened => push(g, p).gate = g /\ Said(push(g, p).out) = p
  BY <1>2, <1>6
<1>9. ASSUME ~g.opened, Closed(t)
      PROVE  /\ push(g, p).gate = [held |-> << >>, opened |-> TRUE]
             /\ Said(push(g, p).out) = visible(t)
  <2> DEFINE x == push(g, p)
  <2>1. x = [gate |-> [held |-> << >>, opened |-> TRUE], out |-> Yield(visible(t))]
    BY <1>3, <1>9
  <2> HIDE DEF x
  <2>2. x.gate = [held |-> << >>, opened |-> TRUE] /\ x.out = Yield(visible(t))
    BY <2>1
  <2> QED BY <2>2, SaidYield DEF x
<1>10. ASSUME ~g.opened, ~Closed(t), Tags(t) # {} \/ Forming(t)
       PROVE  /\ push(g, p).gate = [held |-> t, opened |-> FALSE]
              /\ Said(push(g, p).out) = << >>
  <2> DEFINE x == push(g, p)
  <2>1. x = [gate |-> [held |-> t, opened |-> FALSE], out |-> << >>]
    BY <1>4, <1>10 DEF Holding
  <2> HIDE DEF x
  <2>2. x.gate = [held |-> t, opened |-> FALSE] /\ x.out = << >>
    BY <2>1
  <2> QED BY <2>2, <1>7 DEF x
<1>11. ASSUME ~g.opened, Tags(t) = {}, ~Forming(t)
       PROVE  /\ push(g, p).gate = [held |-> << >>, opened |-> FALSE]
              /\ Said(push(g, p).out) = t
  <2> DEFINE x == push(g, p)
  <2>1. x = [gate |-> [held |-> << >>, opened |-> FALSE], out |-> <<t>>]
    BY <1>5, <1>11 DEF NewGate
  <2> HIDE DEF x
  <2>2. x.gate = [held |-> << >>, opened |-> FALSE] /\ x.out = <<t>>
    BY <2>1
  <2> QED BY <2>2, <1>6 DEF x
<1> QED BY <1>8, <1>9, <1>10, <1>11

-----------------------------------------------------------------------------
(* The invariant of a stream                                                *)

\* What was sent while the gate looks for a tag has none begun in it, unless the
\* limit was reached: then no tag is in it.
Early ==
    Len(got) <= HoldLimit =>
        Quiet(sent) \/ (Len(sent) >= HoldLimit /\ Tags(sent) = {})

\* Before the tag: sent and held together are what was generated.
Looking ==
    /\ got = sent \o gate.held
    /\ ~Closed(gate.held)
    /\ Quiet(got) => gate.held = << >>
    /\ Early

\* Behind the tag: one stretch is missing, before any other tag of a short text.
Passing ==
    \E k \in 0 .. Len(got) :
        /\ IsCut(sent, got, k)
        /\ Len(got) <= HoldLimit => Quiet(SubSeq(got, 1, k))

\* The tag never closed.
Flushed == sent = got /\ (Len(got) <= HoldLimit => ~Closed(got))

StreamInv ==
    /\ TypeOK
    /\ IF gate.opened THEN Passing ELSE IF over THEN Flushed ELSE Looking

LEMMA TextType ==
    ASSUME TypeOK
    PROVE  /\ got \in Text /\ sent \in Text /\ gate.held \in Text
           /\ Len(got) \in Nat /\ Len(sent) \in Nat /\ Len(gate.held) \in Nat
  BY DEF TypeOK, Text

LEMMA PassToken ==
    ASSUME StreamInv, NEW p \in Text, gate.opened,
           got' = got \o p, gate' = gate, sent' = sent \o p, over' = over
    PROVE  StreamInv'
<1>1. got \in Text /\ sent \in Text /\ TypeOK /\ Passing
  BY TextType DEF StreamInv
<1>2. TypeOK'
  BY <1>1, Joined DEF TypeOK, Text
<1>3. PICK k \in 0 .. Len(got) :
        /\ IsCut(sent, got, k)
        /\ Len(got) <= HoldLimit => Quiet(SubSeq(got, 1, k))
  BY <1>1 DEF Passing
<1>4. IsCut(sent', got', k)
  BY <1>1, <1>3, CutGrows
<1>5. SubSeq(got', 1, k) = SubSeq(got, 1, k)
  BY <1>1, FrontOfJoined
<1>6. Len(got) \in Nat /\ Len(p) \in Nat /\ Len(got') = Len(got) + Len(p)
  BY <1>1, Joined, Places
<1>7. k \in 0 .. Len(got') /\ (Len(got') <= HoldLimit => Len(got) <= HoldLimit)
  BY <1>6, HoldAssumption
<1>8. Passing'
  BY <1>3, <1>4, <1>5, <1>7 DEF Passing
<1> QED BY <1>2, <1>8 DEF StreamInv

LEMMA HoldToken ==
    ASSUME StreamInv, NEW p \in Text, ~gate.opened, ~over, over' = over,
           NEW t, t = gate.held \o p, ~Closed(t), Tags(t) # {} \/ Forming(t),
           got' = got \o p, gate' = [held |-> t, opened |-> FALSE], sent' = sent
    PROVE  StreamInv'
<1>1. got \in Text /\ sent \in Text /\ gate.held \in Text /\ TypeOK /\ Looking
  BY TextType DEF StreamInv
<1>2. t \in Text /\ got' \in Text /\ got' = sent \o t
  <2>1. t \in Text /\ got' \in Text
    BY <1>1, Joined
  <2>2. (sent \o gate.held) \o p = sent \o (gate.held \o p)
    BY <1>1, Regroup
  <2>3. got = sent \o gate.held
    BY <1>1 DEF Looking
  <2> QED BY <2>1, <2>2, <2>3
<1>3. TypeOK'
  <2>1. /\ gate' \in [held : Seq(Symbol), opened : BOOLEAN]
        /\ gate'.opened = FALSE
    BY <1>2 DEF Text
  <2>2. over' \in BOOLEAN
    BY <1>1 DEF TypeOK
  <2> QED BY <1>1, <1>2, <2>1, <2>2 DEF TypeOK, Text
<1>4. ~Quiet(got')
  <2>1. PICK i \in 1 .. Len(t) : t[i] = "<"
    <3>1. CASE Tags(t) # {}
      <4>1. PICK i \in 1 .. Len(t) - 1 : t[i] = "<"
        BY <3>1 DEF Tags
      <4>2. Len(t) \in Nat
        BY <1>2, Places
      <4>3. i \in 1 .. Len(t)
        BY <4>2
      <4> QED BY <4>1, <4>3
    <3>2. CASE Forming(t)
      BY <3>2 DEF Forming
    <3> QED BY <3>1, <3>2
  <2>2. /\ Len(sent) \in Nat /\ Len(t) \in Nat /\ Len(got') = Len(sent) + Len(t)
        /\ got'[Len(sent) + i] = t[i]
    <3>1. /\ Len(sent \o t) = Len(sent) + Len(t)
          /\ (sent \o t)[Len(sent) + i] = t[i]
      BY <1>1, <1>2, Joined
    <3>2. Len(sent) \in Nat /\ Len(t) \in Nat
      BY <1>1, <1>2, Places
    <3> QED BY <1>2, <3>1, <3>2
  <2>3. Len(sent) + i \in 1 .. Len(got')
    BY <2>2
  <2> QED BY <2>1, <2>2, <2>3 DEF Quiet
<1>5. Early'
  <2>1. Len(got) \in Nat /\ Len(p) \in Nat /\ Len(got') = Len(got) + Len(p)
    BY <1>1, Joined, Places
  <2>2. Len(got') <= HoldLimit => Len(got) <= HoldLimit
    BY <2>1, HoldAssumption
  <2>3. Early
    BY <1>1 DEF Looking
  <2> QED BY <2>2, <2>3 DEF Early
<1>6. Looking'
  BY <1>2, <1>4, <1>5 DEF Looking
<1> QED BY <1>3, <1>6 DEF StreamInv

LEMMA ReleaseToken ==
    ASSUME StreamInv, NEW p \in Text, ~gate.opened, ~over, over' = over,
           NEW t, t = gate.held \o p, Tags(t) = {}, ~Forming(t),
           got' = got \o p, gate' = [held |-> << >>, opened |-> FALSE], sent' = sent \o t
    PROVE  StreamInv'
<1>1. got \in Text /\ sent \in Text /\ gate.held \in Text /\ TypeOK /\ Looking
  BY TextType DEF StreamInv
<1>2. t \in Text /\ got' \in Text /\ got' = sent \o t
  <2>1. t \in Text /\ got' \in Text
    BY <1>1, Joined
  <2>2. (sent \o gate.held) \o p = sent \o (gate.held \o p)
    BY <1>1, Regroup
  <2>3. got = sent \o gate.held
    BY <1>1 DEF Looking
  <2> QED BY <2>1, <2>2, <2>3
<1>3. << >> \in Text /\ gate'.held = << >> /\ gate'.opened = FALSE
  BY DEF Text
<1>4. TypeOK'
  <2>1. gate' \in [held : Seq(Symbol), opened : BOOLEAN]
    BY <1>3 DEF Text
  <2> QED BY <1>1, <1>2, <1>3, <2>1 DEF TypeOK, Text
<1>5. got' = sent' \o gate'.held
  <2>1. sent' \in Text /\ sent' \o << >> = sent'
    BY <1>1, <1>2, Joined DEF Text
  <2> QED BY <1>2, <1>3, <2>1
<1>6. ~Closed(gate'.held)
  <2>1. Tags(<< >>) = {}
    BY DEF Tags
  <2> QED BY <1>3, <2>1 DEF Closed
<1>7. /\ Len(sent) \in Nat /\ Len(t) \in Nat /\ Len(got) \in Nat /\ Len(p) \in Nat
      /\ Len(got') = Len(sent) + Len(t) /\ Len(got') = Len(got) + Len(p)
  BY <1>1, <1>2, Joined, Places
<1>8. Early'
  <2>1. SUFFICES ASSUME Len(got') <= HoldLimit
                 PROVE  Quiet(got') \/ (Len(got') >= HoldLimit /\ Tags(got') = {})
    BY <1>2 DEF Early
  <2>2. Quiet(sent) \/ (Len(sent) >= HoldLimit /\ Tags(sent) = {})
    <3>1. Len(got) <= HoldLimit
      BY <1>7, <2>1, HoldAssumption
    <3> QED BY <1>1, <3>1 DEF Looking, Early
  <2>3. CASE Len(sent) >= HoldLimit /\ Tags(sent) = {}
    <3>1. Len(t) = 0
      BY <1>7, <2>1, <2>3, HoldAssumption
    <3>2. t = << >>
      BY <1>2, <3>1 DEF Text
    <3>3. got' = sent
      BY <1>1, <1>2, <3>2 DEF Text
    <3> QED BY <2>3, <3>3
  <2>4. CASE Quiet(sent)
    <3>1. CASE Len(t) >= HoldLimit
      <4>1. Len(got') >= HoldLimit
        BY <1>7, <3>1, HoldAssumption
      <4>2. \A i \in Tags(got') : i - Len(sent) \in Tags(t)
        BY <1>1, <1>2, <2>4, TagsOfJoined
      <4>3. Tags(got') = {}
        BY <4>2
      <4> QED BY <4>1, <4>3
    <3>2. CASE ~(Len(t) >= HoldLimit)
      <4>1. Len(t) < HoldLimit
        BY <1>7, <3>2, HoldAssumption
      <4>2. \A i \in 1 .. Len(t) : t[i] # "<"
        BY <4>1 DEF Forming
      <4>3. /\ \A i \in 1 .. Len(sent) : got'[i] = sent[i]
            /\ \A i \in 1 .. Len(t) : got'[Len(sent) + i] = t[i]
        BY <1>1, <1>2, Joined
      <4>4. ASSUME NEW i \in 1 .. Len(got')
            PROVE  got'[i] # "<"
        <5>1. CASE i <= Len(sent)
          <6>1. i \in 1 .. Len(sent)
            BY <1>7, <5>1
          <6> QED BY <2>4, <4>3, <6>1 DEF Quiet
        <5>2. CASE i > Len(sent)
          <6> DEFINE m == i - Len(sent)
          <6>1. m \in 1 .. Len(t) /\ i = Len(sent) + m
            BY <1>7, <5>2
          <6> HIDE DEF m
          <6> QED BY <4>2, <4>3, <6>1
        <5> QED BY <1>7, <5>1, <5>2
      <4> QED BY <4>4 DEF Quiet
    <3> QED BY <3>1, <3>2
  <2> QED BY <2>2, <2>3, <2>4
<1>9. Looking'
  BY <1>3, <1>5, <1>6, <1>8 DEF Looking
<1> QED BY <1>3, <1>4, <1>9 DEF StreamInv

LEMMA OpenToken ==
    ASSUME StreamInv, NEW p \in Text, ~gate.opened, ~over, over' = over,
           NEW t, t = gate.held \o p, Closed(t),
           got' = got \o p, gate' = [held |-> << >>, opened |-> TRUE],
           sent' = sent \o visible(t)
    PROVE  StreamInv'
<1>1. got \in Text /\ sent \in Text /\ gate.held \in Text /\ TypeOK /\ Looking
  BY TextType DEF StreamInv
<1>2. t \in Text /\ got' \in Text /\ got' = sent \o t
  <2>1. t \in Text /\ got' \in Text
    BY <1>1, Joined
  <2>2. (sent \o gate.held) \o p = sent \o (gate.held \o p)
    BY <1>1, Regroup
  <2>3. got = sent \o gate.held
    BY <1>1 DEF Looking
  <2> QED BY <2>1, <2>2, <2>3
<1>3. visible(t) \in Text /\ IsCut(sent', got', Len(sent))
  BY <1>1, <1>2, VisibleCuts
<1>4. sent' \in Text
  BY <1>1, <1>3, Joined
<1>5. << >> \in Text /\ gate'.held = << >> /\ gate'.opened = TRUE
  BY DEF Text
<1>6. TypeOK'
  <2>1. gate' \in [held : Seq(Symbol), opened : BOOLEAN]
    BY <1>5 DEF Text
  <2> QED BY <1>1, <1>2, <1>4, <1>5, <2>1 DEF TypeOK, Text
<1>7. /\ Len(sent) \in Nat /\ Len(t) \in Nat /\ Len(got) \in Nat /\ Len(p) \in Nat
      /\ Len(got') = Len(sent) + Len(t) /\ Len(got') = Len(got) + Len(p)
  BY <1>1, <1>2, Joined, Places
<1>8. Len(t) > 1
  <2>1. PICK i \in Tags(t) : TRUE
    BY DEF Closed
  <2>2. i \in Nat /\ i >= 1 /\ i < Len(t)
    BY <1>2, Places
  <2> QED BY <1>7, <2>2
<1>9. ASSUME Len(got') <= HoldLimit
      PROVE  Quiet(SubSeq(got', 1, Len(sent)))
  <2>1. Len(got) <= HoldLimit /\ ~(Len(sent) >= HoldLimit)
    BY <1>7, <1>8, <1>9, HoldAssumption
  <2>2. Quiet(sent)
    BY <1>1, <2>1 DEF Looking, Early
  <2>3. SubSeq(got', 1, Len(sent)) = sent
    BY <1>1, <1>2, FrontWhole
  <2> QED BY <2>2, <2>3
<1>10. Len(sent) \in 0 .. Len(got')
  BY <1>7
<1>11. Passing'
  BY <1>3, <1>9, <1>10 DEF Passing
<1> QED BY <1>5, <1>6, <1>11 DEF StreamInv

LEMMA FinishKeeps ==
    ASSUME StreamInv, Finish
    PROVE  StreamInv'
<1>1. got \in Text /\ sent \in Text /\ gate.held \in Text /\ TypeOK
  BY TextType DEF StreamInv
<1>2. ~over /\ over' = TRUE /\ gate' = gate /\ got' = got /\ sent' = sent \o Said(flush(gate))
  BY DEF Finish
<1>3. sent \o << >> = sent
  BY <1>1 DEF Text
<1>4. CASE gate.opened
  <2>1. sent' = sent
    BY <1>2, <1>3, <1>4 DEF flush, Said
  <2>2. Passing
    BY <1>4 DEF StreamInv
  <2>3. Passing'
    BY <1>2, <2>1, <2>2 DEF Passing
  <2>4. TypeOK'
    BY <1>1, <1>2, <2>1 DEF TypeOK
  <2> QED BY <1>2, <1>4, <2>3, <2>4 DEF StreamInv
<1>5. CASE ~gate.opened
  <2>1. Looking
    BY <1>2, <1>5 DEF StreamInv
  <2>2. Said(flush(gate)) = gate.held
    <3>1. visible(gate.held) = gate.held
      BY <2>1, VisibleWhole DEF Looking
    <3>2. flush(gate) = Yield(gate.held)
      BY <1>5, <3>1 DEF flush
    <3> QED BY <3>2, SaidYield
  <2>3. sent' = got /\ got = sent \o gate.held
    BY <1>2, <2>1, <2>2 DEF Looking
  <2>4. TypeOK'
    BY <1>1, <1>2, <2>3 DEF TypeOK
  <2>5. ASSUME Len(got) <= HoldLimit, Closed(got)
        PROVE  FALSE
    <3>1. Quiet(sent) \/ (Len(sent) >= HoldLimit /\ Tags(sent) = {})
      BY <2>1, <2>5 DEF Looking, Early
    <3>2. /\ Len(sent) \in Nat /\ Len(gate.held) \in Nat
          /\ Len(got) = Len(sent) + Len(gate.held)
      BY <1>1, <2>3, Joined, Places
    <3>3. CASE Len(sent) >= HoldLimit /\ Tags(sent) = {}
      <4>1. Len(gate.held) = 0
        BY <2>5, <3>2, <3>3, HoldAssumption
      <4>2. gate.held = << >>
        BY <1>1, <4>1 DEF Text
      <4>3. Tags(got) = {}
        BY <1>3, <2>3, <3>3, <4>2
      <4> QED BY <2>5, <4>3 DEF Closed
    <3>4. CASE Quiet(sent)
      <4> DEFINE i == Min(Tags(got))
                 m == i - Len(sent)
      <4>1. Tags(got) # {} /\ Closers(got, i) # {}
        BY <2>5 DEF Closed
      <4>2. i \in Tags(got)
        <5>1. Tags(got) \subseteq Nat
          BY <1>1, Places
        <5> QED BY <4>1, <5>1, MinFound
      <4> HIDE DEF i
      <4>3. m \in Tags(gate.held)
        BY <1>1, <2>3, <3>4, <4>2, TagsOfJoined
      <4>4. m \in 1 .. Len(gate.held) /\ i = Len(sent) + m
        <5>1. m \in Nat /\ m >= 1 /\ m < Len(gate.held)
          BY <1>1, <4>3, Places
        <5>2. i \in Nat
          BY <1>1, <4>2, Places
        <5> HIDE DEF m
        <5>3. m \in 1 .. Len(gate.held)
          BY <3>2, <5>1
        <5>4. i = Len(sent) + m
          BY <3>2, <5>2 DEF m
        <5> QED BY <5>3, <5>4
      <4> HIDE DEF m
      <4>5. PICK c \in Closers(got, i) : TRUE
        BY <4>1
      <4>6. c - Len(sent) \in Closers(gate.held, m)
        BY <1>1, <2>3, <4>4, <4>5, ClosersOfJoined
      <4>7. Closed(gate.held)
        BY <1>1, <4>3, <4>6, SomeClosed
      <4> QED BY <2>1, <4>7 DEF Looking
    <3> QED BY <3>1, <3>3, <3>4
  <2>6. Flushed'
    BY <1>2, <2>3, <2>5 DEF Flushed
  <2> QED BY <1>2, <1>5, <2>4, <2>6 DEF StreamInv
<1> QED BY <1>4, <1>5

LEMMA StreamFirst == Init => StreamInv
<1> SUFFICES ASSUME Init
             PROVE  StreamInv
  OBVIOUS
<1>1. gate = [held |-> << >>, opened |-> FALSE] /\ got = << >> /\ sent = << >> /\ over = FALSE
  BY DEF Init, NewGate
<1>2. << >> \in Text /\ gate.held = << >> /\ gate.opened = FALSE /\ << >> \o << >> = << >>
  BY <1>1 DEF Text
<1>3. TypeOK
  BY <1>1, <1>2 DEF TypeOK, Text
<1>4. ~Closed(<< >>) /\ Quiet(<< >>)
  <2>1. Tags(<< >>) = {}
    BY DEF Tags
  <2> QED BY <2>1 DEF Closed, Quiet
<1>5. Looking
  BY <1>1, <1>2, <1>4 DEF Looking, Early
<1> QED BY <1>1, <1>2, <1>3, <1>5 DEF StreamInv

LEMMA StreamStep == StreamInv /\ [Next]_vars => StreamInv'
<1> SUFFICES ASSUME StreamInv, [Next]_vars
             PROVE  StreamInv'
  OBVIOUS
<1>1. ASSUME NEW p \in Pieces, OnToken(p)
      PROVE  StreamInv'
  <2> DEFINE t == gate.held \o p
             x == push(gate, p)
  <2>1. p \in Text
    BY StreamAssumption DEF Text
  <2>2. /\ ~over /\ over' = over /\ got' = got \o p
        /\ gate' = x.gate /\ sent' = sent \o Said(x.out)
    BY <1>1 DEF OnToken
  <2>3. gate.opened \in BOOLEAN /\ sent \in Text /\ sent \o << >> = sent
    BY DEF StreamInv, TypeOK, Text
  <2>4. /\ gate.opened => x.gate = gate /\ Said(x.out) = p
        /\ ~gate.opened /\ Closed(t) =>
             x.gate = [held |-> << >>, opened |-> TRUE] /\ Said(x.out) = visible(t)
        /\ ~gate.opened /\ ~Closed(t) /\ (Tags(t) # {} \/ Forming(t)) =>
             x.gate = [held |-> t, opened |-> FALSE] /\ Said(x.out) = << >>
        /\ ~gate.opened /\ Tags(t) = {} /\ ~Forming(t) =>
             x.gate = [held |-> << >>, opened |-> FALSE] /\ Said(x.out) = t
    BY Pushed
  <2> HIDE DEF t, x
  <2>5. CASE gate.opened
    BY <2>1, <2>2, <2>4, <2>5, PassToken
  <2>6. CASE ~gate.opened /\ Closed(t)
    BY <2>1, <2>2, <2>4, <2>6, OpenToken DEF t
  <2>7. CASE ~gate.opened /\ ~Closed(t) /\ (Tags(t) # {} \/ Forming(t))
    BY <2>1, <2>2, <2>3, <2>4, <2>7, HoldToken DEF t
  <2>8. CASE ~gate.opened /\ Tags(t) = {} /\ ~Forming(t)
    BY <2>1, <2>2, <2>4, <2>8, ReleaseToken DEF t
  <2> QED BY <2>5, <2>6, <2>7, <2>8
<1>2. CASE Finish
  BY <1>2, FinishKeeps
<1>3. CASE UNCHANGED vars
  <2>1. gate' = gate /\ got' = got /\ sent' = sent /\ over' = over
    BY <1>3 DEF vars
  <2> QED BY <2>1 DEF StreamInv, TypeOK, Passing, Flushed, Looking, Early
<1> QED BY <1>1, <1>2, <1>3 DEF Next

\* The invariant of a stream, for every set of pieces and every limit.
LEMMA StreamInvariant == Spec => []StreamInv
  BY StreamFirst, StreamStep, PTL DEF Spec

\* A gate is open or holds text, never both.
THEOREM GateTypeCorrect == Spec => []TypeOK
<1>1. StreamInv => TypeOK
  BY DEF StreamInv
<1> QED BY <1>1, StreamInvariant, PTL

\* However the pieces cut the tag, what a client was sent is what was generated,
\* or lacks one stretch that a tag closes: nothing of the answer is lost, doubled
\* or reordered.
THEOREM NothingOfTheAnswerLost == Spec => []AnswerIntact
<1>1. StreamInv => AnswerIntact
  BY DEF StreamInv, AnswerIntact, Passing, Flushed
<1> QED BY <1>1, StreamInvariant, PTL

\* While nothing that could begin a tag has been generated, the gate holds nothing.
THEOREM StreamsAtOnce == Spec => []Incremental
<1>1. ASSUME StreamInv, Quiet(got)
      PROVE  sent = got
  <2>1. got \in Text /\ sent \in Text
    BY <1>1, TextType DEF StreamInv
  <2>2. CASE gate.opened
    <3>1. PICK k \in 0 .. Len(got) : IsCut(sent, got, k)
      BY <1>1, <2>2 DEF StreamInv, Passing
    <3>2. PICK i \in Tags(got) : TRUE
      BY <3>1 DEF IsCut
    <3>3. i \in 1 .. Len(got) - 1 /\ got[i] = "<"
      BY <3>2 DEF Tags
    <3>4. i \in 1 .. Len(got)
      BY <2>1, <3>2, Places
    <3> QED BY <1>1, <3>3, <3>4 DEF Quiet
  <2>3. CASE ~gate.opened /\ over
    BY <1>1, <2>3 DEF StreamInv, Flushed
  <2>4. CASE ~gate.opened /\ ~over
    <3>1. got = sent \o gate.held /\ gate.held = << >>
      BY <1>1, <2>4 DEF StreamInv, Looking
    <3>2. sent \o << >> = sent
      BY <2>1 DEF Text
    <3> QED BY <3>1, <3>2
  <2> QED BY <2>2, <2>3, <2>4
<1>2. StreamInv => Incremental
  BY <1>1 DEF Incremental, Quiet
<1> QED BY <1>2, StreamInvariant, PTL

\* The only tag of an answer within the limit is taken out if it closes, in however
\* many pieces it came.
THEOREM OnlyTagRemoved == Spec => []TagRemoved
<1>1. ASSUME StreamInv, over, Cardinality(Tags(got)) = 1, Len(got) <= HoldLimit,
             NEW i \in Tags(sent), Closers(sent, i) # {}
      PROVE  FALSE
  <2>1. got \in Text /\ sent \in Text
    BY <1>1, TextType DEF StreamInv
  <2>2. CASE ~gate.opened
    <3>1. sent = got /\ ~Closed(got)
      BY <1>1, <2>2 DEF StreamInv, Flushed
    <3> QED BY <1>1, <2>1, <3>1, SomeClosed
  <2>3. CASE gate.opened
    <3>1. PICK k \in 0 .. Len(got) : IsCut(sent, got, k) /\ Quiet(SubSeq(got, 1, k))
      BY <1>1, <2>3 DEF StreamInv, Passing
    <3>2. PICK h \in Tags(got), j \in 1 .. Len(got) + 1 :
            /\ Closers(got, h) # {}
            /\ Min(Closers(got, h)) < j
            /\ sent = SubSeq(got, 1, k) \o From(got, j)
      BY <3>1 DEF IsCut
    <3> DEFINE a == SubSeq(got, 1, k)
               r == From(got, j)
               m == i - Len(a)
    <3>3. a \in Text /\ r \in Text /\ Quiet(a) /\ sent = a \o r
      BY <2>1, <3>1, <3>2, Front, Rest
    <3>4. /\ Len(r) = Len(got) - j + 1
          /\ \A n \in 1 .. Len(got) - j + 1 : r[n] = got[j + n - 1]
      BY <2>1, Rest
    <3> HIDE DEF a, r
    <3>5. m \in Tags(r)
      BY <1>1, <3>3, TagsOfJoined
    <3> HIDE DEF m
    <3>6. m \in Nat /\ m >= 1 /\ m < Len(r) /\ Len(got) \in Nat
      BY <2>1, <3>3, <3>5, Places
    <3>7. r[m] = "<" /\ r[m + 1] = "T"
      BY <3>5 DEF Tags
    <3> DEFINE n == j + m - 1
    <3>8. /\ n \in 1 .. Len(got) - 1 /\ n \in Nat /\ n >= j /\ n + 1 = j + (m + 1) - 1
          /\ m \in 1 .. Len(got) - j + 1 /\ m + 1 \in 1 .. Len(got) - j + 1
      BY <3>4, <3>6
    <3>9. r[m] = got[j + m - 1] /\ r[m + 1] = got[j + (m + 1) - 1]
      BY <3>4, <3>8
    <3> HIDE DEF n
    <3>10. got[n] = "<" /\ got[n + 1] = "T"
      BY <3>7, <3>8, <3>9 DEF n
    <3>11. n \in Tags(got)
      BY <3>8, <3>10 DEF Tags
    <3>12. n # h
      <4> DEFINE c == Min(Closers(got, h))
      <4>1. h \in Nat
        BY <2>1, Places
      <4>2. Closers(got, h) \subseteq Nat
        BY <2>1, <4>1, Places
      <4>3. c \in Closers(got, h)
        BY <3>2, <4>2, MinFound
      <4> HIDE DEF c
      <4>4. c \in Nat /\ h <= c
        BY <2>1, <4>1, <4>3, Places
      <4>5. c < j
        BY <3>2 DEF c
      <4> QED BY <3>8, <4>1, <4>4, <4>5
    <3>13. \E x : Tags(got) = {x}
      <4>1. Tags(got) \subseteq 1 .. Len(got)
        BY <2>1, <3>6 DEF Tags
      <4>2. IsFiniteSet(Tags(got))
        <5> DEFINE places == 1 .. Len(got)
        <5>1. IsFiniteSet(places)
          BY <3>6, FS_Interval
        <5> HIDE DEF places
        <5>2. Tags(got) \subseteq places
          BY <4>1 DEF places
        <5> QED BY <5>1, <5>2, FS_Subset
      <4> QED BY <1>1, <4>2, FS_Singleton
    <3> QED BY <3>11, <3>12, <3>13
  <2> QED BY <2>2, <2>3
<1>2. StreamInv => TagRemoved
  BY <1>1 DEF TagRemoved
<1> QED BY <1>2, StreamInvariant, PTL
=============================================================================
