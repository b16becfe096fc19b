-------------------------- MODULE ModelState_proofs --------------------------
(***************************************************************************)
(* What the operations of ModelState do to the type of the state and to    *)
(* the contexts the slots stand for.  The lemmas on a slot's rows need no  *)
(* more than that the append positions are inside the window.              *)
(***************************************************************************)
EXTENDS ModelState, TLAPS

(* Contexts and their prefixes *)

LEMMA ContextIsSeq ==
    \A h : h \in Context <=> (h \in Seq(Token) /\ Len(h) <= Ctx)
<1>1. ASSUME NEW h \in Context PROVE h \in Seq(Token) /\ Len(h) <= Ctx
  BY SizeAssumption DEF Context
<1>2. ASSUME NEW h \in Seq(Token), Len(h) <= Ctx PROVE h \in Context
  <2>1. Len(h) \in 0 .. Ctx
    BY <1>2, SizeAssumption
  <2>2. h \in [1 .. Len(h) -> Token]
    BY <1>2
  <2> QED BY <2>1, <2>2 DEF Context
<1> QED BY <1>1, <1>2

LEMMA PrefixOfExtension ==
    ASSUME NEW h \in Seq(Token), NEW g \in Seq(Token), NEW n \in Nat, n <= Len(h)
    PROVE  Prefix(h \o g, n) = Prefix(h, n)
  BY DEF Prefix

LEMMA PrefixWhole ==
    ASSUME NEW h \in Seq(Token)
    PROVE  Prefix(h, Len(h)) = h
  BY DEF Prefix

LEMMA PrefixGrows ==
    ASSUME NEW p \in Seq(Token), NEW m \in Nat, NEW n \in Nat, m <= n, n <= Len(p)
    PROVE  /\ Prefix(p, m) \o SubSeq(p, m + 1, n) = Prefix(p, n)
           /\ Prefix(p, n) \in Seq(Token)
           /\ Len(Prefix(p, n)) = n
           /\ SubSeq(p, m + 1, n) \in Seq(Token)
           /\ Len(SubSeq(p, m + 1, n)) = n - m
  BY DEF Prefix

LEMMA PrefixInContext ==
    ASSUME NEW h \in Context, NEW n \in Nat, n <= Len(h)
    PROVE  Prefix(h, n) \in Context
<1>1. h \in Seq(Token) /\ Len(h) <= Ctx /\ Len(h) \in Nat /\ Ctx \in Nat
  BY ContextIsSeq, SizeAssumption
<1>2. Prefix(h, n) \in Seq(Token) /\ Len(Prefix(h, n)) = n
  BY <1>1 DEF Prefix
<1> QED BY <1>1, <1>2, ContextIsSeq

LEMMA SingletonExtends ==
    ASSUME NEW h \in Seq(Token), NEW t \in Token
    PROVE  /\ h \o <<t>> = Append(h, t)
           /\ <<t>> \in Seq(Token)
           /\ Len(<<t>>) = 1
  OBVIOUS

LEMMA EmptyContext == << >> \in Context /\ Greedy[<< >>] \in Token
<1>1. << >> \in Seq(Token) /\ Len(<< >>) <= Ctx
  BY SizeAssumption
<1>2. ASSUME NEW h \in Seq(Token), Len(h) <= Ctx PROVE h \in Context
  BY <1>2, ContextIsSeq
<1>3. << >> \in Context
  BY <1>1, <1>2
<1> QED BY <1>3, TokenAssumption

\* Inside the window a row has one address: no other slot reaches it.
LEMMA OffsetInWindow ==
    ASSUME NEW d \in KvRow, NEW s \in Slot, NEW p \in Row
    PROVE  Offset(d, s) = p <=> d = <<s, p>>
<1>1. PICK e \in Slot, r \in Row : d = <<e, r>>
  BY DEF KvRow
<1>2. e \in Int /\ s \in Int /\ r \in 0 .. Ctx - 1 /\ p \in 0 .. Ctx - 1 /\ Ctx \in Nat
  BY SizeAssumption DEF Slot, Row
<1>3. Offset(d, s) = (e - s) * Ctx + r
  BY <1>1 DEF Offset
<1>4. PICK k \in Int : k = e - s
  BY <1>2
<1>5. Offset(d, s) = k * Ctx + r
  BY <1>3, <1>4
<1>6. k * Ctx + r = p <=> (k = 0 /\ r = p)
  <2>1. CASE k = 0
    BY <1>2, <2>1
  <2>2. CASE k >= 1
    <3>1. k * Ctx >= Ctx
      BY <1>2, <2>2
    <3> QED BY <1>2, <2>2, <3>1
  <2>3. CASE k <= 0 - 1
    <3>1. k * Ctx <= 0 - Ctx
      BY <1>2, <2>3
    <3> QED BY <1>2, <2>3, <3>1
  <2> QED BY <2>1, <2>2, <2>3
<1>7. d = <<s, p>> <=> (k = 0 /\ r = p)
  BY <1>1, <1>2, <1>4
<1> QED BY <1>5, <1>6, <1>7

LEMMA OffsetIsInt ==
    ASSUME NEW d \in KvRow, NEW s \in Slot
    PROVE  Offset(d, s) \in Int
  BY SizeAssumption DEF KvRow, Slot, Row, Offset

(* Types *)

LEMMA AbsorbType ==
    ASSUME StateTypeOK, NEW s \in Slot, NEW ts \in Seq(Token)
    PROVE  /\ Absorb(s, ts) \in Context \union {Junk}
           /\ Absorb(s, ts) # Junk =>
                /\ Absorb(s, ts) \in Context
                /\ Len(Absorb(s, ts)) = nKeys[s] + Len(ts)
<1>1. CASE Exact(s) /\ Len(rec[s]) + Len(ts) <= Ctx
  <2>1. rec[s] \in Context /\ nKeys[s] = Len(rec[s])
    BY <1>1 DEF Exact, Holds, StateTypeOK
  <2>2. Absorb(s, ts) = rec[s] \o ts
    BY <1>1 DEF Absorb
  <2>3. rec[s] \o ts \in Seq(Token) /\ Len(rec[s] \o ts) = Len(rec[s]) + Len(ts)
    BY <2>1, ContextIsSeq
  <2>4. rec[s] \o ts \in Context
    BY <1>1, <2>3, ContextIsSeq
  <2> QED BY <2>1, <2>2, <2>3, <2>4
<1>2. CASE ~(Exact(s) /\ Len(rec[s]) + Len(ts) <= Ctx)
  BY <1>2 DEF Absorb
<1> QED BY <1>1, <1>2

LEMMA RowAtType ==
    ASSUME NEW h \in Context \union {Junk}, NEW i \in Nat, h # Junk => i < Len(h)
    PROVE  RowAt(h, i) \in Context \union {Junk}
<1>1. CASE h = Junk
  BY <1>1 DEF RowAt
<1>2. CASE h # Junk
  <2>1. h \in Context /\ i + 1 \in Nat /\ Len(h) \in Nat
    BY <1>2, ContextIsSeq
  <2>2. Prefix(h, i + 1) \in Context
    BY <1>2, <2>1, PrefixInContext
  <2> QED BY <1>2, <2>2 DEF RowAt
<1> QED BY <1>1, <1>2

LEMMA WithRowsType ==
    ASSUME StateTypeOK, NEW s \in Slot, NEW n \in Nat,
           NEW h \in Context \union {Junk}, h # Junk => Len(h) = nKeys[s] + n
    PROVE  WithRows(s, nKeys[s], n, h) \in [KvRow -> Context \union {Junk}]
<1>1. nKeys[s] \in Nat
  BY DEF StateTypeOK
<1>2. ASSUME NEW d \in KvRow, Offset(d, s) \in nKeys[s] .. nKeys[s] + n - 1
      PROVE  RowAt(h, Offset(d, s)) \in Context \union {Junk}
  <2>1. Offset(d, s) \in Nat /\ Offset(d, s) < nKeys[s] + n
    BY <1>1, <1>2, OffsetIsInt
  <2> QED BY <2>1, RowAtType
<1>3. \A d \in KvRow : kv[d] \in Context \union {Junk}
  BY DEF StateTypeOK
<1> QED BY <1>2, <1>3 DEF WithRows

LEMMA PrefillSeqType ==
    ASSUME StateTypeOK, NEW s \in Slot, NEW ts \in Seq(Token), NEW nx,
           PrefillSeq(s, ts, nx)
    PROVE  StateTypeOK'
<1>1. Absorb(s, ts) \in Context \union {Junk}
  BY AbsorbType
<1>2. rec' \in [Slot -> Context \union {Junk}]
  BY <1>1 DEF StateTypeOK, PrefillSeq
<1>3. Len(ts) \in Nat /\ nKeys' \in [Slot -> Nat]
  BY DEF StateTypeOK, PrefillSeq
<1>4. kv' \in [KvRow -> Context \union {Junk}]
  BY <1>1, <1>3, AbsorbType, WithRowsType DEF PrefillSeq
<1> QED BY <1>2, <1>3, <1>4 DEF StateTypeOK, PrefillSeq

LEMMA TornPrefillType ==
    ASSUME StateTypeOK, NEW s \in Slot, NEW ts \in Seq(Token), TornPrefill(s, ts)
    PROVE  StateTypeOK'
<1>1. Len(ts) \in Nat /\ nKeys[s] \in Nat
  BY DEF StateTypeOK
<1>2. rec' \in [Slot -> Context \union {Junk}] /\ nKeys' \in [Slot -> Nat]
  BY <1>1 DEF StateTypeOK, TornPrefill
<1>3. kv' \in [KvRow -> Context \union {Junk}]
  BY <1>1, WithRowsType DEF TornPrefill
<1> QED BY <1>2, <1>3 DEF StateTypeOK, TornPrefill

LEMMA StepContextType ==
    ASSUME StateTypeOK, NEW batch \in SUBSET Slot, NEW ts,
           \A u \in batch : ts[u] \in Token, NEW s \in Slot
    PROVE  /\ StepContext(s, batch, ts) \in Context \union {Junk}
           /\ StepContext(s, batch, ts) # Junk =>
                Len(StepContext(s, batch, ts)) = nKeys[s] + 1
<1>1. CASE s \in batch /\ Undisturbed(s)
  <2>1. <<ts[s]>> \in Seq(Token) /\ Len(<<ts[s]>>) = 1
    BY <1>1
  <2>2. StepContext(s, batch, ts) = Absorb(s, <<ts[s]>>)
    BY <1>1 DEF StepContext
  <2> QED BY <2>1, <2>2, AbsorbType
<1>2. CASE ~(s \in batch /\ Undisturbed(s))
  BY <1>2 DEF StepContext
<1> QED BY <1>1, <1>2

LEMMA StepBatchType ==
    ASSUME StateTypeOK, NEW batch \in SUBSET Slot, NEW ts, NEW out,
           \A u \in batch : ts[u] \in Token, StepBatch(batch, ts, out)
    PROVE  StateTypeOK'
<1>1. rec' \in [Slot -> Context \union {Junk}]
  BY StepContextType DEF StateTypeOK, StepBatch
<1>2. nKeys' \in [Slot -> Nat]
  BY DEF StateTypeOK, StepBatch
<1>3. PICK won \in SUBSET Slot : kv' = Appended(won, batch, ts)
  BY DEF StepBatch
<1>4. ASSUME NEW w \in Slot
      PROVE  RowAt(StepContext(w, batch, ts), nKeys[w]) \in Context \union {Junk}
  <2>1. nKeys[w] \in Nat
    BY DEF StateTypeOK
  <2> QED BY <2>1, StepContextType, RowAtType
<1>5. \A d \in KvRow : kv[d] \in Context \union {Junk}
  BY DEF StateTypeOK
<1>6. kv' \in [KvRow -> Context \union {Junk}]
  BY <1>3, <1>4, <1>5 DEF Appended
<1> QED BY <1>1, <1>2, <1>6 DEF StateTypeOK, StepBatch

LEMMA WholeStateType ==
    ASSUME StateTypeOK,
           \/ SnapshotRecurrent \/ RestoreRecurrent \/ Reset
           \/ TornSnapshot \/ TornRestore \/ TornReset
    PROVE  StateTypeOK'
<1>1. [s \in Slot |-> << >>] \in [Slot -> Context \union {Junk}]
  BY EmptyContext
<1>2. CASE SnapshotRecurrent \/ RestoreRecurrent
  BY <1>2 DEF StateTypeOK, SnapshotRecurrent, RestoreRecurrent
<1>3. CASE Reset
  BY <1>1, <1>3 DEF StateTypeOK, Reset
<1>4. CASE TornSnapshot \/ TornRestore
  BY <1>4 DEF StateTypeOK, TornSnapshot, TornRestore, Torn
<1>5. CASE TornReset
  BY <1>1, <1>5 DEF StateTypeOK, TornReset, Torn
<1> QED BY <1>2, <1>3, <1>4, <1>5

LEMMA TornStepBatchType ==
    ASSUME StateTypeOK, NEW batch, NEW ts, TornStepBatch(batch, ts)
    PROVE  StateTypeOK'
  BY DEF StateTypeOK, TornStepBatch

(* Contexts *)

LEMMA HoldsIsExact ==
    ASSUME NEW s \in Slot, NEW h \in Context, Holds(s, h)
    PROVE  Exact(s) /\ rec[s] = h
  BY TokenAssumption DEF Exact, Holds

LEMMA AbsorbExact ==
    ASSUME NEW s \in Slot, NEW h \in Context, Holds(s, h), NEW ts \in Seq(Token),
           Len(h) + Len(ts) <= Ctx
    PROVE  /\ Absorb(s, ts) = h \o ts
           /\ h \o ts \in Context
           /\ h \o ts # Junk
           /\ Len(h \o ts) = Len(h) + Len(ts)
<1>1. Absorb(s, ts) = h \o ts
  BY HoldsIsExact DEF Absorb
<1>2. h \o ts \in Seq(Token) /\ Len(h \o ts) = Len(h) + Len(ts)
  BY ContextIsSeq
<1>3. h \o ts \in Context
  BY <1>2, ContextIsSeq
<1> QED BY <1>1, <1>2, <1>3, TokenAssumption

\* A prefill inside the window stores to its own slot, from its length up.
LEMMA WithRowsAt ==
    ASSUME NEW s \in Slot, NEW p \in Nat, NEW n \in Nat, NEW h \in Context \union {Junk},
           p + n <= Ctx, NEW u \in Slot, NEW r \in Row
    PROVE  WithRows(s, p, n, h)[<<u, r>>] =
             IF u = s /\ r \in p .. p + n - 1 THEN RowAt(h, r) ELSE kv[<<u, r>>]
<1> DEFINE d == <<u, r>>
<1>1. d \in KvRow
  BY DEF KvRow
<1>2. WithRows(s, p, n, h)[d] =
        IF Offset(d, s) \in p .. p + n - 1 THEN RowAt(h, Offset(d, s)) ELSE kv[d]
  BY <1>1 DEF WithRows
<1>3. \A q \in p .. p + n - 1 : q \in Row
  BY SizeAssumption DEF Row
<1>4. CASE u = s /\ r \in p .. p + n - 1
  <2>1. Offset(d, s) = r
    BY <1>1, <1>4, OffsetInWindow
  <2> QED BY <1>2, <1>4, <2>1
<1>5. CASE ~(u = s /\ r \in p .. p + n - 1)
  <2>1. ASSUME NEW q \in p .. p + n - 1, Offset(d, s) = q PROVE FALSE
    <3>1. d = <<s, q>>
      BY <1>1, <1>3, <2>1, OffsetInWindow
    <3> QED BY <1>5, <2>1, <3>1
  <2> QED BY <1>2, <1>5, <2>1
<1> QED BY <1>4, <1>5

\* A prefill that starts from a true context and has room ends in a true one,
\* and yields the greedy token of it.
LEMMA PrefillExact ==
    ASSUME StateTypeOK, NEW s \in Slot, NEW h \in Context, Holds(s, h),
           NEW ts \in Seq(Token), Len(h) + Len(ts) <= Ctx,
           NEW nx, PrefillSeq(s, ts, nx)
    PROVE  Holds(s, h \o ts)' /\ nx = Greedy[h \o ts]
<1>0. PICK g \in Context : g = h \o ts
  BY AbsorbExact
<1>1. /\ Absorb(s, ts) = g
      /\ g # Junk
      /\ Len(g) = Len(h) + Len(ts)
  BY <1>0, AbsorbExact
<1>2. nKeys[s] = Len(h) /\ RowsHold(kv, s, h)
  BY DEF Holds
<1>3. h \in Seq(Token) /\ Len(h) \in Nat /\ Len(ts) \in Nat
  BY ContextIsSeq
<1>4. rec'[s] = g /\ nKeys'[s] = Len(g)
  BY <1>1, <1>2 DEF PrefillSeq, StateTypeOK
<1>5. RowsHold(kv', s, g)
  <2> SUFFICES ASSUME NEW i \in 0 .. Len(g) - 1 PROVE kv'[<<s, i>>] = Prefix(g, i + 1)
    BY DEF RowsHold
  <2>1. i \in Row /\ i + 1 \in Nat
    BY <1>1, <1>3, SizeAssumption DEF Row
  <2>2. kv'[<<s, i>>] = IF i \in nKeys[s] .. nKeys[s] + Len(ts) - 1
                    THEN RowAt(g, i) ELSE kv[<<s, i>>]
    <3>1. PICK n \in Nat : n = Len(ts)
      BY <1>3
    <3>2. kv' = WithRows(s, nKeys[s], n, g)
      BY <1>1, <3>1 DEF PrefillSeq
    <3>3. nKeys[s] + n <= Ctx
      BY <1>2, <3>1
    <3>4. g \in Context \union {Junk}
      BY <1>1
    <3>5. kv'[<<s, i>>] = IF i \in nKeys[s] .. nKeys[s] + n - 1
                          THEN RowAt(g, i) ELSE kv[<<s, i>>]
      BY <1>2, <1>3, <2>1, <3>2, <3>3, <3>4, WithRowsAt
    <3> QED BY <3>1, <3>5
  <2>3. CASE i < Len(h)
    <3>1. kv'[<<s, i>>] = Prefix(h, i + 1)
      BY <1>2, <1>3, <2>2, <2>3 DEF RowsHold
    <3>2. Prefix(g, i + 1) = Prefix(h, i + 1)
      BY <1>0, <1>3, <2>1, <2>3, PrefixOfExtension
    <3> QED BY <3>1, <3>2
  <2>4. CASE i >= Len(h)
    BY <1>1, <1>2, <1>3, <2>2, <2>4 DEF RowAt
  <2> QED BY <1>3, <2>3, <2>4
<1>6. nx = Greedy[g]
  BY <1>1, <1>5 DEF PrefillSeq, Logits
<1> QED BY <1>0, <1>4, <1>5, <1>6 DEF Holds, RowsHold

\* A slot that has not run out of its window appends in no other slot's.
LEMMA AppendsInWindow ==
    ASSUME NEW s \in Slot, NEW w \in Slot, nKeys[w] \in Row, NEW i \in Row,
           AppendsAt(w) = s * Ctx + i
    PROVE  s = w
<1>1. /\ s \in Int /\ w \in Int /\ Ctx \in Nat
      /\ i \in 0 .. Ctx - 1 /\ nKeys[w] \in 0 .. Ctx - 1
  BY SizeAssumption DEF Slot, Row
<1>2. PICK k \in Int : k = s - w
  BY <1>1
<1>3. k * Ctx = nKeys[w] - i
  <2>1. s = w + k
    BY <1>1, <1>2
  <2> QED BY <1>1, <2>1 DEF AppendsAt
<1>4. CASE k >= 1
  <2>1. k * Ctx >= Ctx
    BY <1>1, <1>4
  <2> QED BY <1>1, <1>3, <2>1
<1>5. CASE k <= 0 - 1
  <2>1. k * Ctx <= 0 - Ctx
    BY <1>1, <1>5
  <2> QED BY <1>1, <1>3, <2>1
<1> QED BY <1>1, <1>2, <1>4, <1>5

LEMMA AppendsApart ==
    ASSUME NEW s \in Slot, NEW w \in Slot, nKeys[s] \in Row, nKeys[w] \in Row,
           AppendsAt(s) = AppendsAt(w)
    PROVE  s = w
  BY AppendsInWindow DEF AppendsAt

\* No slot is disturbed while none has run out of its window.
LEMMA WindowsUndisturbed ==
    ASSUME \A u \in Slot : nKeys[u] \in Row, NEW s \in Slot
    PROVE  Undisturbed(s)
<1> SUFFICES ASSUME NEW w \in Slot \ {s}, AppendsAt(w) \in s * Ctx .. AppendsAt(s) PROVE FALSE
  BY DEF Undisturbed
<1>1. s \in Int /\ Ctx \in Nat /\ nKeys[s] \in 0 .. Ctx - 1
  BY SizeAssumption DEF Slot, Row
<1>2. PICK b \in Int : b = s * Ctx
  BY <1>1
<1>3. AppendsAt(w) \in b .. b + nKeys[s]
  BY <1>2 DEF AppendsAt
<1>4. AppendsAt(w) - b \in 0 .. Ctx - 1 /\ AppendsAt(w) = b + (AppendsAt(w) - b)
  BY <1>1, <1>2, <1>3
<1> QED BY <1>2, <1>4, AppendsInWindow DEF Row

\* While no slot has run out of its window, a batched step stores one row in
\* each slot, at the slot's own position.
LEMMA StepRows ==
    ASSUME NEW batch, NEW ts, NEW out, StepBatch(batch, ts, out),
           \A s \in Slot : nKeys[s] \in Row, NEW u \in Slot, NEW r \in Row
    PROVE  kv'[<<u, r>>] = IF r = nKeys[u] THEN RowAt(StepContext(u, batch, ts), r)
                                       ELSE kv[<<u, r>>]
<1>1. PICK won \in SUBSET Slot : OneWinner(won) /\ kv' = Appended(won, batch, ts)
  BY DEF StepBatch
<1>2. \A s \in Slot : s \in won
  BY <1>1, AppendsApart DEF OneWinner
<1> DEFINE d == <<u, r>>
           Hit(w) == Offset(d, w) = nKeys[w]
<1>3. d \in KvRow
  BY DEF KvRow
<1>4. \A w \in Slot : Hit(w) <=> (w = u /\ r = nKeys[u])
  BY <1>3, OffsetInWindow
<1>5. kv'[d] = IF \E w \in won : Hit(w)
               THEN LET w == CHOOSE w \in won : Hit(w)
                    IN RowAt(StepContext(w, batch, ts), nKeys[w])
               ELSE kv[d]
  BY <1>1, <1>3 DEF Appended
<1>6. CASE r = nKeys[u]
  <2>1. Hit(u) /\ u \in won
    BY <1>2, <1>4, <1>6
  <2>2. (CHOOSE w \in won : Hit(w)) = u
    BY <1>4, <2>1
  <2> HIDE DEF Hit
  <2>3. kv'[d] = RowAt(StepContext(u, batch, ts), nKeys[u])
    BY <1>5, <2>1, <2>2
  <2> QED BY <1>6, <2>3
<1>7. CASE r # nKeys[u]
  <2>1. ~\E w \in won : Hit(w)
    BY <1>4, <1>7
  <2> HIDE DEF Hit
  <2> QED BY <1>5, <1>7, <2>1
<1> QED BY <1>6, <1>7

LEMMA StepExact ==
    ASSUME StateTypeOK, NEW batch \in SUBSET Slot, NEW ts, NEW out,
           \A u \in Slot : nKeys[u] \in Row, StepBatch(batch, ts, out),
           NEW s \in batch, NEW h \in Context, Holds(s, h), ts[s] \in Token
    PROVE  /\ Holds(s, Append(h, ts[s]))'
           /\ Append(h, ts[s]) \in Context
           /\ out[s] = Greedy[Append(h, ts[s])]
<1> DEFINE g == Append(h, ts[s])
<1>1. h \in Seq(Token) /\ Len(h) \in Nat /\ nKeys[s] = Len(h) /\ Len(h) < Ctx
  BY ContextIsSeq, SizeAssumption DEF Holds, Row
<1>2. g = h \o <<ts[s]>> /\ <<ts[s]>> \in Seq(Token) /\ Len(<<ts[s]>>) = 1
  BY <1>1, SingletonExtends
<1>3. Len(h) + Len(<<ts[s]>>) <= Ctx
  BY <1>1, <1>2, SizeAssumption
<1>4. /\ Absorb(s, <<ts[s]>>) = g
      /\ g \in Context
      /\ g # Junk
      /\ Len(g) = Len(h) + 1
  BY <1>2, <1>3, AbsorbExact
<1>5. StepContext(s, batch, ts) = g
  BY <1>4, WindowsUndisturbed DEF StepContext
<1>6. rec'[s] = g /\ nKeys'[s] = Len(g)
  BY <1>1, <1>4, <1>5 DEF StepBatch
<1>7. RowsHold(kv', s, g)
  <2> SUFFICES ASSUME NEW i \in 0 .. Len(g) - 1 PROVE kv'[<<s, i>>] = Prefix(g, i + 1)
    BY DEF RowsHold
  <2>1. i \in Row /\ i + 1 \in Nat
    BY <1>1, <1>4, SizeAssumption DEF Row
  <2>2. kv'[<<s, i>>] = IF i = Len(h) THEN RowAt(g, i) ELSE kv[<<s, i>>]
    <3>1. s \in Slot
      BY DEF StepBatch
    <3>2. kv'[<<s, i>>] = IF i = nKeys[s] THEN RowAt(StepContext(s, batch, ts), i)
                                          ELSE kv[<<s, i>>]
      BY <2>1, <3>1, StepRows
    <3> QED BY <1>1, <1>5, <3>2
  <2>3. CASE i = Len(h)
    BY <1>4, <2>2, <2>3 DEF RowAt
  <2>4. CASE i < Len(h)
    <3>1. kv[<<s, i>>] = Prefix(h, i + 1)
      BY <1>1, <2>1, <2>4 DEF Holds, RowsHold
    <3>2. Prefix(g, i + 1) = Prefix(h, i + 1)
      <4>1. i + 1 <= Len(h)
        BY <1>1, <2>1, <2>4 DEF Row
      <4>2. Prefix(h \o <<ts[s]>>, i + 1) = Prefix(h, i + 1)
        BY <1>1, <1>2, <2>1, <4>1, PrefixOfExtension
      <4> QED BY <1>2, <4>2
    <3> QED BY <1>1, <2>2, <2>4, <3>1, <3>2
  <2> QED BY <1>1, <1>4, <2>3, <2>4
<1>8. out[s] = Greedy[g]
  BY <1>4, <1>5, <1>7 DEF StepBatch, Logits
<1> QED BY <1>4, <1>6, <1>7, <1>8 DEF Holds, RowsHold
=============================================================================
