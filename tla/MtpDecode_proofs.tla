-------------------------- MODULE MtpDecode_proofs --------------------------
(***************************************************************************)
(* Speculative decoding answers as plain greedy decoding does up to where  *)
(* that one ends, for every window, vocabulary, continuation, prompt,      *)
(* number of drafts and choice of drafts, and leaves no trace of a         *)
(* rejected one.  An end of sequence inside a round it emits and goes on   *)
(* behind, so the answers need not be the same.                            *)
(***************************************************************************)
EXTENDS MtpDecode, ModelState_proofs, WellFoundedInduction

\* The context that has been committed.
Said == prompt \o got

\* The state stands for what was said and cur is what plain decoding says next.
AtRest ==
    /\ Said \in Context
    /\ Holds(0, Said)
    /\ nTokens = Len(Said)
    /\ cur = Greedy[Said]

\* The snapshot stands for what was said.
Saved == /\ snapRec[0] = Said
         /\ snapKeys[0] = Len(Said)
         /\ snapTokens = Len(Said)

\* Each prediction is the decoder's own after the tokens fed so far.
Scored ==
    /\ pred \in [1 .. K -> Token]
    /\ \A i \in 1 .. K : pred[i] = Greedy[Said \o SubSeq(Feed, 1, i)]

Phase ==
    /\ pc = "start" => /\ got = << >> /\ Holds(0, << >>)
                       /\ nTokens = 0 /\ rounds = 0
    /\ pc \in {"top", "draft"} => AtRest
    /\ pc = "verify" => AtRest /\ Saved /\ Len(drafts) = K
    /\ pc = "restore" => /\ Said \in Context /\ Saved /\ Scored /\ Len(drafts) = K
                         /\ RowsHold(kv, 0, Said) /\ cur = Greedy[Said]
    /\ pc = "commit" => AtRest /\ Scored /\ Len(drafts) = K

\* Each round said two tokens at least.
Progress == pc \notin {"done", "failed"} => 2 * rounds <= Len(got)

\* Every token said is the decoder's own after those before it, which do not stop
\* at an end of sequence.
Unrolled ==
    \A i \in 1 .. Len(got) : got[i] = Greedy[prompt \o SubSeq(got, 1, i - 1)]

MtpInv == TypeOK /\ Phase /\ Unrolled /\ Progress /\ RoundsNeverCut

-----------------------------------------------------------------------------
(* Facts *)

LEMMA OneSlot == 0 \in Slot /\ Slot = {0}
BY MtpAssumption DEF Slot

LEMMA RowsOfPrefix ==
    ASSUME NEW rows, NEW s, NEW h \in Seq(Token), NEW n \in Nat, n <= Len(h),
           RowsHold(rows, s, h)
    PROVE  RowsHold(rows, s, Prefix(h, n))
<1>1. Len(Prefix(h, n)) = n
  BY DEF Prefix
<1>2. ASSUME NEW i \in 0 .. n - 1
      PROVE  rows[<<s, i>>] = Prefix(Prefix(h, n), i + 1)
  <2>1. rows[<<s, i>>] = Prefix(h, i + 1)
    BY DEF RowsHold
  <2>2. Prefix(Prefix(h, n), i + 1) = Prefix(h, i + 1)
    BY DEF Prefix
  <2> QED BY <2>1, <2>2
<1> QED BY <1>1, <1>2 DEF RowsHold

LEMMA SaidIsSeq ==
    ASSUME TypeOK
    PROVE  /\ prompt \in Seq(Token) /\ got \in Seq(Token) /\ Said \in Seq(Token)
           /\ Len(prompt) \in Nat /\ Len(got) \in Nat
           /\ Len(Said) = Len(prompt) + Len(got)
<1>1. prompt \in Context
  BY MtpAssumption DEF TypeOK
<1>2. prompt \in Seq(Token)
  BY <1>1, ContextIsSeq
<1>3. got \in Seq(Token)
  BY DEF TypeOK
<1> QED BY <1>2, <1>3 DEF Said

LEMMA FeedType ==
    ASSUME TypeOK, Len(drafts) = K
    PROVE  /\ Feed \in Seq(Token) /\ Len(Feed) = K
           /\ Feed[1] = cur
           /\ \A i \in 2 .. K : Feed[i] = drafts[i - 1]
<1>1. cur \in Token /\ drafts \in Seq(Token) /\ K \in Nat \ {0}
  BY MtpAssumption DEF TypeOK
<1>2. SubSeq(drafts, 1, K - 1) \in Seq(Token) /\ Len(SubSeq(drafts, 1, K - 1)) = K - 1
  BY <1>1
<1> QED BY <1>1, <1>2 DEF Feed

\* The drafts that are kept are the ones that were fed, and what was fed before
\* each of them is what is kept before it.
LEMMA KeptFacts ==
    ASSUME TypeOK, Len(drafts) = K, pred \in [1 .. K -> Token],
           NEW n \in 0 .. K - 1, Accepts(n)
    PROVE  /\ Kept(n) \in Seq(Token) /\ Len(Kept(n)) = n + 2
           /\ Kept(n)[1] = cur
           /\ \A m \in 1 .. n + 1 : /\ Kept(n)[m + 1] = pred[m]
                                    /\ SubSeq(Kept(n), 1, m) = SubSeq(Feed, 1, m)
<1>1. cur \in Token /\ drafts \in Seq(Token) /\ K \in Nat \ {0} /\ n \in Nat /\ n <= K - 1
  BY MtpAssumption DEF TypeOK
<1>2. pred[n + 1] \in Token /\ \A i \in 1 .. n : pred[i] = drafts[i]
  BY <1>1 DEF Accepts
<1> DEFINE d == SubSeq(drafts, 1, n)
<1>3. d \in Seq(Token) /\ Len(d) = n /\ \A i \in 1 .. n : d[i] = drafts[i]
  BY <1>1
<1>4. /\ Kept(n) \in Seq(Token) /\ Len(Kept(n)) = n + 2
      /\ Kept(n)[1] = cur
      /\ \A i \in 2 .. n + 1 : Kept(n)[i] = d[i - 1]
      /\ Kept(n)[n + 2] = pred[n + 1]
  <2> HIDE DEF d
  <2>1. Kept(n) = <<cur>> \o d \o <<pred[n + 1]>>
    BY DEF Kept, d
  <2> QED BY <1>1, <1>2, <1>3, <2>1
<1> HIDE DEF d
<1>5. ASSUME NEW m \in 1 .. n + 1 PROVE Kept(n)[m + 1] = pred[m]
  BY <1>1, <1>2, <1>3, <1>4
<1>6. ASSUME NEW m \in 1 .. n + 1 PROVE SubSeq(Kept(n), 1, m) = SubSeq(Feed, 1, m)
  <2>1. Feed \in Seq(Token) /\ Len(Feed) = K
    BY FeedType
  <2>2. ASSUME NEW i \in 1 .. m PROVE Kept(n)[i] = Feed[i]
    BY <1>1, <1>3, <1>4, FeedType
  <2> QED BY <1>1, <1>4, <2>1, <2>2
<1> QED BY <1>4, <1>5, <1>6

\* A forward over tokens that follow what the state stands for.
LEMMA ForwardExact ==
    ASSUME TypeOK, NEW h \in Context, Holds(0, h), nTokens = Len(h),
           NEW ts \in Seq(Token), NEW nx, Forward(ts, nx)
    PROVE  /\ StateTypeOK'
           /\ h \o ts \in Context
           /\ Absorb(0, ts) = h \o ts
           /\ Holds(0, h \o ts)'
           /\ nTokens' = Len(h \o ts)
           /\ nx = Greedy[h \o ts]
           /\ nx \in Token
           /\ normed' \in [Row -> Context \union {Junk}]
           /\ nTokens' \in Nat
           /\ snapRec' = snapRec /\ snapKeys' = snapKeys /\ snapTokens' = snapTokens
<1>1. StateTypeOK /\ 0 \in Slot /\ h \in Seq(Token) /\ Len(h) \in Nat /\ Len(ts) \in Nat
  BY OneSlot, ContextIsSeq DEF TypeOK
<1>2. nKeys[0] = Len(h) /\ Len(h) + Len(ts) <= Ctx /\ PrefillSeq(0, ts, nx)
  BY DEF Forward, HasRoom, Holds
<1>3. StateTypeOK'
  BY <1>1, <1>2, PrefillSeqType
<1>4. /\ Absorb(0, ts) = h \o ts /\ h \o ts \in Context
      /\ Len(h \o ts) = Len(h) + Len(ts)
  BY <1>1, <1>2, AbsorbExact
<1>5. Holds(0, h \o ts)' /\ nx = Greedy[h \o ts]
  BY <1>1, <1>2, PrefillExact
<1>6. nx \in Token
  BY <1>4, <1>5, TokenAssumption
<1>7. nTokens' = Len(h \o ts) /\ nTokens' \in Nat
  BY <1>1, <1>4 DEF Forward
<1>8. normed' \in [Row -> Context \union {Junk}]
  <2>1. ASSUME NEW i \in Row, i < Len(ts)
        PROVE  RowAt(Absorb(0, ts), nKeys[0] + i) \in Context \union {Junk}
    <3>1. i \in Nat
      BY SizeAssumption DEF Row
    <3>2. nKeys[0] + i \in Nat /\ nKeys[0] + i < Len(h \o ts)
      BY <1>1, <1>2, <1>4, <2>1, <3>1
    <3> QED BY <1>4, <3>2, RowAtType
  <2>2. \A i \in Row : normed[i] \in Context \union {Junk}
    BY DEF TypeOK
  <2> QED BY <2>1, <2>2 DEF Forward
<1>9. snapRec' = snapRec /\ snapKeys' = snapKeys /\ snapTokens' = snapTokens
  BY <1>2 DEF Forward, PrefillSeq
<1> QED BY <1>3, <1>4, <1>5, <1>6, <1>7, <1>8, <1>9

LEMMA ConcatIsAssociative ==
    ASSUME NEW p \in Seq(Token), NEW g \in Seq(Token), NEW k \in Seq(Token)
    PROVE  p \o (g \o k) = (p \o g) \o k
  OBVIOUS

\* Greedy tokens after what greedy said are what greedy says.
LEMMA ContinuationIsGreedy ==
    ASSUME NEW p \in Seq(Token), NEW g \in Seq(Token), NEW k \in Seq(Token),
           \A i \in 1 .. Len(g) : g[i] = Greedy[p \o SubSeq(g, 1, i - 1)],
           \A j \in 1 .. Len(k) : k[j] = Greedy[(p \o g) \o SubSeq(k, 1, j - 1)]
    PROVE  /\ p \o (g \o k) = (p \o g) \o k
           /\ \A i \in 1 .. Len(g \o k) :
                 (g \o k)[i] = Greedy[p \o SubSeq(g \o k, 1, i - 1)]
<1>1. p \o (g \o k) = (p \o g) \o k
  BY ConcatIsAssociative
<1>2. ASSUME NEW i \in 1 .. Len(g \o k), i <= Len(g)
      PROVE  (g \o k)[i] = Greedy[p \o SubSeq(g \o k, 1, i - 1)]
  <2>1. (g \o k)[i] = g[i] /\ i \in 1 .. Len(g)
    BY <1>2
  <2>2. SubSeq(g \o k, 1, i - 1) = SubSeq(g, 1, i - 1)
    BY <1>2
  <2> QED BY <2>1, <2>2
<1>3. ASSUME NEW i \in 1 .. Len(g \o k), i > Len(g)
      PROVE  (g \o k)[i] = Greedy[p \o SubSeq(g \o k, 1, i - 1)]
  <2>1. PICK j \in 1 .. Len(k) : i = Len(g) + j
    <3>1. i - Len(g) \in 1 .. Len(k) /\ i = Len(g) + (i - Len(g))
      BY <1>3
    <3> QED BY <3>1
  <2>2. (g \o k)[i] = k[j]
    BY <2>1
  <2>3. SubSeq(g \o k, 1, i - 1) = g \o SubSeq(k, 1, j - 1)
    BY <2>1
  <2>4. SubSeq(k, 1, j - 1) \in Seq(Token)
    BY <2>1
  <2>5. p \o (g \o SubSeq(k, 1, j - 1)) = (p \o g) \o SubSeq(k, 1, j - 1)
    BY <2>4, ConcatIsAssociative
  <2> QED BY <2>2, <2>3, <2>5
<1> QED BY <1>1, <1>2, <1>3

\* The rows a forward over ts leaves behind h are scored as plain decoding scores.
LEMMA PrefixOfFeed ==
    ASSUME NEW h \in Seq(Token), NEW ts \in Seq(Token), NEW i \in 1 .. Len(ts)
    PROVE  /\ Prefix(h \o ts, Len(h) + i) = h \o SubSeq(ts, 1, i)
           /\ Prefix(h \o ts, Len(h)) = h
           /\ Len(h) + i \in Nat /\ Len(h) + i <= Len(h \o ts)
           /\ Len(h) <= Len(h \o ts)
  BY DEF Prefix

LEMMA RestKept ==
    ASSUME AtRest, UNCHANGED <<stateVars, prompt, got, cur, nTokens>>
    PROVE  AtRest'
  BY DEF AtRest, Holds, RowsHold, Said, stateVars

-----------------------------------------------------------------------------
(* The actions *)

LEMMA MtpInit == Init => MtpInv
<1> SUFFICES ASSUME Init PROVE MtpInv
  OBVIOUS
<1>1. AnyToken \in Token
  <2>1. \E t : t \in Token
    BY EmptyContext
  <2> QED BY <2>1 DEF AnyToken
<1>2. StateTypeOK
  BY EmptyContext DEF Init, StateInit, StateTypeOK
<1>3. TypeOK
  BY <1>1, <1>2, MtpAssumption DEF Init, TypeOK
<1>4. Holds(0, << >>)
  BY OneSlot DEF Init, StateInit, Holds, RowsHold
<1> QED BY <1>3, <1>4 DEF Init, MtpInv, Phase, Unrolled, Progress, RoundsNeverCut

LEMMA MtpStart ==
    ASSUME MtpInv, Start
    PROVE  MtpInv'
<1>1. TypeOK /\ got = << >> /\ Holds(0, << >>) /\ nTokens = 0 /\ rounds = 0
  BY DEF MtpInv, Phase, Start
<1>2. prompt \in Context /\ prompt \in Seq(Token) /\ << >> \in Context /\ Len(<< >>) = 0
  BY <1>1, MtpAssumption, ContextIsSeq, EmptyContext DEF TypeOK
<1>3. << >> \o prompt = prompt /\ prompt \o << >> = prompt
  BY <1>2
<1>4. PICK p \in Prompts : p = prompt
  BY <1>1 DEF TypeOK
<1>5. p \in Seq(Token) /\ << >> \o p = p
  BY <1>2, <1>3, <1>4
<1>6. Forward(p, cur')
  BY <1>4 DEF Start
<1>7. /\ StateTypeOK' /\ Holds(0, p)' /\ nTokens' = Len(p) /\ cur' = Greedy[p]
      /\ cur' \in Token /\ normed' \in [Row -> Context \union {Junk}] /\ nTokens' \in Nat
      /\ snapTokens' = snapTokens
  BY <1>1, <1>2, <1>5, <1>6, ForwardExact
<1>8. /\ pc' = "top" /\ prompt' = p /\ got' = << >> /\ Said' = p /\ rounds' = 0
  BY <1>1, <1>3, <1>4 DEF Start, Said
<1>9. TypeOK'
  BY <1>1, <1>7, <1>8 DEF Start, TypeOK
<1>10. AtRest'
  BY <1>2, <1>4, <1>7, <1>8 DEF AtRest
<1> QED BY <1>8, <1>9, <1>10 DEF MtpInv, Phase, Unrolled, Progress, RoundsNeverCut

LEMMA MtpBeginRound ==
    ASSUME MtpInv, BeginRound
    PROVE  MtpInv'
<1>1. TypeOK /\ AtRest /\ pc = "top" /\ pc' = "draft"
  BY DEF MtpInv, Phase, BeginRound
<1>2. chain' \in Context \union {Junk}
  <2>1. nTokens = Len(prompt) + Len(got) /\ Len(prompt) \in Nat /\ Len(got) \in Nat
    BY <1>1, SaidIsSeq DEF AtRest
  <2>2. Len(prompt) # 0
    BY <1>1, SaidIsSeq, MtpAssumption DEF TypeOK
  <2>3. nTokens <= Ctx /\ Ctx \in Nat
    BY <1>1, ContextIsSeq, SizeAssumption DEF AtRest
  <2>4. nTokens - 1 \in Row
    BY <2>1, <2>2, <2>3 DEF Row
  <2> QED BY <1>1, <2>4 DEF BeginRound, TypeOK
<1>3. << >> \in Seq(Token) /\ Len(<< >>) = 0 /\ 0 <= K
  BY MtpAssumption
<1>4. StateTypeOK'
  BY <1>1 DEF BeginRound, TypeOK, StateTypeOK, stateVars
<1>5. TypeOK'
  BY <1>1, <1>2, <1>3, <1>4 DEF BeginRound, TypeOK
<1>6. AtRest'
  BY <1>1, RestKept DEF BeginRound
<1> QED
  BY <1>1, <1>5, <1>6 DEF BeginRound, MtpInv, Phase, Unrolled, Progress,
     RoundsNeverCut

LEMMA MtpDraft ==
    ASSUME MtpInv, Draft
    PROVE  MtpInv'
<1>1. TypeOK /\ AtRest /\ pc = "draft" /\ pc' = "draft"
  BY DEF MtpInv, Phase, Draft
<1>2. drafts' \in Seq(Token) /\ Len(drafts') <= K
  BY <1>1, MtpAssumption DEF Draft, TypeOK
<1>3. StateTypeOK'
  BY <1>1 DEF Draft, TypeOK, StateTypeOK, stateVars
<1>4. headKeys' \in Nat
  BY <1>1 DEF Draft, TypeOK
<1>5. TypeOK'
  BY <1>1, <1>2, <1>3, <1>4 DEF Draft, TypeOK
<1>6. AtRest'
  BY <1>1, RestKept DEF Draft
<1> QED
  BY <1>1, <1>5, <1>6 DEF Draft, MtpInv, Phase, Unrolled, Progress,
     RoundsNeverCut

LEMMA MtpSnapshot ==
    ASSUME MtpInv, Snapshot
    PROVE  MtpInv'
<1>1. /\ TypeOK /\ AtRest /\ pc = "draft" /\ pc' = "verify" /\ Len(drafts) = K
      /\ SnapshotRecurrent
  BY DEF MtpInv, Phase, Snapshot
<1>2. StateTypeOK'
  BY <1>1, WholeStateType DEF TypeOK
<1>3. TypeOK'
  BY <1>1, <1>2 DEF Snapshot, loopVars, TypeOK
<1>4. AtRest'
  BY <1>1 DEF Snapshot, SnapshotRecurrent, loopVars, AtRest, Said, Holds, RowsHold
<1>5. Saved'
  BY <1>1 DEF Snapshot, SnapshotRecurrent, loopVars, AtRest, Said, Holds, Saved
<1> QED
  BY <1>1, <1>3, <1>4, <1>5 DEF Snapshot, loopVars, MtpInv, Phase, Unrolled,
     Progress, RoundsNeverCut

LEMMA MtpVerify ==
    ASSUME MtpInv, Verify
    PROVE  MtpInv'
<1>1. /\ TypeOK /\ AtRest /\ Saved /\ Len(drafts) = K
      /\ pc = "verify" /\ pc' = "restore"
  BY DEF MtpInv, Phase, Verify
<1>2. PICK h \in Context : h = Said
  BY <1>1 DEF AtRest
<1>3. PICK f \in Seq(Token) : f = Feed
  BY <1>1, FeedType
<1>4. Len(f) = K /\ h \in Seq(Token) /\ K \in Nat \ {0} /\ nKeys[0] = Len(h) /\ Len(h) \in Nat
  BY <1>1, <1>2, <1>3, FeedType, ContextIsSeq, MtpAssumption DEF AtRest, Holds
<1>5. PICK nx \in Token : Forward(f, nx)
  BY <1>3 DEF Verify
<1>6. Holds(0, h) /\ nTokens = Len(h)
  BY <1>1, <1>2 DEF AtRest
<1>7. /\ StateTypeOK' /\ h \o f \in Context /\ Absorb(0, f) = h \o f
      /\ Holds(0, h \o f)'
      /\ normed' \in [Row -> Context \union {Junk}] /\ nTokens' \in Nat
      /\ snapRec' = snapRec /\ snapKeys' = snapKeys /\ snapTokens' = snapTokens
  BY <1>1, <1>5, <1>6, ForwardExact
<1>8. PICK rows : rows = kv'
  OBVIOUS
<1>9. RowsHold(rows, 0, h \o f)
  BY <1>7, <1>8 DEF Holds, RowsHold
<1>10. h \o f \in Seq(Token) /\ h \o f # Junk
  BY <1>7, ContextIsSeq, TokenAssumption
<1>11. pred' \in [1 .. K -> Token]
  BY DEF Verify
<1>12. ASSUME NEW i \in 1 .. K
       PROVE  pred'[i] = Greedy[h \o SubSeq(f, 1, i)]
  <2>1. i \in 1 .. Len(f)
    BY <1>4
  <2>2. /\ Prefix(h \o f, Len(h) + i) = h \o SubSeq(f, 1, i)
        /\ Len(h) + i \in Nat /\ Len(h) + i <= Len(h \o f)
    BY <1>4, <2>1, PrefixOfFeed
  <2>3. RowsHold(rows, 0, Prefix(h \o f, Len(h) + i))
    BY <1>9, <1>10, <2>2, RowsOfPrefix
  <2>4. Prefix(h \o f, Len(h) + i) \in Context
    BY <1>7, <2>2, PrefixInContext
  <2>5. (nKeys[0] + i - 1) + 1 = Len(h) + i
    BY <1>4
  <2>6. RowAt(h \o f, nKeys[0] + i - 1) = Prefix(h \o f, Len(h) + i)
    BY <1>10, <2>5 DEF RowAt
  <2>7. pred'[i] \in Logits(rows, 0, RowAt(h \o f, nKeys[0] + i - 1))
    BY <1>3, <1>7, <1>8 DEF Verify
  <2>8. Prefix(h \o f, Len(h) + i) # Junk
    BY <2>4, TokenAssumption
  <2> QED BY <2>2, <2>3, <2>6, <2>7, <2>8 DEF Logits
<1>13. RowsHold(rows, 0, h)
  <2>1. 1 \in 1 .. Len(f)
    BY <1>4
  <2>2. Prefix(h \o f, Len(h)) = h /\ Len(h) <= Len(h \o f)
    BY <1>4, <2>1, PrefixOfFeed
  <2> QED BY <1>4, <1>9, <1>10, <2>2, RowsOfPrefix
<1>14. Said' = h /\ Feed' = f /\ cur' = cur /\ drafts' = drafts
  BY <1>2, <1>3 DEF Verify, Said, Feed
<1>15. Scored'
  BY <1>11, <1>12, <1>14 DEF Scored
<1>16. Saved'
  BY <1>1, <1>2, <1>7, <1>14 DEF Saved
<1>17. RowsHold(kv, 0, Said)'
  BY <1>8, <1>13, <1>14 DEF RowsHold
<1>18. cur' = Greedy[Said']
  BY <1>1, <1>2, <1>14 DEF AtRest
<1>19. TypeOK'
  BY <1>1, <1>7, <1>11 DEF Verify, TypeOK
<1>20. Phase'
  BY <1>1, <1>14, <1>15, <1>16, <1>17, <1>18 DEF Phase
<1> QED
  BY <1>1, <1>19, <1>20 DEF Verify, MtpInv, Unrolled, Progress, RoundsNeverCut

LEMMA MtpRestore ==
    ASSUME MtpInv, Restore
    PROVE  MtpInv'
<1>1. /\ TypeOK /\ Said \in Context /\ Saved /\ Scored /\ Len(drafts) = K
      /\ RowsHold(kv, 0, Said) /\ cur = Greedy[Said]
      /\ pc = "restore" /\ pc' = "commit" /\ RestoreRecurrent
  BY DEF MtpInv, Phase, Restore
<1>2. StateTypeOK'
  BY <1>1, WholeStateType DEF TypeOK
<1>3. TypeOK'
  BY <1>1, <1>2 DEF Restore, loopVars, TypeOK
<1>4. Said' = Said /\ Feed' = Feed /\ pred' = pred /\ cur' = cur /\ drafts' = drafts
  BY DEF Restore, loopVars, Said, Feed
<1>5. AtRest'
  <2>1. rec'[0] = Said' /\ nKeys'[0] = Len(Said') /\ nTokens' = Len(Said')
    BY <1>1, <1>4 DEF Restore, RestoreRecurrent, Saved
  <2>2. RowsHold(kv', 0, Said')
    BY <1>1, <1>4 DEF RestoreRecurrent
  <2> QED BY <1>1, <1>4, <2>1, <2>2 DEF AtRest, Holds
<1>6. Scored'
  BY <1>1, <1>4 DEF Scored
<1> QED
  BY <1>1, <1>3, <1>4, <1>5, <1>6 DEF Restore, loopVars, MtpInv, Phase, Unrolled,
     Progress, RoundsNeverCut

LEMMA MtpCommit ==
    ASSUME MtpInv, Commit
    PROVE  MtpInv'
<1>1. /\ TypeOK /\ AtRest /\ Scored /\ Len(drafts) = K
      /\ pc = "commit" /\ pc' = "top"
  BY DEF MtpInv, Phase, Commit
<1>2. PICK n \in 0 .. K - 1 : /\ Accepts(n) /\ Forward(Kept(n), cur')
                              /\ got' = got \o Kept(n)
  BY DEF Commit
<1>3. n \in Nat /\ pred \in [1 .. K -> Token] /\ K \in Nat \ {0}
  BY <1>1, MtpAssumption DEF Scored
<1>4. PICK k \in Seq(Token) : k = Kept(n)
  BY <1>1, <1>2, <1>3, KeptFacts
<1>5. /\ Len(k) = n + 2 /\ k[1] = cur
      /\ \A m \in 1 .. n + 1 : k[m + 1] = pred[m] /\ SubSeq(k, 1, m) = SubSeq(Feed, 1, m)
  BY <1>1, <1>2, <1>3, <1>4, KeptFacts
<1>6. PICK h \in Context : h = Said
  BY <1>1 DEF AtRest
<1>7. Holds(0, h) /\ nTokens = Len(h) /\ cur = Greedy[h] /\ h \in Seq(Token)
  BY <1>1, <1>6, ContextIsSeq DEF AtRest
<1>8. Forward(k, cur')
  BY <1>2, <1>4
<1>9. /\ StateTypeOK' /\ h \o k \in Context /\ Holds(0, h \o k)'
      /\ nTokens' = Len(h \o k) /\ cur' = Greedy[h \o k] /\ cur' \in Token
      /\ normed' \in [Row -> Context \union {Junk}] /\ nTokens' \in Nat
      /\ snapTokens' = snapTokens
  BY <1>1, <1>7, <1>8, ForwardExact
<1>10. PICK p \in Seq(Token), g \in Seq(Token) : p = prompt /\ g = got
  BY <1>1, SaidIsSeq
<1>11. got' = g \o k /\ prompt' = p /\ p \o g = h
  BY <1>2, <1>4, <1>6, <1>10 DEF Commit, Said
<1>12. ASSUME NEW j \in 1 .. Len(k)
       PROVE  k[j] = Greedy[(p \o g) \o SubSeq(k, 1, j - 1)]
  <2>1. CASE j = 1
    <3>1. SubSeq(k, 1, j - 1) = << >> /\ h \o << >> = h
      BY <1>7, <2>1
    <3> QED BY <1>5, <1>7, <1>11, <2>1, <3>1
  <2>2. CASE j # 1
    <3>1. PICK m \in 1 .. n + 1 : j = m + 1
      <4>1. j - 1 \in 1 .. n + 1 /\ j = (j - 1) + 1
        BY <1>3, <1>5, <2>2
      <4> QED BY <4>1
    <3>2. m \in 1 .. K /\ j - 1 = m
      BY <1>3, <3>1
    <3>3. pred[m] = Greedy[h \o SubSeq(Feed, 1, m)]
      BY <1>1, <1>6, <3>2 DEF Scored
    <3>4. k[j] = pred[m] /\ SubSeq(k, 1, j - 1) = SubSeq(Feed, 1, m)
      BY <1>5, <3>1, <3>2
    <3> QED BY <1>11, <3>3, <3>4
  <2> QED BY <2>1, <2>2
<1>13. \A i \in 1 .. Len(g) : g[i] = Greedy[p \o SubSeq(g, 1, i - 1)]
  BY <1>10 DEF MtpInv, Unrolled
<1>14. /\ p \o (g \o k) = h \o k
       /\ \A i \in 1 .. Len(g \o k) : (g \o k)[i] = Greedy[p \o SubSeq(g \o k, 1, i - 1)]
  BY <1>11, <1>12, <1>13, ContinuationIsGreedy
<1>15. Unrolled'
  BY <1>11, <1>14 DEF Unrolled
<1>16. AtRest'
  <2>1. Said' = h \o k
    BY <1>11, <1>14 DEF Said
  <2> QED BY <1>9, <2>1 DEF AtRest
<1>17. TypeOK'
  <2>1. g \o k \in Seq(Token)
    OBVIOUS
  <2>2. rounds' \in Nat
    BY <1>1 DEF Commit, TypeOK
  <2> QED BY <1>1, <1>9, <1>11, <2>1, <2>2 DEF Commit, TypeOK
<1>18. Progress'
  <2>1. Len(g \o k) = Len(g) + Len(k) /\ Len(g) \in Nat
    OBVIOUS
  <2>2. 2 * rounds <= Len(g) /\ rounds \in Nat /\ rounds' = rounds + 1
    BY <1>1, <1>10 DEF MtpInv, Progress, Commit, TypeOK
  <2> QED BY <1>3, <1>5, <1>11, <2>1, <2>2 DEF Progress
<1> QED
  BY <1>1, <1>15, <1>16, <1>17, <1>18 DEF MtpInv, Phase, RoundsNeverCut

LEMMA MtpStop ==
    ASSUME MtpInv, Stop
    PROVE  MtpInv'
<1>1. /\ TypeOK /\ AtRest /\ Unrolled /\ 2 * rounds <= Len(got)
      /\ pc = "top" /\ pc' = "done" /\ ~GoOn
  BY DEF MtpInv, Phase, Progress, Stop
<1>2. NNew \in Nat /\ rounds \in Nat /\ got \in Seq(Token) /\ Len(got) \in Nat
  BY <1>1, MtpAssumption DEF TypeOK
<1>3. prompt' = prompt
  BY DEF Stop
<1>4. ASSUME Len(got) > NNew
      PROVE  got' \in Seq(Token) /\ Len(got') = NNew /\ Unrolled'
  <2>1. got' = SubSeq(got, 1, NNew)
    BY <1>4 DEF Stop
  <2>2. /\ got' \in Seq(Token) /\ Len(got') = NNew
        /\ \A i \in 1 .. NNew : /\ got'[i] = got[i] /\ i \in 1 .. Len(got)
                                /\ SubSeq(got', 1, i - 1) = SubSeq(got, 1, i - 1)
    BY <1>2, <1>4, <2>1
  <2>3. Unrolled'
    BY <1>1, <1>3, <2>2 DEF Unrolled
  <2> QED BY <2>2, <2>3
<1>5. ASSUME Len(got) <= NNew
      PROVE  /\ got' = got /\ Unrolled'
             /\ Len(got) = NNew \/ Greedy[prompt \o got] \in EosTokens
  <2>1. got' = got
    BY <1>2, <1>5 DEF Stop
  <2>2. Unrolled'
    BY <1>1, <1>3, <2>1 DEF Unrolled
  <2>3. cur = Greedy[prompt \o got]
    BY <1>1 DEF AtRest, Said
  <2>4. Len(got) >= NNew \/ rounds >= NNew * 4 \/ cur \in EosTokens
    BY <1>1, <1>2 DEF GoOn
  <2>5. Len(got) = NNew \/ cur \in EosTokens
    BY <1>1, <1>2, <1>5, <2>4
  <2> QED BY <2>1, <2>2, <2>3, <2>5
<1>6. /\ got' \in Seq(Token) /\ Len(got') <= NNew /\ Unrolled'
      /\ Len(got') = NNew \/ Greedy[prompt' \o got'] \in EosTokens
  <2>1. CASE Len(got) > NNew
    BY <1>2, <1>4, <2>1
  <2>2. CASE Len(got) <= NNew
    BY <1>2, <1>3, <1>5, <2>2
  <2> QED BY <1>2, <2>1, <2>2
<1>7. StateTypeOK'
  BY <1>1 DEF Stop, TypeOK, StateTypeOK, stateVars
<1>8. TypeOK'
  BY <1>1, <1>6, <1>7 DEF Stop, TypeOK
<1> QED
  BY <1>1, <1>6, <1>8 DEF MtpInv, Phase, Progress, RoundsNeverCut

LEMMA MtpOutOfRoom ==
    ASSUME MtpInv, OutOfRoom
    PROVE  MtpInv'
<1>1. TypeOK /\ pc' = "failed" /\ Unrolled
  BY DEF MtpInv, OutOfRoom
<1>2. StateTypeOK'
  BY <1>1 DEF OutOfRoom, TypeOK, StateTypeOK, stateVars
<1>3. TypeOK'
  BY <1>1, <1>2 DEF OutOfRoom, loopVars, TypeOK
<1> QED
  BY <1>1, <1>3 DEF OutOfRoom, loopVars, MtpInv, Phase, Unrolled, Progress,
     RoundsNeverCut

LEMMA MtpStutter ==
    ASSUME MtpInv, UNCHANGED vars
    PROVE  MtpInv'
<1>1. UNCHANGED <<stateVars, pc, loopVars, nTokens, snapTokens, normed>>
  BY DEF vars
<1>2. TypeOK'
  BY <1>1 DEF MtpInv, TypeOK, StateTypeOK, stateVars, loopVars
<1>3. Said' = Said /\ Feed' = Feed
  BY <1>1 DEF loopVars, Said, Feed
<1>4. Holds(0, << >>)' = Holds(0, << >>)
  BY <1>1 DEF Holds, RowsHold, stateVars
<1>5. AtRest' = AtRest
  BY <1>1, <1>3 DEF AtRest, Holds, RowsHold, stateVars, loopVars
<1>6. Saved' = Saved /\ Scored' = Scored /\ RowsHold(kv, 0, Said)' = RowsHold(kv, 0, Said)
  BY <1>1, <1>3 DEF Saved, Scored, RowsHold, stateVars, loopVars
<1>7. Phase'
  BY <1>1, <1>3, <1>4, <1>5, <1>6 DEF MtpInv, Phase, loopVars
<1> QED
  BY <1>1, <1>2, <1>7 DEF MtpInv, Unrolled, Progress, RoundsNeverCut, loopVars

-----------------------------------------------------------------------------
(* What is returned begins as plain decoding answers *)

\* Of the ends of sequence in an answer there is a first.
LEMMA FirstEnd ==
    ASSUME NEW T \in SUBSET Nat, T # {}
    PROVE  \E m \in T : \A k \in T : m <= k
<1>1. PICK m \in T : \A k \in T : <<k, m>> \notin OpToRel(<, Nat)
  BY NatLessThanWellFounded, WFMin
<1>2. ASSUME NEW k \in T PROVE m <= k
  <2>1. k \in Nat /\ m \in Nat /\ <<k, m>> \in Nat \X Nat
    OBVIOUS
  <2>2. ~(k < m)
    BY <1>1, <2>1 DEF OpToRel
  <2> QED BY <2>1, <2>2
<1> QED BY <1>2

\* A prefix of the tokens said that ends behind the last of NNew tokens or in
\* front of the first end of sequence is plain decoding's answer.
LEMMA PrefixIsPlain ==
    ASSUME NEW p \in Seq(Token), NEW g \in Seq(Token), NEW n \in 0 .. Len(g),
           Len(g) <= NNew, NNew \in Nat,
           \A i \in 1 .. Len(g) : g[i] = Greedy[p \o SubSeq(g, 1, i - 1)],
           \A i \in 1 .. n : g[i] \notin EosTokens,
           n = NNew \/ Greedy[p \o SubSeq(g, 1, n)] \in EosTokens
    PROVE  IsPlainAnswer(p, SubSeq(g, 1, n))
<1>1. PICK o : o = SubSeq(g, 1, n)
  OBVIOUS
<1>2. Len(o) = n /\ n \in Nat /\ n <= NNew /\ Len(g) \in Nat /\ n <= Len(g)
  BY <1>1
<1>3. ASSUME NEW i \in 1 .. n
      PROVE  o[i] = g[i] /\ SubSeq(o, 1, i - 1) = SubSeq(g, 1, i - 1) /\ i \in 1 .. Len(g)
  BY <1>1, <1>2
<1>4. ASSUME NEW i \in 1 .. n
      PROVE  o[i] = Greedy[p \o SubSeq(o, 1, i - 1)] /\ o[i] \notin EosTokens
  BY <1>3
<1>5. IsPlainAnswer(p, o)
  BY <1>1, <1>2, <1>4 DEF IsPlainAnswer
<1> QED BY <1>1, <1>5

LEMMA PlainPart ==
    ASSUME TypeOK, Unrolled, RoundsNeverCut
    PROVE  BeginsAsPlain
<1> SUFFICES ASSUME pc = "done"
             PROVE  \E n \in 0 .. Len(got) :
                       /\ IsPlainAnswer(prompt, SubSeq(got, 1, n))
                       /\ n < Len(got) => got[n + 1] \in EosTokens
  BY DEF BeginsAsPlain
<1>1. PICK p \in Seq(Token), g \in Seq(Token) : p = prompt /\ g = got
  BY SaidIsSeq
<1>2. NNew \in Nat /\ Len(g) \in Nat /\ Len(g) <= NNew
  BY <1>1, MtpAssumption DEF TypeOK
<1>3. \A i \in 1 .. Len(g) : g[i] = Greedy[p \o SubSeq(g, 1, i - 1)]
  BY <1>1 DEF Unrolled
<1>4. CASE \E i \in 1 .. Len(g) : g[i] \in EosTokens
  <2> DEFINE T == {i \in 1 .. Len(g) : g[i] \in EosTokens}
  <2>1. T # {} /\ T \in SUBSET Nat
    BY <1>4
  <2>2. PICK m \in T : \A k \in T : m <= k
    BY <2>1, FirstEnd
  <2>3. PICK n \in 0 .. Len(g) : m = n + 1
    <3>1. m - 1 \in 0 .. Len(g) /\ m = (m - 1) + 1
      BY <1>2, <2>2
    <3> QED BY <3>1
  <2>4. n < Len(g) /\ g[n + 1] \in EosTokens /\ n \in Nat
    BY <1>2, <2>2, <2>3
  <2>5. \A i \in 1 .. n : g[i] \notin EosTokens
    BY <1>2, <2>2, <2>3
  <2>6. g[n + 1] = Greedy[p \o SubSeq(g, 1, n)]
    <3>1. n + 1 \in 1 .. Len(g) /\ (n + 1) - 1 = n
      BY <1>2, <2>4
    <3> QED BY <1>3, <3>1
  <2>7. IsPlainAnswer(p, SubSeq(g, 1, n))
    BY <1>2, <1>3, <2>4, <2>5, <2>6, PrefixIsPlain
  <2> QED BY <1>1, <2>4, <2>7
<1>5. CASE ~ \E i \in 1 .. Len(g) : g[i] \in EosTokens
  <2>1. SubSeq(g, 1, Len(g)) = g /\ Len(g) \in 0 .. Len(g)
    BY <1>2
  <2>2. Len(g) = NNew \/ Greedy[p \o g] \in EosTokens
    BY <1>1 DEF RoundsNeverCut
  <2>3. IsPlainAnswer(p, SubSeq(g, 1, Len(g)))
    BY <1>2, <1>3, <1>5, <2>1, <2>2, PrefixIsPlain
  <2> QED BY <1>1, <1>2, <2>1, <2>3
<1> QED BY <1>4, <1>5

-----------------------------------------------------------------------------
(* The theorems *)

LEMMA MtpInductive == Spec => []MtpInv
<1>1. Init => MtpInv
  BY MtpInit
<1>2. MtpInv /\ [Next]_vars => MtpInv'
  BY MtpStart, MtpBeginRound, MtpDraft, MtpSnapshot, MtpVerify, MtpRestore, MtpCommit,
     MtpStop, MtpOutOfRoom, MtpStutter DEF Next
<1> QED BY <1>1, <1>2, PTL DEF Spec

\* The variables of `mtp_generate` keep their types and it never returns more
\* tokens than it was asked for.
THEOREM MtpTypeCorrect == Spec => []TypeOK
<1>1. MtpInv => TypeOK
  BY DEF MtpInv
<1> QED BY <1>1, MtpInductive, PTL

\* Whatever the head drafts, the answer is the one of plain greedy decoding as
\* far as that one goes; behind it there is nothing, or the end of sequence that
\* plain decoding breaks at (gb10-verify looks for one in a round's first token
\* only and goes on behind the others).
THEOREM SpeculationBeginsAsPlain == Spec => []BeginsAsPlain
<1>1. MtpInv => BeginsAsPlain
  BY PlainPart DEF MtpInv
<1> QED BY <1>1, MtpInductive, PTL

\* snapshot_recurrent and restore_recurrent wind a rejected draft back whole:
\* every round starts from a state that stands for the tokens emitted.
THEOREM NothingRejectedStays == Spec => []CommittedOnly
<1>1. MtpInv => CommittedOnly
  BY DEF MtpInv, Phase, AtRest, Said, CommittedOnly
<1> QED BY <1>1, MtpInductive, PTL

\* `rounds < n_new * 4` never ends a run: a round says two tokens at least.  (An
\* end of sequence inside a round does not end one either.)
THEOREM RoundsSuffice == Spec => []RoundsNeverCut
<1>1. MtpInv => RoundsNeverCut
  BY DEF MtpInv
<1> QED BY <1>1, MtpInductive, PTL
=============================================================================
