----------------------------- MODULE MtpDecode -----------------------------
(***************************************************************************)
(* Speculative decoding with the MTP head, `mtp_generate` of gb10-verify.  *)
(* A round drafts K tokens with the head, feeds the decoder the token it   *)
(* is sure of and K-1 drafts, keeps the drafts up to the first one the     *)
(* decoder disagrees with, winds the state back and feeds what it kept.    *)
(*                                                                         *)
(* The head may draft anything: what it computes is not modelled, only the *)
(* hidden state it is given and the rows of its own cache.  An error ends  *)
(* the program; those a full cache raises are modelled.                    *)
(***************************************************************************)
EXTENDS ModelState

CONSTANTS
    Prompts,   \* what --prompt may be, tokenized
    NNew,      \* tokens asked for (--n-new)
    K,         \* drafts of a round
    EosTokens

\* The plain decoding that runs first has had room, in a state of one slot.
ASSUME MtpAssumption ==
    /\ NSeq = 1
    /\ NNew \in Nat
    /\ K \in Nat \ {0}
    /\ \A p \in Prompts : p \in Context /\ p # << >> /\ Len(p) + NNew <= Ctx

VARIABLES
    pc,
    prompt,
    got,         \* tokens emitted
    cur,         \* the token predicted and not yet emitted
    drafts,      \* the head's tokens of this round
    pred,        \* the decoder's next token after each row it verified
    rounds,
    nTokens,     \* ModelState::n_tokens
    snapTokens,  \* ModelState::n_tokens_snapshot
    normed,      \* row -> the context whose last hidden it holds
    chain,       \* the hidden the head drafts from, as a context
    headKeys     \* rows in the head's cache, which nothing winds back

loopVars == <<prompt, got, cur, drafts, pred, rounds, chain, headKeys>>
vars == <<stateVars, pc, loopVars, nTokens, snapTokens, normed>>

AnyToken == CHOOSE t \in Token : TRUE

Init ==
    /\ StateInit
    /\ pc = "start"
    /\ prompt \in Prompts
    /\ got = << >> /\ drafts = << >> /\ pred = << >>
    /\ cur = AnyToken
    /\ rounds = 0 /\ nTokens = 0 /\ snapTokens = 0 /\ headKeys = 0
    /\ normed = [i \in Row |-> Junk]
    /\ chain = Junk

-----------------------------------------------------------------------------
\* The attention refuses a range that ends behind the cache.
HasRoom(ts) == nKeys[0] + Len(ts) <= Ctx

\* Model::prefill_seq with what it leaves in the state beside the slot's own:
\* normed has a row for each token of THIS call, n_tokens counts them all.
Forward(ts, nx) ==
    /\ HasRoom(ts)
    /\ PrefillSeq(0, ts, nx)
    /\ nTokens' = nTokens + Len(ts)
    /\ normed' = [i \in Row |-> IF i < Len(ts) THEN RowAt(Absorb(0, ts), nKeys[0] + i)
                                               ELSE normed[i]]
    /\ UNCHANGED snapTokens

Start ==
    /\ pc = "start"
    /\ Forward(prompt, cur')
    /\ pc' = "top"
    /\ UNCHANGED <<prompt, got, drafts, pred, rounds, chain, headKeys>>

\* The reference run: the prompt's greedy continuation, up to NNew tokens and to
\* the first end of sequence, which is not part of it.
IsPlainAnswer(p, out) ==
    /\ Len(out) <= NNew
    /\ \A i \in 1 .. Len(out) : /\ out[i] = Greedy[p \o SubSeq(out, 1, i - 1)]
                                /\ out[i] \notin EosTokens
    /\ Len(out) = NNew \/ Greedy[p \o out] \in EosTokens

\* A loop that trusts each round to emit K tokens.
EarlyGoOn == Len(got) < NNew /\ rounds * K < NNew /\ cur \notin EosTokens

\* Only the first token of a round is looked at for an end of sequence.
GoOn == Len(got) < NNew /\ rounds < NNew * 4 /\ cur \notin EosTokens

\* copy_last_row takes the row by the state's count of tokens.
BeginRound ==
    /\ pc = "top" /\ GoOn
    /\ pc' = "draft"
    /\ chain' = normed[nTokens - 1]
    /\ drafts' = << >>
    /\ UNCHANGED <<stateVars, prompt, got, cur, pred, rounds, nTokens, snapTokens,
                   normed, headKeys>>

\* Mtp::forward: one row in the head's cache; its own hidden is the next input.
Draft ==
    /\ pc = "draft" /\ Len(drafts) < K
    /\ headKeys < Ctx
    /\ headKeys' = headKeys + 1
    /\ \E d \in Token : drafts' = Append(drafts, d)
    /\ chain' = Junk
    /\ UNCHANGED <<stateVars, pc, prompt, got, cur, pred, rounds, nTokens, snapTokens,
                   normed>>

Snapshot ==
    /\ pc = "draft" /\ Len(drafts) = K
    /\ SnapshotRecurrent
    /\ snapTokens' = nTokens
    /\ pc' = "verify"
    /\ UNCHANGED <<loopVars, nTokens, normed>>

Feed == <<cur>> \o SubSeq(drafts, 1, K - 1)

\* all_logits scores every row of the feed.
Verify ==
    /\ pc = "verify"
    /\ \E nx \in Token : Forward(Feed, nx)
    /\ pred' \in [1 .. K -> Token]
    /\ LET c == Absorb(0, Feed)
       IN \A i \in 1 .. K : pred'[i] \in Logits(kv', 0, RowAt(c, nKeys[0] + i - 1))
    /\ pc' = "restore"
    /\ UNCHANGED <<prompt, got, cur, drafts, rounds, chain, headKeys>>

\* The restore before n_tokens had a snapshot.
RestoreWithoutTokens ==
    /\ pc = "restore"
    /\ RestoreRecurrent
    /\ pc' = "commit"
    /\ UNCHANGED <<loopVars, nTokens, snapTokens, normed>>

Restore ==
    /\ pc = "restore"
    /\ RestoreRecurrent
    /\ nTokens' = snapTokens
    /\ pc' = "commit"
    /\ UNCHANGED <<loopVars, snapTokens, normed>>

\* The drafts kept, n of them: the longest prefix the decoder would have said itself.
Accepts(n) ==
    /\ n \in 0 .. K - 1
    /\ \A i \in 1 .. n : pred[i] = drafts[i]
    /\ n = K - 1 \/ pred[n + 1] # drafts[n + 1]

\* The first rejected draft in place of the decoder's own token.
KeptDraftsOnly(n) == <<cur>> \o SubSeq(drafts, 1, n + 1)

Kept(n) == <<cur>> \o SubSeq(drafts, 1, n) \o <<pred[n + 1]>>

Commit ==
    /\ pc = "commit"
    /\ \E n \in 0 .. K - 1 :
          /\ Accepts(n)
          /\ Forward(Kept(n), cur')
          /\ got' = got \o Kept(n)
    /\ rounds' = rounds + 1
    /\ pc' = "top"
    /\ UNCHANGED <<prompt, drafts, pred, chain, headKeys>>

\* An answer that is left as long as the last round made it.
StopUncut ==
    /\ pc = "top" /\ ~GoOn
    /\ pc' = "done"
    /\ UNCHANGED <<stateVars, loopVars, nTokens, snapTokens, normed>>

Stop ==
    /\ pc = "top" /\ ~GoOn
    /\ got' = IF Len(got) > NNew THEN SubSeq(got, 1, NNew) ELSE got
    /\ pc' = "done"
    /\ UNCHANGED <<stateVars, prompt, cur, drafts, pred, rounds, chain, headKeys,
                   nTokens, snapTokens, normed>>

\* A cache is full and the error ends the program.
OutOfRoom ==
    /\ \/ pc = "draft" /\ Len(drafts) < K /\ headKeys >= Ctx
       \/ pc = "verify" /\ ~HasRoom(Feed)
       \/ pc = "commit" /\ \E n \in 0 .. K - 1 : Accepts(n) /\ ~HasRoom(Kept(n))
    /\ pc' = "failed"
    /\ UNCHANGED <<stateVars, loopVars, nTokens, snapTokens, normed>>

Next ==
    \/ Start \/ BeginRound \/ Draft \/ Snapshot \/ Verify \/ Restore \/ Commit
    \/ Stop \/ OutOfRoom

Spec == Init /\ [][Next]_vars

-----------------------------------------------------------------------------
(* Properties *)

\* The variables keep their types, and no more than the tokens asked for are
\* returned.
TypeOK ==
    /\ StateTypeOK
    /\ pc \in {"start", "top", "draft", "verify", "restore", "commit", "done", "failed"}
    /\ prompt \in Prompts
    /\ got \in Seq(Token)
    /\ pc = "done" => Len(got) <= NNew
    /\ cur \in Token
    /\ drafts \in Seq(Token) /\ Len(drafts) <= K
    /\ pc \in {"restore", "commit"} => pred \in [1 .. K -> Token]
    /\ {rounds, nTokens, snapTokens, headKeys} \subseteq Nat
    /\ normed \in [Row -> Context \union {Junk}]
    /\ chain \in Context \union {Junk}

\* A rejected draft leaves no trace: at the top of a round the state stands for
\* the prompt and the tokens emitted, and cur is what plain decoding says next.
CommittedOnly ==
    pc = "top" => /\ Holds(0, prompt \o got)
                  /\ nTokens = Len(prompt \o got)
                  /\ cur = Greedy[prompt \o got]

\* The answer begins as plain decoding answers.  Where it does not end there, an
\* end of sequence follows: the one plain decoding breaks at, which a round emits
\* when it is not the round's first token.  No rejected draft is in that part and
\* none of the decoder's tokens is missing from it.
BeginsAsPlain ==
    pc = "done" => \E n \in 0 .. Len(got) :
                      /\ IsPlainAnswer(prompt, SubSeq(got, 1, n))
                      /\ n < Len(got) => got[n + 1] \in EosTokens

\* What ends the loop is the number of tokens asked for, or an end of sequence
\* that comes next; the bound on the rounds never does, and the cut at n_new
\* leaves no answer longer than it should be.  (An end of sequence inside a
\* round does not end the loop.)
RoundsNeverCut ==
    pc = "done" => Len(got) = NNew \/ Greedy[prompt \o got] \in EosTokens

\* "Greedy accept/reject cannot change the output ... so the sequence is identical
\* by construction" (main.rs 1469), which the gate asserts (`got == want`, 1616).
SameAsPlain ==
    pc = "done" => IsPlainAnswer(prompt, got)

\* "Invariant at the top of a round: `chain[..h]` is the hidden at position P"
\* (main.rs 1529): the head drafts from the decoder's last hidden state.
DraftsFromLastHidden ==
    pc = "draft" /\ drafts = << >> => chain = prompt \o got
=============================================================================
