---------------------------- MODULE ThinkStream ----------------------------
(***************************************************************************)
(* One streamed answer through a ThinkGate: the closure a handler gives to *)
(* remote_generate, and the flush after it.                                *)
(***************************************************************************)
EXTENDS ThinkGate

CONSTANTS
    Pieces,    \* the decoded tokens
    MaxText    \* symbols generated: a bound of the model

ASSUME StreamAssumption == Pieces \subseteq Seq(Symbol) /\ MaxText \in Nat

VARIABLES
    gate,
    got,       \* the text generated so far
    sent,      \* the text sent so far
    over       \* generation has ended and the gate is flushed

vars == <<gate, got, sent, over>>

\* An open gate holds nothing.
TypeOK ==
    /\ gate \in [held : Seq(Symbol), opened : BOOLEAN]
    /\ gate.opened => gate.held = << >>
    /\ got \in Seq(Symbol)
    /\ sent \in Seq(Symbol)
    /\ over \in BOOLEAN

Init ==
    /\ gate = NewGate
    /\ got = << >>
    /\ sent = << >>
    /\ over = FALSE

Said(out) == IF out = << >> THEN << >> ELSE out[1]

OnToken(p) ==
    /\ ~over
    /\ Len(got) + Len(p) <= MaxText
    /\ got' = got \o p
    /\ gate' = push(gate, p).gate
    /\ sent' = sent \o Said(push(gate, p).out)
    /\ UNCHANGED over

Finish ==
    /\ ~over
    /\ sent' = sent \o Said(flush(gate))
    /\ over' = TRUE
    /\ UNCHANGED <<gate, got>>

Next == (\E p \in Pieces : OnToken(p)) \/ Finish

Spec == Init /\ [][Next]_vars

-----------------------------------------------------------------------------
\* s is t with one stretch cut out: it begins behind place k, before a tag, and
\* ends with the bracket that closes that tag and white space after it.
IsCut(s, t, k) ==
    \E i \in Tags(t), j \in 1 .. Len(t) + 1 :
        /\ k < i
        /\ Closers(t, i) # {}
        /\ Min(Closers(t, i)) < j
        /\ \A m \in Min(Closers(t, i)) + 1 .. j - 1 : t[m] = " "
        /\ s = SubSeq(t, 1, k) \o From(t, j)

\* The streamed text is the whole of what was generated, or it lacks one
\* stretch that ends with a closed tag and the white space behind it: however
\* the tag is cut into pieces, no part of the answer is lost, doubled or reordered.
AnswerIntact ==
    over => sent = got \/ \E k \in 0 .. Len(got) : IsCut(sent, got, k)

\* The comment in push: while no tag can be forming every piece leaves at once.
Incremental == (\A i \in 1 .. Len(got) : got[i] # "<") => sent = got

\* The only tag of an answer that fits the limit is never let through, closed.
TagRemoved ==
    over /\ Cardinality(Tags(got)) = 1 /\ Len(got) <= HoldLimit =>
        \A i \in Tags(sent) : Closers(sent, i) = {}

\* The comment of ThinkGate: pieces are held until the reasoning block is
\* closed, then everything after it is sent, as for a whole response.
StreamsVisibleText == over => sent = visible(got)
=============================================================================
