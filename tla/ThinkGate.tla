----------------------------- MODULE ThinkGate -----------------------------
(***************************************************************************)
(* ThinkGate and visible(): how the reasoning block that precedes the      *)
(* answer is taken out of a streamed and of a whole response.              *)
(*                                                                         *)
(* Text is a sequence of symbols: "<", "T" for the letters "/think", ">",  *)
(* " " for white space and "x" for anything else, so that <<"<", "T">> is  *)
(* the closing tag up to its bracket and a piece may end inside the tag.   *)
(***************************************************************************)
EXTENDS Integers, Sequences, FiniteSetsExt

CONSTANT HoldLimit   \* bytes the gate holds while a tag may still be forming: 64

ASSUME HoldAssumption == HoldLimit \in Nat \ {0}

Symbol == {"<", "T", ">", " ", "x"}

\* Where "</think" begins in text t.
Tags(t) == {i \in 1 .. Len(t) - 1 : t[i] = "<" /\ t[i + 1] = "T"}

\* The brackets that may close a tag that begins at i.
Closers(t, i) == {j \in i .. Len(t) : t[j] = ">"}

From(t, i) == SubSeq(t, i, Len(t))

TrimStart(t) ==
    LET solid == {i \in 1 .. Len(t) : t[i] # " "}
    IN IF solid = {} THEN << >> ELSE From(t, Min(solid))

\* What follows the first closing tag, trimmed; all of t if none is closed.
visible(t) ==
    IF Tags(t) = {} \/ Closers(t, Min(Tags(t))) = {} THEN t
    ELSE TrimStart(From(t, Min(Closers(t, Min(Tags(t)))) + 1))

-----------------------------------------------------------------------------
\* A gate, and what a call yields: the gate afterwards and `out`, which is
\* empty (None) or holds the one text to send (Some).
NewGate == [held |-> << >>, opened |-> FALSE]

Holding(t) == [gate |-> [held |-> t, opened |-> FALSE], out |-> << >>]
Yield(t) == IF t = << >> THEN << >> ELSE <<t>>

\* A build that holds until the tag, as the type's comment has it.
FormingAlways(t) == TRUE

\* A tag may still be forming at the end of t.
Forming(t) == Len(t) < HoldLimit /\ \E i \in 1 .. Len(t) : t[i] = "<"

\* A build that looks for the tag in the new piece only.
PushLooksAtPiece(g, piece) ==
    LET t == g.held \o piece
    IN IF g.opened THEN [gate |-> g, out |-> <<piece>>]
       ELSE IF Tags(piece) = {}
       THEN IF Forming(t) THEN Holding(t)
            ELSE [gate |-> NewGate, out |-> <<t>>]
       ELSE IF Closers(piece, Min(Tags(piece))) = {} THEN Holding(t)
       ELSE [gate |-> [held |-> << >>, opened |-> TRUE], out |-> Yield(visible(t))]

\* A build that keeps what it held when the tag closes.
PushKeepsHeld(g, piece) ==
    LET t == g.held \o piece
    IN IF g.opened THEN [gate |-> g, out |-> <<piece>>]
       ELSE IF Tags(t) = {}
       THEN IF Forming(t) THEN Holding(t)
            ELSE [gate |-> NewGate, out |-> <<t>>]
       ELSE IF Closers(t, Min(Tags(t))) = {} THEN Holding(t)
       ELSE [gate |-> [held |-> t, opened |-> TRUE], out |-> Yield(visible(t))]

\* One piece: pass it, hold it, release what was held, or open the gate.
push(g, piece) ==
    LET t == g.held \o piece
    IN IF g.opened THEN [gate |-> g, out |-> <<piece>>]
       ELSE IF Tags(t) = {}
       THEN IF Forming(t) THEN Holding(t)
            ELSE [gate |-> NewGate, out |-> <<t>>]
       ELSE IF Closers(t, Min(Tags(t))) = {} THEN Holding(t)
       ELSE [gate |-> [held |-> << >>, opened |-> TRUE], out |-> Yield(visible(t))]

\* A build that drops what is still held.
FlushNothing(g) == << >>

\* What a stream that ends still has to send.
flush(g) == IF g.opened THEN << >> ELSE Yield(visible(g.held))
=============================================================================
