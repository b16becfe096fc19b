---------------------------- MODULE GreedyServe ----------------------------
(***************************************************************************)
(* What the engine promises its clients: every request of a group that     *)
(* fits the window is answered with the greedy continuation of its own     *)
(* prompt, cut at an end-of-sequence token or at its quota, whatever the   *)
(* other slots do, whatever ran before and however the work was batched,   *)
(* chunked or resumed.  There is no cache, no slot state and no chunk here.*)
(***************************************************************************)
EXTENDS Integers, Sequences

CONSTANTS NSeq, Ctx, Requests, EosTokens, Greedy, MayDrop

VARIABLES
    group,    \* slot -> request, of the requests being served
    refused,  \* the slots whose prompt does not fit the window
    ids,      \* slot -> the tokens sent so far
    outcome   \* "open", or how the last group ended: "delivered", "dropped"

vars == <<group, refused, ids, outcome>>

Init ==
    /\ group = << >>
    /\ refused = {}
    /\ ids = [s \in 0 .. NSeq - 1 |-> << >>]
    /\ outcome = "delivered"

TooLong(r) == r.prompt = << >> \/ Len(r.prompt) + 1 > Ctx

\* At least one token is sent before the quota is compared.
Quota(r) ==
    LET room == Ctx - Len(r.prompt)
        asked == IF r.max < room THEN r.max ELSE room
    IN IF asked = 0 THEN 1 ELSE asked

NextOf(s) == Greedy[group[s].prompt \o ids[s]]

Answered(s) == Len(ids[s]) = Quota(group[s]) \/ NextOf(s) \in EosTokens

Accept ==
    /\ outcome # "open"
    /\ \E k \in 1 .. NSeq : group' \in [0 .. k - 1 -> Requests]
    /\ refused' = {}
    /\ ids' = [s \in 0 .. NSeq - 1 |-> << >>]
    /\ outcome' = "open"

Refuse(s) ==
    /\ outcome = "open"
    /\ TooLong(group[s])
    /\ s \notin refused
    /\ refused' = refused \union {s}
    /\ UNCHANGED <<group, ids, outcome>>

Emit(s) ==
    /\ outcome = "open"
    /\ ~TooLong(group[s])
    /\ ~Answered(s)
    /\ ids' = [ids EXCEPT ![s] = Append(@, NextOf(s))]
    /\ UNCHANGED <<group, refused, outcome>>

Deliver ==
    /\ outcome = "open"
    /\ \A s \in DOMAIN group : s \in refused \/ (~TooLong(group[s]) /\ Answered(s))
    /\ outcome' = "delivered"
    /\ UNCHANGED <<group, refused, ids>>

\* An error in any request's work ends the whole group.
Drop ==
    /\ MayDrop
    /\ outcome = "open"
    /\ outcome' = "dropped"
    /\ UNCHANGED <<group, refused, ids>>

Next ==
    \/ Accept
    \/ \E s \in DOMAIN group : Refuse(s) \/ Emit(s)
    \/ Deliver
    \/ Drop

Spec == Init /\ [][Next]_vars
=============================================================================
