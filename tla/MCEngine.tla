------------------------------ MODULE MCEngine ------------------------------
(* Small instances of Engine for TLC. *)
EXTENDS Engine

CONSTANTS a, b, eos

MCToken == {a, b, eos}
MCEosTokens == {eos}

\* A continuation that depends on the context's length and its ends.  (Its domain is
\* written as a subset of Context because TLC then enumerates it once.)
MCGreedy ==
    [h \in {c \in Context : TRUE} |->
        IF Len(h) = 0 THEN a
        ELSE IF Len(h) = 4 /\ h[1] = a THEN eos
        ELSE IF h[Len(h)] = a THEN b ELSE a]

Request(p, m) == [prompt |-> p, max |-> m]

\* A prompt, its extensions up to one whose answer the window cuts, one that shares no
\* prefix, and two too long.
FittingRequests ==
    {Request(<<a>>, 3), Request(<<a, b>>, 2), Request(<<a, b, b>>, 3),
     Request(<<b>>, 0), Request(<<a, b, a, b, a>>, 1), Request(<<a, b, a, b, a, b>>, 1)}

\* A few of them for a window of 3.
TornRequests == {Request(<<a>>, 2), Request(<<a, b>>, 2), Request(<< >>, 1)}

\* As the window allows them: a long prompt beside a short one with a long answer.
WindowRequests ==
    {Request(<<a>>, 9), Request(<<b, a, b>>, 9), Request(<<b, a, b, a>>, 2),
     Request(<< >>, 1)}
=============================================================================
