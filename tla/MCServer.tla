------------------------------ MODULE MCServer ------------------------------
(* Small instances of Server for TLC. *)
EXTENDS Server

CONSTANTS c1, c2, a, lt, gt, eos

MCTokens == {a, lt, gt, eos}
MCText == [t \in MCTokens |-> CASE t = a -> <<"x">> [] t = lt -> <<"x", "<", "T">>
                                [] t = gt -> <<">", "x">> [] t = eos -> << >>]

Request(p, m) == [prompt |-> p, max |-> m]
MCRequests == {Request(<<a>>, 3), Request(<<lt>>, 3), Request(<<a, a, a, a>>, 1)}

\* The answer to <<a>> closes a reasoning block, that to <<lt>> ends early.
MCGreedy ==
    [h \in UNION {[1 .. n -> MCTokens] : n \in 0 .. Ctx} |->
        IF Len(h) > 0 /\ h[1] = lt THEN IF Len(h) = 1 THEN a ELSE eos
        ELSE IF Len(h) = 1 THEN lt ELSE IF Len(h) = 2 THEN gt ELSE a]

Ask(r, route, s) == [req |-> r, route |-> route, stream |-> s]

MCAsks ==
    {Ask(Request(<<a>>, 3), "chat", TRUE), Ask(Request(<<lt>>, 3), "completions", FALSE),
     Ask(Request(<<a, a, a, a>>, 1), "messages", TRUE),
     Ask(Request(<<lt>>, 3), "health", FALSE), Ask(Request(<<lt>>, 3), "malformed", FALSE)}
=============================================================================
