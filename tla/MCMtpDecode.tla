---------------------------- MODULE MCMtpDecode ----------------------------
(* A small instance of MtpDecode for TLC. *)
EXTENDS MtpDecode

CONSTANTS a, b, eos

MCToken == {a, b, eos}
MCEosTokens == {eos}

\* A continuation that depends on the context's length and ends, and stops one
\* prompt early.  (The domain is Context, in a form TLC enumerates once.)
MCGreedy ==
    [h \in {c \in Context : TRUE} |->
        IF Len(h) = 0 THEN a
        ELSE IF Len(h) = 5 /\ h[1] = b THEN eos
        ELSE IF h[Len(h)] = a THEN b
        ELSE IF Len(h) % 3 = 0 THEN b ELSE a]

MCPrompts == {<<a>>, <<a, b>>, <<b, a>>, <<b, b, a>>}
=============================================================================
