--------------------------- MODULE MCThinkStream ---------------------------
(* Small instances of ThinkStream for TLC. *)
EXTENDS ThinkStream

\* Pieces that cut the tag at each of its places, text on either side.
MCPieces ==
    {<<"x">>, <<" ">>, <<"<">>, <<"T">>, <<">">>, <<"x", "<">>, <<"<", "T">>,
     <<"T", ">", "x">>, <<">", " ", "x">>}
=============================================================================
