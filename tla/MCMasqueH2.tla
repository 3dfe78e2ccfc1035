----------------------------- MODULE MCMasqueH2 -----------------------------
(***************************************************************************)
(* MasqueH2 for TLC: chunks that complete no, one or two capsules, with the *)
(* malformed one before a datagram.                                         *)
(***************************************************************************)
EXTENDS MasqueH2

MCChunks == {<<>>, <<"data">>, <<"data", "data">>, <<"bad", "data">>, <<"other", "data">>}
=============================================================================
