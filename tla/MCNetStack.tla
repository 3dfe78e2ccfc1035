----------------------------- MODULE MCNetStack -----------------------------
(***************************************************************************)
(* NetStack for TLC: the bounds are the constants of the .cfg files, and    *)
(* connections are interchangeable in the safety run.                       *)
(***************************************************************************)
EXTENDS NetStack, TLC

ConnSymmetry == Permutations(Conns)
=============================================================================
