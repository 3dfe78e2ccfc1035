------------------------------- MODULE MCHunt -------------------------------
(***************************************************************************)
(* Hunt for TLC: more candidates than probe slots, and one mode of each     *)
(* shape the strategies have (early exit, quiet period, no target).         *)
(***************************************************************************)
EXTENDS Hunt

CONSTANTS a1, a2, a3, b1

MCCands == {a1, a2, a3, b1}
MCLists == [v4 |-> <<a1, a2>>, v6 |-> <<b1>>, both |-> <<a1, b1, a2, a3>>]
Mode(t, q, e) == [concurrency |-> 2, target |-> t, quiet |-> q, early |-> e]
MCModes == {Mode(1, 0, TRUE), Mode(2, 1, FALSE), Mode(0, 1, FALSE)}
=============================================================================
