--------------------------- MODULE MCAetherManager ---------------------------
(***************************************************************************)
(* AetherManager for TLC.  Two engines are enough for an old one's events   *)
(* to meet a new one; the bounds are the constants of the .cfg files.       *)
(***************************************************************************)
EXTENDS AetherManager
=============================================================================
