----------------------------- MODULE MCUdpRelay -----------------------------
(***************************************************************************)
(* UdpRelay for TLC: an association beside another one, beside a lookup for  *)
(* CONNECT, or beside the forwarder of WARP in WARP.                         *)
(***************************************************************************)
EXTENDS UdpRelay

CONSTANTS t1, t2

MCTasks == {t1, t2}
MCRoles == {[t \in MCTasks |-> IF t = t1 THEN "assoc" ELSE k] : k \in Kinds}
=============================================================================
