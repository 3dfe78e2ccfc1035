---------------------------- MODULE MCSupervisor ----------------------------
(***************************************************************************)
(* Supervisor for TLC: one gateway of each family, so that a gateway may lie *)
(* outside the families scanned and a change of gateway can happen.         *)
(***************************************************************************)
EXTENDS Supervisor

CONSTANTS a4, a6

OneV4 == {a4}
OneV6 == {a6}
AnyForced == {a4, NoPeer, BadPeer}
AnyFamily == {{a4}, {a6}, {a4, a6}}
=============================================================================
