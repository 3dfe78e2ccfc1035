------------------------------- MODULE Tunnel -------------------------------
(***************************************************************************)
(* What run_masque_tunnel relies on, whichever transport it has started: the *)
(* tunnel reports ready (ready_tx) at most once, with data check only after   *)
(* the required number of round trips, and ends at most once.                *)
(***************************************************************************)
EXTENDS Naturals

CONSTANT Required  \* DATA_PROBE_REQUIRED_SUCCESSES

VARIABLES phase,   \* "trying", "exposed" or "ended"
          trips,   \* round trips confirmed
          check    \* data_check

vars == <<phase, trips, check>>

Init == phase = "trying" /\ trips = 0 /\ check \in BOOLEAN

(* A round trip is confirmed; the last one required exposes SOCKS5. *)
Confirm ==
    /\ phase = "trying"
    /\ trips' = trips + 1
    /\ phase' = IF trips' >= Required THEN "exposed" ELSE "trying"
    /\ UNCHANGED check

(* Without data check the handshake is enough. *)
ExposeUnchecked ==
    /\ phase = "trying" /\ ~check
    /\ phase' = "exposed"
    /\ UNCHANGED <<trips, check>>

End ==
    /\ phase # "ended"
    /\ phase' = "ended"
    /\ UNCHANGED <<trips, check>>

Next == Confirm \/ ExposeUnchecked \/ End
Spec == Init /\ [][Next]_vars
=============================================================================
