------------------------------ MODULE MasqueH2 ------------------------------
(***************************************************************************)
(* The MASQUE tunnel over HTTP/2 (masque_h2.rs, run): one task connects,    *)
(* validates the data plane with probes, tells run_masque_tunnel that SOCKS5 *)
(* may be exposed, and then pumps packets and pings the edge.                *)
(*                                                                         *)
(* A timer is the number of ticks left, so "now >= deadline" is 0.  A chunk  *)
(* of the response body is the sequence of capsules it completes, possibly   *)
(* none; a capsule is a datagram, one the loop only logs or passes on        *)
(* ("other"), or one whose content does not parse ("bad").  Every capsule    *)
(* sent costs one unit of the flow-control window.  The session keeps the    *)
(* stack's handle and the control sender until the tunnel has ended, so      *)
(* outbound_rx and ctrl_rx stay open and inbound_tx.send does not fail.      *)
(***************************************************************************)
EXTENDS Naturals, Sequences

CONSTANTS ValidateTicks,  \* validation_timeout
          PongTicks,      \* h2_keepalive_timeout
          Required,       \* DATA_PROBE_REQUIRED_SUCCESSES
          Window,         \* flow-control window the edge grants
          InCap, OutCap,  \* capacities of inbound and outbound
          Chunks,         \* chunks the edge may send
          MaxChunks,      \* bound: chunks the edge sends
          NoTimer         \* None for a deadline

Capsules == {"data", "other", "bad"}

ASSUME MasqueH2Assumption ==
    /\ ValidateTicks \in Nat \ {0} /\ PongTicks \in Nat \ {0} /\ Required \in Nat \ {0}
    /\ Window \in Nat \ {0} /\ InCap \in Nat \ {0} /\ OutCap \in Nat \ {0}
    /\ Chunks \subseteq Seq(Capsules) /\ MaxChunks \in Nat /\ NoTimer \notin Nat

VARIABLES
    pc,        \* "connect", "top", "select", "send", "drain", "ended"
    why,       \* what is being sent: "first", "probe", "next" or "packet"
    check,     \* data_check
    ready,     \* ready_fired
    succ,      \* validate_successes
    vleft,     \* validate_deadline
    awaiting,  \* awaiting_pong
    pleft,     \* pong_deadline
    probeDue,  \* has probe_interval a tick to give
    keepDue,   \* has keepalive_interval a tick to give
    buf,       \* capsules: what the parser holds, as complete capsules
    got,       \* delivered, of the drain under way
    outQ, inQ, \* packets waiting in outbound and inbound
    edge,      \* "up", "stalled" (connected but mute) or "closed"
    window,    \* send capacity left
    pinged,    \* a PING the edge has not answered
    pong,      \* a PONG not yet looked at
    body,      \* chunks received and not read
    sent,      \* chunks the edge sent so far
    inbound,   \* ghost: datagrams handed to the stack
    sawBad     \* ghost: did a malformed capsule end the latest drain

loopVars  == <<pc, why>>
validVars == <<ready, succ, vleft>>
pingVars  == <<awaiting, pleft>>
dueVars   == <<probeDue, keepDue>>
bufVars   == <<buf, got>>
edgeVars  == <<edge, window, pinged, pong, body, sent>>
ghostVars == <<inbound, sawBad>>
vars == <<loopVars, check, validVars, pingVars, dueVars, bufVars, outQ, inQ, edgeVars,
          ghostVars>>

Init ==
    /\ pc = "connect" /\ why = "first" /\ check \in BOOLEAN
    /\ ready = FALSE /\ succ = 0 /\ vleft = NoTimer
    /\ awaiting = FALSE /\ pleft = NoTimer /\ probeDue = FALSE /\ keepDue = FALSE
    /\ buf = <<>> /\ got = FALSE /\ outQ = 0 /\ inQ = 0
    /\ edge = "up" /\ window = Window /\ pinged = FALSE /\ pong = FALSE
    /\ body = <<>> /\ sent = 0 /\ inbound = 0 /\ sawBad = FALSE

-----------------------------------------------------------------------------
(* TCP, TLS, the HTTP/2 handshake and the CONNECT request: none of these     *)
(* steps has a time-out of its own.                                          *)

NeverValidates == FALSE
Validates      == check

Connected ==
    /\ pc = "connect" /\ edge = "up"
    /\ IF Validates THEN pc' = "send" /\ why' = "first" /\ UNCHANGED ready
       ELSE pc' = "top" /\ ready' = TRUE /\ UNCHANGED why
    /\ probeDue' = TRUE /\ keepDue' = TRUE
    /\ UNCHANGED <<check, succ, vleft, pingVars, bufVars, outQ, inQ, edgeVars, ghostVars>>

ConnectFails ==
    /\ pc = "connect"
    /\ pc' = "ended"
    /\ UNCHANGED <<why, check, validVars, pingVars, dueVars, bufVars, outQ, inQ, edgeVars,
                   ghostVars>>

(* send_capsule waits for capacity.  A probe that fails is only logged; the  *)
(* validation period starts after the first one.                             *)
Armed == IF why = "first" THEN ValidateTicks ELSE vleft

SendCapsule ==
    /\ pc = "send" /\ edge # "closed" /\ window > 0
    /\ window' = window - 1
    /\ vleft' = Armed /\ pc' = "top"
    /\ UNCHANGED <<why, check, ready, succ, pingVars, dueVars, bufVars, outQ, inQ, edge,
                   pinged, pong, body, sent, ghostVars>>

SendFails ==
    /\ pc = "send" /\ edge = "closed"
    /\ vleft' = Armed
    /\ pc' = IF why = "packet" THEN "ended" ELSE "top"
    /\ UNCHANGED <<why, check, ready, succ, pingVars, dueVars, bufVars, outQ, inQ, edgeVars,
                   ghostVars>>

(* The top of the loop is the only place that looks at the deadlines.        *)
Expired == (check /\ ~ready /\ vleft = 0) \/ pleft = 0

Top ==
    /\ pc = "top"
    /\ pc' = IF Expired THEN "ended" ELSE "select"
    /\ UNCHANGED <<why, check, validVars, pingVars, dueVars, bufVars, outQ, inQ, edgeVars,
                   ghostVars>>

-----------------------------------------------------------------------------
(* The biased select: keepalive tick, pong, probe tick, outbound packet,     *)
(* then the response body.                                                   *)

KeepReady  == keepDue /\ ready /\ ~awaiting
PongReady  == awaiting /\ (pong \/ edge = "closed")

ProbeOnceReady == probeDue /\ check /\ ready
ProbeReady     == probeDue /\ check /\ ~ready

KeepaliveTick ==
    /\ pc = "select" /\ KeepReady
    /\ keepDue' = FALSE /\ pc' = "top"
    /\ IF edge = "closed" THEN UNCHANGED <<awaiting, pleft, pinged>>
       ELSE awaiting' = TRUE /\ pleft' = PongTicks /\ pinged' = TRUE
    /\ UNCHANGED <<why, check, validVars, probeDue, bufVars, outQ, inQ, edge, window, pong,
                   body, sent, ghostVars>>

PollPong ==
    /\ pc = "select" /\ ~KeepReady /\ PongReady
    /\ \/ /\ pong
          /\ pong' = FALSE /\ awaiting' = FALSE /\ pleft' = NoTimer /\ pc' = "top"
       \/ /\ edge = "closed"
          /\ pc' = "ended" /\ UNCHANGED <<pong, awaiting, pleft>>
    /\ UNCHANGED <<why, check, validVars, dueVars, bufVars, outQ, inQ, edge, window, pinged,
                   body, sent, ghostVars>>

ProbeTick ==
    /\ pc = "select" /\ ~KeepReady /\ ~PongReady /\ ProbeReady
    /\ probeDue' = FALSE /\ pc' = "send" /\ why' = "probe"
    /\ UNCHANGED <<check, validVars, pingVars, keepDue, bufVars, outQ, inQ, edgeVars,
                   ghostVars>>

Outbound ==
    /\ pc = "select" /\ ~KeepReady /\ ~PongReady /\ ~ProbeReady /\ outQ > 0
    /\ outQ' = outQ - 1 /\ pc' = "send" /\ why' = "packet"
    /\ UNCHANGED <<check, validVars, pingVars, dueVars, bufVars, inQ, edgeVars, ghostVars>>

BodyTurn == pc = "select" /\ ~KeepReady /\ ~PongReady /\ ~ProbeReady /\ outQ = 0

BodyChunk ==
    /\ BodyTurn /\ body # <<>>
    /\ buf' = buf \o Head(body) /\ body' = Tail(body) /\ got' = FALSE /\ pc' = "drain"
    /\ sawBad' = FALSE
    /\ UNCHANGED <<why, check, validVars, pingVars, dueVars, outQ, inQ, edge, window, pinged,
                   pong, sent, inbound>>

BodyEnds ==
    /\ BodyTurn /\ body = <<>> /\ edge = "closed"
    /\ pc' = "ended"
    /\ UNCHANGED <<why, check, validVars, pingVars, dueVars, bufVars, outQ, inQ, edgeVars,
                   ghostVars>>

-----------------------------------------------------------------------------
(* drain_capsules hands datagrams to the stack, waiting for room, until no   *)
(* complete capsule is left or one does not parse.                           *)

Malformed       == IF buf = <<>> THEN FALSE ELSE Head(buf) = "bad"
DrainStopsEarly == buf = <<>> \/ Malformed \/ got
DrainStops      == buf = <<>> \/ Malformed

HasRoom == inQ < InCap

DrainDatagram ==
    /\ pc = "drain" /\ ~DrainStops /\ Head(buf) = "data" /\ HasRoom
    /\ inQ' = inQ + 1 /\ inbound' = inbound + 1 /\ got' = TRUE /\ buf' = Tail(buf)
    /\ UNCHANGED <<loopVars, check, validVars, pingVars, dueVars, outQ, edgeVars, sawBad>>

DrainOther ==
    /\ pc = "drain" /\ ~DrainStops /\ Head(buf) = "other"
    /\ buf' = Tail(buf)
    /\ UNCHANGED <<loopVars, check, validVars, pingVars, dueVars, got, outQ, inQ, edgeVars,
                   ghostVars>>

ValidatedEarly(n) == TRUE
Validated(n)      == n >= Required

DrainDone ==
    /\ pc = "drain" /\ DrainStops
    /\ IF Malformed THEN buf' = Tail(buf) /\ sawBad' = TRUE
       ELSE UNCHANGED <<buf, sawBad>>
    /\ IF got /\ ~ready
       THEN /\ succ' = succ + 1
            /\ IF Validated(succ + 1)
               THEN ready' = TRUE /\ vleft' = NoTimer /\ pc' = "top" /\ UNCHANGED why
               ELSE pc' = "send" /\ why' = "next" /\ UNCHANGED <<ready, vleft>>
       ELSE pc' = "top" /\ UNCHANGED <<why, validVars>>
    /\ UNCHANGED <<check, pingVars, dueVars, got, outQ, inQ, edgeVars, inbound>>

-----------------------------------------------------------------------------
(* Time, the edge and the stack (external). *)

Less(t) == IF t = NoTimer \/ t = 0 THEN t ELSE t - 1

Tick ==
    /\ pc \notin {"connect", "ended"}
    /\ vleft' = Less(vleft) /\ pleft' = Less(pleft) /\ probeDue' = TRUE
    /\ UNCHANGED <<loopVars, check, ready, succ, awaiting, keepDue, bufVars, outQ, inQ,
                   edgeVars, ghostVars>>

KeepaliveDue ==
    /\ pc \notin {"connect", "ended"} /\ ~keepDue
    /\ keepDue' = TRUE
    /\ UNCHANGED <<loopVars, check, validVars, pingVars, probeDue, bufVars, outQ, inQ,
                   edgeVars, ghostVars>>

EdgePongs ==
    /\ edge = "up" /\ pinged
    /\ pinged' = FALSE /\ pong' = TRUE
    /\ UNCHANGED <<loopVars, check, validVars, pingVars, dueVars, bufVars, outQ, inQ, edge,
                   window, body, sent, ghostVars>>

EdgeGrants ==
    /\ edge = "up" /\ window < Window
    /\ window' = Window
    /\ UNCHANGED <<loopVars, check, validVars, pingVars, dueVars, bufVars, outQ, inQ, edge,
                   pinged, pong, body, sent, ghostVars>>

EdgeSends(chunk) ==
    /\ edge = "up" /\ pc \notin {"connect", "ended"} /\ sent < MaxChunks
    /\ sent' = sent + 1 /\ body' = Append(body, chunk)
    /\ UNCHANGED <<loopVars, check, validVars, pingVars, dueVars, bufVars, outQ, inQ, edge,
                   window, pinged, pong, ghostVars>>

EdgeGoes(to) ==
    /\ edge # "closed" /\ edge # to /\ pc # "ended"
    /\ edge' = to
    /\ UNCHANGED <<loopVars, check, validVars, pingVars, dueVars, bufVars, outQ, inQ, window,
                   pinged, pong, body, sent, ghostVars>>

StackReads ==
    /\ inQ > 0
    /\ inQ' = inQ - 1
    /\ UNCHANGED <<loopVars, check, validVars, pingVars, dueVars, bufVars, outQ, edgeVars,
                   ghostVars>>

(* SOCKS5 clients make the stack send; there are none before ready. *)
StackSends ==
    /\ ready /\ pc # "ended" /\ outQ < OutCap
    /\ outQ' = outQ + 1
    /\ UNCHANGED <<loopVars, check, validVars, pingVars, dueVars, bufVars, inQ, edgeVars,
                   ghostVars>>

-----------------------------------------------------------------------------

Run ==
    \/ Connected \/ SendCapsule \/ SendFails \/ Top \/ KeepaliveTick \/ PollPong
    \/ ProbeTick \/ Outbound \/ BodyChunk \/ BodyEnds \/ DrainDatagram \/ DrainOther
    \/ DrainDone

Next ==
    \/ Run \/ ConnectFails \/ Tick \/ KeepaliveDue \/ EdgePongs \/ EdgeGrants \/ StackReads
    \/ StackSends \/ (\E c \in Chunks : EdgeSends(c))
    \/ (\E to \in {"stalled", "closed"} : EdgeGoes(to))

Spec == Init /\ [][Next]_vars

(* The task is polled, time passes and the stack takes what is queued for    *)
(* it.  Nothing is asked of the edge.                                        *)
FairSpec ==
    Spec /\ WF_vars(Run) /\ WF_vars(Tick) /\ WF_vars(KeepaliveDue) /\ WF_vars(StackReads)

-----------------------------------------------------------------------------
(* Properties. *)

(* Every variable keeps its type, and the channels their capacity. *)
TypeOK ==
    /\ pc \in {"connect", "top", "select", "send", "drain", "ended"}
    /\ why \in {"first", "probe", "next", "packet"}
    /\ check \in BOOLEAN /\ ready \in BOOLEAN /\ succ \in Nat
    /\ vleft \in Nat \cup {NoTimer} /\ pleft \in Nat \cup {NoTimer}
    /\ awaiting \in BOOLEAN /\ probeDue \in BOOLEAN /\ keepDue \in BOOLEAN
    /\ buf \in Seq(Capsules) /\ got \in BOOLEAN
    /\ outQ \in 0 .. OutCap /\ inQ \in 0 .. InCap
    /\ edge \in {"up", "stalled", "closed"} /\ window \in 0 .. Window
    /\ pinged \in BOOLEAN /\ pong \in BOOLEAN /\ body \in Seq(Chunks)
    /\ sent \in 0 .. MaxChunks /\ inbound \in Nat /\ sawBad \in BOOLEAN

(* With data check, SOCKS5 is exposed only after at least the required       *)
(* number of packets came back through the tunnel, however they were split   *)
(* into chunks.                                                              *)
ExposedAfterTraffic == check /\ ready => inbound >= Required

(* The inductive strengthening: each counted success had its own packet, and *)
(* the drain under way has delivered one more.                               *)
CountsTraffic ==
    /\ ~ready => inbound >= succ /\ (pc = "drain" /\ got => inbound > succ)
    /\ ExposedAfterTraffic

(* The tunnel is what run_masque_tunnel takes it for: SOCKS5 is exposed at    *)
(* most once, with data check only by the round trip that completes the       *)
(* required number, and nothing follows the end.                             *)
Phase == IF pc = "ended" THEN "ended" ELSE IF ready THEN "exposed" ELSE "trying"
Abstract == INSTANCE Tunnel WITH phase <- Phase, trips <- succ
ImplementsTunnel == Abstract!Spec

(* Outside a drain, no complete capsule that was read is left behind in the *)
(* parser, to wait there for a later chunk, unless a malformed capsule ended *)
(* the latest drain: the drain of the next chunk then makes up for it, in    *)
(* full if it meets no other.                                                *)
NothingHeldBack == pc # "drain" /\ ~sawBad => buf = <<>>

(* Whatever the edge does, validation comes to an end: the tunnel is exposed *)
(* or it gives up.  This rests on probe_interval waking the loop, and on     *)
(* the window having room for the probes of one validation period.           *)
ValidationEnds == (pc = "top" /\ ~ready) ~> (ready \/ pc = "ended")

(* An edge that falls mute is noticed: "no PING response from edge ...       *)
(* connection is stalled".                                                   *)
StallNoticed == (ready /\ edge = "stalled") ~> (pc = "ended" \/ edge = "closed")
=============================================================================
