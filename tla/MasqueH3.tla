------------------------------ MODULE MasqueH3 ------------------------------
(***************************************************************************)
(* The MASQUE tunnel over HTTP/3 (quic.rs, run) with the stack task at the   *)
(* other end of its channels: the QUIC handshake and its one retry after an  *)
(* ECH rejection, the CONNECT-IP request, validation, and the datagram pump. *)
(*                                                                         *)
(* A packet of the edge is its kind and the number of the connection it was  *)
(* sent on.  Time is the number of ticks left of the validation period; a     *)
(* tick also makes the intervals due.  run_masque_tunnel keeps the control   *)
(* sender until the tunnel has ended and sends nothing on it.                *)
(***************************************************************************)
EXTENDS StackPort, Sequences

CONSTANTS ValidateTicks,  \* validation_timeout
          Required,       \* DATA_PROBE_REQUIRED_SUCCESSES
          NetCap,         \* capacity of net_rx (NET_QUEUE)
          MaxPkts,        \* bound: packets of the edge
          NoTimer,        \* None for validate_deadline
          NoStream        \* None for req_stream

Kinds == {"hello", "data", "ack", "reject", "close"}
Conns == {1, 2}

ASSUME MasqueH3Assumption ==
    /\ ValidateTicks \in Nat \ {0} /\ Required \in Nat \ {0} /\ NetCap \in Nat \ {0}
    /\ MaxPkts \in Nat /\ NoTimer \notin Nat /\ NoStream \notin Conns

VARIABLES
    pc,       \* "top", "select", "drain", "flush" or "ended"
    check,    \* data_check
    ready,    \* ready_fired
    succ,     \* validate_successes
    vleft,    \* validate_deadline
    ech,      \* current_ech: "none", "given" or "retry" (ech_retried)
    conn,     \* "handshake", "established" or "closed"
    cn,       \* number of the connection
    ever,     \* established_ever
    offered,  \* does the closed connection carry ECH retry configs
    req,      \* req_stream: the connection the request was sent on
    dgrams,   \* datagrams received and not drained
    got,      \* delivered, of the drain under way
    due,      \* has keepalive_interval or probe_interval a tick to give
    net,      \* packets in net_rx
    edge,     \* "up" or "gone"
    pkts,     \* packets the edge sent so far
    inbound   \* ghost: datagrams handed to the stack

validVars == <<ready, succ, vleft>>
connVars  == <<ech, conn, cn, ever, offered, req>>
drainVars == <<dgrams, got>>
edgeVars  == <<edge, pkts>>
vars == <<stackVars, pc, check, validVars, connVars, drainVars, due, net, edgeVars, inbound>>

Init ==
    /\ StackInit
    /\ pc = "top" /\ check \in BOOLEAN /\ ready = FALSE /\ succ = 0 /\ vleft = NoTimer
    /\ ech \in {"none", "given"} /\ conn = "handshake" /\ cn = 1 /\ ever = FALSE
    /\ offered = FALSE /\ req = NoStream /\ dgrams = 0 /\ got = FALSE /\ due = TRUE
    /\ net = <<>> /\ edge = "up" /\ pkts = 0 /\ inbound = 0

-----------------------------------------------------------------------------
(* The top of the loop looks at the validation deadline. *)

ExpiredOnceReady == check /\ ready /\ vleft = 0
Expired          == check /\ ~ready /\ vleft = 0

Top ==
    /\ pc = "top"
    /\ pc' = IF Expired THEN "ended" ELSE "select"
    /\ UNCHANGED <<stackVars, check, validVars, connVars, drainVars, due, net, edgeVars,
                   inbound>>

UncheckedToo == check /\ ech = "none"
Checked      == check

(* After every branch: a connection that has just been established gets its  *)
(* CONNECT-IP request, and validation starts or, without data check, SOCKS5  *)
(* is exposed.  poll_h3 only logs, and hands assigned addresses on; an error  *)
(* of the HTTP/3 layer ends the tunnel.                                      *)
AfterSelect(c) ==
    /\ pc' \in IF c = "established" THEN {"drain", "ended"} ELSE {"drain"}
    /\ got' = FALSE /\ conn' = c
    /\ IF c = "established" /\ req = NoStream
       THEN /\ ever' = TRUE /\ req' = cn
            /\ IF Checked THEN vleft' = ValidateTicks /\ UNCHANGED ready
               ELSE ready' = TRUE /\ UNCHANGED vleft
       ELSE UNCHANGED <<ever, req, vleft, ready>>
    /\ UNCHANGED <<check, succ, ech, cn, edgeVars, inbound>>

(* The intervals come first: keepalive always, probes until validated. *)
IntervalTick ==
    /\ pc = "select" /\ due
    /\ due' = FALSE
    /\ AfterSelect(conn)
    /\ UNCHANGED <<stackVars, offered, dgrams, net>>

(* conn.recv: a packet of another connection or out of turn changes nothing. *)
Receives(p) ==
    IF p[2] # cn \/ conn = "closed" THEN conn
    ELSE CASE p[1] = "hello"  -> "established"
           [] p[1] = "reject" -> IF conn = "handshake" /\ ech # "none" THEN "closed" ELSE conn
           [] p[1] = "close"  -> "closed"
           [] OTHER -> conn

NetPacket ==
    /\ pc = "select" /\ ~due /\ net # <<>>
    /\ net' = Tail(net)
    /\ LET p == Head(net)
           live == p[2] = cn /\ conn = "established" IN
          /\ dgrams' = IF live /\ p[1] = "data" THEN dgrams + 1 ELSE dgrams
          /\ offered' = (offered \/ (p[1] = "reject" /\ Receives(p) = "closed"))
          /\ AfterSelect(Receives(p))
    /\ UNCHANGED <<stackVars, due>>

(* A packet of the stack is sent as a datagram, or dropped if there is no     *)
(* request yet or quiche refuses it.                                         *)
OutboundTurn == pc = "select" /\ ~due /\ net = <<>>

Outbound ==
    /\ OutboundTurn /\ outQ > 0
    /\ outQ' = outQ - 1
    /\ AfterSelect(conn)
    /\ UNCHANGED <<stack, rx, tx, inQ, app, offered, dgrams, due, net>>

(* quiche's timer: with a mute edge it ends in the idle time-out. *)
OnTimeoutOnceReady ==
    /\ OutboundTurn /\ outQ = 0 /\ edge = "gone" /\ ready
    /\ AfterSelect("closed")
    /\ UNCHANGED <<stackVars, offered, dgrams, due, net>>

OnTimeout ==
    /\ OutboundTurn /\ outQ = 0 /\ edge = "gone"
    /\ AfterSelect("closed")
    /\ UNCHANGED <<stackVars, offered, dgrams, due, net>>

-----------------------------------------------------------------------------
(* drain_datagrams waits for room in inbound, datagram by datagram. *)

DrainDatagram ==
    /\ pc = "drain" /\ req # NoStream /\ dgrams > 0 /\ InboundRoom
    /\ dgrams' = dgrams - 1 /\ inQ' = inQ + 1 /\ got' = TRUE /\ inbound' = inbound + 1
    /\ UNCHANGED <<stack, rx, tx, outQ, app, pc, check, validVars, connVars, due, net,
                   edgeVars>>

ValidatedEarly(n) == TRUE
Validated(n)      == n >= Required

DrainDone ==
    /\ pc = "drain" /\ (req = NoStream \/ dgrams = 0)
    /\ pc' = "flush"
    /\ IF got /\ ~ready
       THEN /\ succ' = succ + 1
            /\ IF Validated(succ + 1) THEN ready' = TRUE /\ vleft' = NoTimer
               ELSE UNCHANGED <<ready, vleft>>
       ELSE UNCHANGED validVars
    /\ UNCHANGED <<stackVars, check, connVars, drainVars, due, net, edgeVars, inbound>>

(* flush, then the look at is_closed: one retry with the server's ECH        *)
(* configs if the handshake never completed, otherwise the end.              *)
RetryAgain == ~ever /\ ech # "none" /\ offered
RetryDue   == ~ever /\ ech = "given" /\ offered

Flush ==
    /\ pc = "flush"
    /\ CASE conn # "closed" -> pc' = "top" /\ UNCHANGED connVars
         [] conn = "closed" /\ RetryDue ->
               /\ pc' = "top" /\ ech' = "retry" /\ conn' = "handshake" /\ cn' = cn + 1
               /\ offered' = FALSE /\ req' = NoStream /\ UNCHANGED ever
         [] OTHER -> pc' = "ended" /\ UNCHANGED connVars
    /\ UNCHANGED <<stackVars, check, validVars, drainVars, due, net, edgeVars, inbound>>

(* An error of sock.send_to ends the tunnel. *)
FlushFails ==
    /\ pc = "flush"
    /\ pc' = "ended"
    /\ UNCHANGED <<stackVars, check, validVars, connVars, drainVars, due, net, edgeVars,
                   inbound>>

-----------------------------------------------------------------------------
(* Time and the edge (external).  Time passes while the loop waits in the    *)
(* select: nothing looks at the clock between there and the next top.  The   *)
(* edge speaks on a connection it knows; spawn_reader waits for room.        *)

Tick ==
    /\ pc = "select"
    /\ due' = TRUE
    /\ vleft' = IF vleft \in {NoTimer, 0} THEN vleft ELSE vleft - 1
    /\ UNCHANGED <<stackVars, pc, check, ready, succ, connVars, drainVars, net, edgeVars,
                   inbound>>

EdgeSends(k, n) ==
    /\ edge = "up" /\ pkts < MaxPkts /\ Len(net) < NetCap /\ n <= cn /\ pc # "ended"
    /\ net' = Append(net, <<k, n>>) /\ pkts' = pkts + 1
    /\ UNCHANGED <<stackVars, pc, check, validVars, connVars, drainVars, due, edge, inbound>>

EdgeGoes ==
    /\ edge = "up" /\ pc # "ended"
    /\ edge' = "gone"
    /\ UNCHANGED <<stackVars, pc, check, validVars, connVars, drainVars, due, net, pkts,
                   inbound>>

-----------------------------------------------------------------------------

Open == pc # "ended"
Run == Top \/ IntervalTick \/ NetPacket \/ Outbound \/ OnTimeout \/ DrainDatagram
       \/ DrainDone \/ Flush

Stack ==
    /\ \/ Poll(ready) \/ FlushOne(Open) \/ FlushOver(Open) \/ TakeInbound
       \/ WokenByClient(Open) \/ InboundCloses(Open)
    /\ UNCHANGED <<pc, check, validVars, connVars, drainVars, due, net, edgeVars, inbound>>

Client ==
    /\ ClientTakes
    /\ UNCHANGED <<pc, check, validVars, connVars, drainVars, due, net, edgeVars, inbound>>

Next == Run \/ FlushFails \/ Stack \/ Client \/ Tick \/ EdgeGoes
        \/ \E k \in Kinds, n \in Conns : EdgeSends(k, n)

Spec == Init /\ [][Next]_vars

(* The tasks run and time passes; a client owes nothing.  An interval's tick is rare compared with  *)
(* the turns of the loop, so the branches after it get their turns too.      *)
FairSpec ==
    /\ Spec /\ WF_vars(Run) /\ WF_vars(Stack) /\ WF_vars(Tick)
    /\ SF_vars(NetPacket) /\ SF_vars(Outbound) /\ SF_vars(OnTimeout)

-----------------------------------------------------------------------------
(* Properties. *)

(* Every variable keeps its type, the channels their capacity, and a         *)
(* handshake is retried at most once.                                        *)
TypeOK ==
    /\ StackTypeOK
    /\ pc \in {"top", "select", "drain", "flush", "ended"}
    /\ check \in BOOLEAN /\ ready \in BOOLEAN /\ succ \in Nat
    /\ vleft \in 0 .. ValidateTicks \cup {NoTimer}
    /\ ech \in {"none", "given", "retry"} /\ conn \in {"handshake", "established", "closed"}
    /\ cn \in Conns /\ ever \in BOOLEAN /\ offered \in BOOLEAN /\ req \in Conns \cup {NoStream}
    /\ dgrams \in Nat /\ got \in BOOLEAN /\ due \in BOOLEAN /\ net \in Seq(Kinds \X Conns)
    /\ Len(net) <= NetCap /\ edge \in {"up", "gone"} /\ pkts \in 0 .. MaxPkts /\ inbound \in Nat

(* With data check, SOCKS5 is exposed only after at least the required       *)
(* number of datagrams came back.                                            *)
ExposedAfterTraffic == check /\ ready => inbound >= Required

(* The tunnel is what run_masque_tunnel takes it for. *)
Phase == IF pc = "ended" THEN "ended" ELSE IF ready THEN "exposed" ELSE "trying"
Abstract == INSTANCE Tunnel WITH phase <- Phase, trips <- succ
ImplementsTunnel == Abstract!Spec

(* Each of the two tasks waits for room in a channel that only the other one *)
(* empties.                                                                  *)
CircularWait ==
    /\ pc = "drain" /\ req # NoStream /\ dgrams > 0 /\ ~InboundRoom
    /\ stack = "flush" /\ tx > 0 /\ outQ = OutCap

(* An edge that goes away is noticed, so that the supervisor can reconnect,  *)
(* as long as no client leaves the stack waiting in service_tcp or           *)
(* service_udp, and unless the tunnel and the stack wait for each other.     *)
EdgeNoticed == Served => ((edge = "gone") ~> (pc = "ended" \/ CircularWait))

(* Validation comes to an end unless the two tasks wait for each other.  It    *)
(* does not depend on clients: there are none before SOCKS5 is exposed.       *)
ValidationEnds ==
    (req # NoStream /\ ~ready) ~> (ready \/ pc = "ended" \/ CircularWait)

(* When the tunnel ends, the stack task ends after it, whatever is left in   *)
(* the channels, provided no client leaves it waiting: a stack held up in     *)
(* service_tcp or service_udp does not see that inbound has closed.          *)
StackFollows == Served => ((pc = "ended") ~> (stack = "done"))
=============================================================================
