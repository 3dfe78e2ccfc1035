------------------------------ MODULE UdpRelay ------------------------------
(***************************************************************************)
(* UDP through the stack: the UDP sockets of netstack.rs and the tasks that   *)
(* use them.  These are SOCKS5 UDP associations (socks.rs,                    *)
(* handle_udp_associate), which look names up in the middle of relaying;      *)
(* lookups for CONNECT (dns_resolve); and the forwarder that carries the      *)
(* inner tunnel of WARP in WARP (main.rs, spawn_udp_forwarder).               *)
(*                                                                         *)
(* Datagrams are counted, not told apart, and ports are left out: a datagram  *)
(* from the tunnel may be for any open socket or for none, which allows what  *)
(* shared ports do once alloc_port has wrapped.  The stack is one task: while *)
(* it waits for room in one user's channel, for a TCP client in service_tcp   *)
(* or for the tunnel in flush_tx, it serves nobody.                          *)
(*                                                                         *)
(* What NetStack, the TCP half, defines under the same name has the prefix    *)
(* Udp, so that one module can extend both.                                  *)
(***************************************************************************)
EXTENDS Naturals, Sequences

CONSTANTS Tasks,     \* the tasks that use UDP sockets
          Roles,     \* what they may be: functions from tasks to kinds
          AppCap,    \* capacity of to_app (APP_QUEUE)
          DataCap,   \* capacity of data_in (APP_QUEUE)
          CmdCap,    \* capacity of the command channel (256)
          BufCap,    \* datagrams a socket buffers (UDP_META)
          Chunk,     \* MAX_RECV_CHUNKS
          MaxOpens,  \* bound: sockets opened
          MaxReqs,   \* bound: datagrams of the clients
          MaxData    \* bound: datagrams from the tunnel

Kinds == {"assoc", "connect", "forward"}
Ids   == 1 .. MaxOpens
NoId  == 0

ASSUME UdpRelayAssumption ==
    /\ AppCap \in Nat \ {0} /\ DataCap \in Nat \ {0} /\ CmdCap \in Nat \ {0}
    /\ BufCap \in Nat \ {0} /\ Chunk \in Nat \ {0}
    /\ Roles \subseteq [Tasks -> Kinds] /\ MaxOpens \in Nat /\ MaxReqs \in Nat /\ MaxData \in Nat

VARIABLES
    stack,     \* "poll", "service", "flush", "select" or "done"
    arrived,   \* is there a datagram in device.rx
    left,      \* ids service_udp has still to look at
    dest,      \* id it is sending to, or NoId
    batch,     \* datagrams it has still to send there
    nextId,
    udpConns,  \* ids of the open sockets
    buf,       \* datagrams in each socket's receive buffer
    chan,      \* datagrams in each to_app channel
    alive,     \* does the receiver of that channel exist
    openQ,     \* OpenUdp commands, by the task that waits for the answer
    dataIn,    \* the data_in channel
    kind,      \* what each task is
    task,      \* where each task is
    mine,      \* the socket of an association or forwarder
    look,      \* the socket of the lookup under way
    reqs, data \* datagrams of clients and from the tunnel so far

serviceVars == <<left, dest, batch>>
allocVars   == <<nextId, udpConns>>
taskVars    == <<task, mine, look>>
udpVars == <<kind, stack, arrived, serviceVars, allocVars, buf, chan, alive, openQ, dataIn,
             taskVars, reqs, data>>

UdpInit ==
    /\ stack = "select" /\ arrived = FALSE /\ left = {} /\ dest = NoId /\ batch = 0
    /\ nextId = 1 /\ udpConns = {}
    /\ buf = [i \in Ids |-> 0] /\ chan = [i \in Ids |-> 0] /\ alive = [i \in Ids |-> TRUE]
    /\ openQ = <<>> /\ dataIn = <<>>
    /\ kind \in Roles /\ task = [t \in Tasks |-> "new"] /\ mine = [t \in Tasks |-> NoId]
    /\ look = [t \in Tasks |-> NoId] /\ reqs = 0 /\ data = 0

LessOf(m, n) == IF m < n THEN m ELSE n

-----------------------------------------------------------------------------
(* The stack task. *)

(* iface.poll puts a datagram into the buffer of a socket bound to its port,  *)
(* if there is one with room; service_tcp comes next, and waits for TCP       *)
(* clients as long as they like, so the step is under no fairness.            *)
Poll ==
    /\ stack = "poll"
    /\ stack' = "service" /\ arrived' = FALSE /\ left' = udpConns
    /\ \/ \E i \in udpConns : arrived /\ buf[i] < BufCap /\ buf' = [buf EXCEPT ![i] = @ + 1]
       \/ UNCHANGED buf
    /\ UNCHANGED <<kind, dest, batch, allocVars, chan, alive, openQ, dataIn, taskVars, reqs, data>>

(* service_udp takes a batch from the next socket ... *)
ServiceTake(i) ==
    /\ stack = "service" /\ dest = NoId /\ i \in left
    /\ left' = left \ {i} /\ dest' = i /\ batch' = LessOf(buf[i], Chunk)
    /\ buf' = [buf EXCEPT ![i] = @ - LessOf(@, Chunk)]
    /\ UNCHANGED <<kind, stack, arrived, allocVars, chan, alive, openQ, dataIn, taskVars,
                   reqs, data>>

(* ... and sends it on, waiting for room unless the receiver is gone. *)
RoomAssumed(i) == TRUE
RoomFor(i)     == chan[i] < AppCap

UdpServiceSend ==
    /\ stack = "service" /\ dest # NoId /\ batch > 0 /\ alive[dest] /\ RoomFor(dest)
    /\ chan' = [chan EXCEPT ![dest] = @ + 1] /\ batch' = batch - 1
    /\ UNCHANGED <<kind, stack, arrived, left, dest, allocVars, buf, alive, openQ, dataIn, taskVars,
                   reqs, data>>

ServiceMovesOnSent == batch = 0
ServiceMovesOn     == batch = 0 \/ ~alive[dest]

ServiceNext ==
    /\ stack = "service" /\ dest # NoId /\ ServiceMovesOn
    /\ dest' = NoId /\ batch' = 0
    /\ UNCHANGED <<kind, stack, arrived, left, allocVars, buf, chan, alive, openQ, dataIn, taskVars,
                   reqs, data>>

UdpServiceDone ==
    /\ stack = "service" /\ dest = NoId /\ left = {}
    /\ stack' = "flush"
    /\ UNCHANGED <<kind, arrived, serviceVars, allocVars, buf, chan, alive, openQ, dataIn, taskVars,
                   reqs, data>>

(* flush_tx returns: the tunnel has taken every packet, or has gone.  Nothing  *)
(* here makes it, so the step is under no fairness.                           *)
UdpFlushed ==
    /\ stack = "flush"
    /\ stack' = "select"
    /\ UNCHANGED <<kind, arrived, serviceVars, allocVars, buf, chan, alive, openQ, dataIn, taskVars,
                   reqs, data>>

UdpSelectInbound ==
    /\ stack = "select" /\ data < MaxData
    /\ stack' = "poll" /\ arrived' = TRUE /\ data' = data + 1
    /\ UNCHANGED <<kind, serviceVars, allocVars, buf, chan, alive, openQ, dataIn, taskVars, reqs>>

(* next_id counts up and is never used again. *)
SameId == nextId
NewId  == nextId + 1

(* handle_cmd, OpenUdp: the answer never waits. *)
UdpSelectCmd ==
    /\ stack = "select" /\ openQ # <<>> /\ nextId \in Ids
    /\ stack' = "poll" /\ openQ' = Tail(openQ)
    /\ udpConns' = udpConns \cup {nextId} /\ nextId' = NewId
    /\ LET t == Head(openQ) IN
          IF task[t] = "open"
          THEN task' = [task EXCEPT ![t] = "loop"] /\ mine' = [mine EXCEPT ![t] = nextId]
               /\ UNCHANGED look
          ELSE task' = [task EXCEPT ![t] = "query"] /\ look' = [look EXCEPT ![t] = nextId]
               /\ UNCHANGED mine
    /\ UNCHANGED <<kind, arrived, serviceVars, buf, chan, alive, dataIn, reqs, data>>

(* handle_data, for one message and then for every other one that is there.   *)
CloseSent(i) == \E k \in 1 .. Len(dataIn) : dataIn[k] = <<"close", i>>
UdpClosed == {i \in Ids : CloseSent(i)}

DataTurnWithPacket == stack = "poll" /\ arrived /\ dataIn # <<>>
DataTurn           == stack = "select" /\ dataIn # <<>>

UdpSelectData ==
    /\ DataTurn
    /\ stack' = "poll" /\ dataIn' = <<>>
    /\ udpConns' = udpConns \ UdpClosed
    /\ buf' = [i \in Ids |-> IF i \in UdpClosed THEN 0 ELSE buf[i]]
    /\ UNCHANGED <<kind, arrived, serviceVars, nextId, chan, alive, openQ, taskVars, reqs,
                   data>>

(* The tunnel has ended: the stack returns and takes everything with it. *)
StackEnds ==
    /\ stack = "select"
    /\ stack' = "done" /\ openQ' = <<>> /\ dataIn' = <<>>
    /\ udpConns' = {} /\ buf' = [i \in Ids |-> 0]
    /\ UNCHANGED <<kind, arrived, serviceVars, nextId, chan, alive, taskVars, reqs, data>>

UdpStack ==
    \/ (\E i \in Ids : ServiceTake(i)) \/ UdpServiceSend \/ ServiceNext \/ UdpServiceDone
    \/ UdpSelectInbound \/ UdpSelectCmd \/ UdpSelectData

-----------------------------------------------------------------------------
(* The tasks.  data_in and the command channel are waited for; both fail once *)
(* the stack is gone.                                                        *)

Goes(t, to) == task' = [task EXCEPT ![t] = to]
Gone == stack = "done"

SendsCmd(t, to) ==
    /\ Len(openQ) < CmdCap /\ ~Gone
    /\ openQ' = Append(openQ, t) /\ Goes(t, to)
    /\ UNCHANGED <<kind, stack, arrived, serviceVars, allocVars, buf, chan, alive, dataIn, mine,
                   look, reqs, data>>

SendsData(t, m, to) ==
    /\ Gone \/ Len(dataIn) < DataCap
    /\ dataIn' = IF Gone THEN dataIn ELSE Append(dataIn, m)
    /\ Goes(t, to)
    /\ UNCHANGED <<kind, stack, arrived, serviceVars, allocVars, buf, chan, openQ, mine, look, reqs,
                   data>>

(* open_udp, for the socket of an association or forwarder, and for a lookup. *)
OpenUdp(t)   == kind[t] # "connect" /\ task[t] = "new" /\ SendsCmd(t, "open")
ConnectLookup(t) == kind[t] = "connect" /\ task[t] = "new" /\ SendsCmd(t, "lookup")
AssocLookup(t)   == task[t] = "name" /\ SendsCmd(t, "lookup")

OpenFails(t) ==
    /\ Gone /\ task[t] \in {"new", "open", "name", "lookup"}
    /\ Goes(t, IF task[t] \in {"name", "lookup"} /\ kind[t] = "assoc" THEN "loop" ELSE "ended")
    /\ UNCHANGED <<kind, stack, arrived, serviceVars, allocVars, buf, chan, alive, openQ, dataIn,
                   mine, look, reqs, data>>

(* A datagram of the client, for an address or for a name. *)
ClientSends(t) ==
    /\ task[t] = "loop" /\ reqs < MaxReqs
    /\ reqs' = reqs + 1
    /\ \E to \in (IF kind[t] = "assoc" THEN {"send", "name"} ELSE {"send"}) : Goes(t, to)
    /\ UNCHANGED <<kind, stack, arrived, serviceVars, allocVars, buf, chan, alive, openQ, dataIn,
                   mine, look, data>>

SendTo(t) ==
    /\ task[t] = "send"
    /\ SendsData(t, <<"udp", mine[t]>>, IF Gone /\ kind[t] = "forward" THEN "ended" ELSE "loop")
    /\ UNCHANGED alive

(* A datagram for the client.  The forwarder has a task of its own for this    *)
(* direction; an association only looks here between requests.               *)
Relay(t) ==
    /\ mine[t] # NoId
    /\ task[t] = "loop" \/ (kind[t] = "forward" /\ task[t] = "send")
    /\ chan[mine[t]] > 0
    /\ chan' = [chan EXCEPT ![mine[t]] = @ - 1]
    /\ UNCHANGED <<kind, stack, arrived, serviceVars, allocVars, buf, alive, openQ, dataIn,
                   taskVars, reqs, data>>

(* The control connection, the relay socket or the stack ends: the            *)
(* association closes its socket.                                            *)
ClientLeaves(t) ==
    /\ kind[t] = "assoc" /\ task[t] = "loop"
    /\ Goes(t, "close")
    /\ UNCHANGED <<kind, stack, arrived, serviceVars, allocVars, buf, chan, alive, openQ, dataIn,
                   mine, look, reqs, data>>

Close(t) ==
    /\ task[t] = "close"
    /\ SendsData(t, <<"close", mine[t]>>, "ended")
    /\ alive' = [alive EXCEPT ![mine[t]] = FALSE]

-----------------------------------------------------------------------------
(* dns_resolve: one query, one answer or a time-out; the receiver is dropped, *)
(* the socket is not closed.                                                 *)

Query(t) ==
    /\ task[t] = "query" /\ ~Gone
    /\ SendsData(t, <<"udp", look[t]>>, "wait")
    /\ UNCHANGED alive

(* What the caller does next: CONNECT goes on without the UDP socket, an       *)
(* association sends its datagram or, without an address, drops it.           *)
Resolved(t, answered) ==
    /\ \E to \in (IF kind[t] = "connect" THEN {"ended"} ELSE IF answered THEN {"send", "loop"} ELSE {"loop"}) :
          Goes(t, to)
    /\ alive' = [alive EXCEPT ![look[t]] = FALSE] /\ look' = [look EXCEPT ![t] = NoId]
    /\ UNCHANGED <<kind, stack, arrived, serviceVars, allocVars, buf, chan, openQ, dataIn, mine,
                   reqs, data>>

QueryFails(t) == task[t] = "query" /\ Gone /\ Resolved(t, FALSE)

NeverTimesOut(t)  == task[t] = "wait" /\ Gone /\ Resolved(t, FALSE)
LookupAnswered(t) == task[t] = "wait" /\ chan[look[t]] > 0 /\ Resolved(t, TRUE)
LookupTimesOut(t) == task[t] = "wait" /\ Resolved(t, FALSE)

TaskStep(t) ==
    \/ OpenUdp(t) \/ ConnectLookup(t) \/ AssocLookup(t) \/ OpenFails(t) \/ SendTo(t)
    \/ Relay(t) \/ Close(t) \/ Query(t) \/ QueryFails(t) \/ LookupAnswered(t) \/ LookupTimesOut(t)

UdpNext ==
    \/ UdpStack \/ Poll \/ UdpFlushed \/ StackEnds
    \/ \E t \in Tasks : TaskStep(t) \/ ClientSends(t) \/ ClientLeaves(t)

UdpSpec == UdpInit /\ [][UdpNext]_udpVars

(* Tasks run, and the stack does between its waits for others; the select of    *)
(* the stack is biased, but the flow of packets pauses now and then and lets  *)
(* commands and data through.                                                *)
UdpFairSpec ==
    /\ UdpSpec /\ WF_udpVars(UdpStack) /\ SF_udpVars(UdpSelectCmd) /\ SF_udpVars(UdpSelectData)
    /\ \A t \in Tasks : WF_udpVars(TaskStep(t))

-----------------------------------------------------------------------------
(* Properties. *)

(* Every variable keeps its type, and the channels their capacity. *)
UdpTypeOK ==
    /\ stack \in {"poll", "service", "flush", "select", "done"} /\ arrived \in BOOLEAN
    /\ left \subseteq Ids /\ dest \in Ids \cup {NoId} /\ batch \in Nat
    /\ nextId \in 1 .. MaxOpens + 1 /\ udpConns \subseteq Ids
    /\ buf \in [Ids -> 0 .. BufCap]
    /\ chan \in [Ids -> 0 .. AppCap] /\ alive \in [Ids -> BOOLEAN]
    /\ openQ \in Seq(Tasks) /\ Len(openQ) <= CmdCap
    /\ dataIn \in Seq({"udp", "close"} \X (Ids \cup {NoId})) /\ Len(dataIn) <= DataCap
    /\ kind \in Roles
    /\ task \in [Tasks -> {"new", "open", "loop", "send", "name", "lookup", "query", "wait",
                           "close", "ended"}]
    /\ mine \in [Tasks -> Ids \cup {NoId}] /\ look \in [Tasks -> Ids \cup {NoId}]
    /\ reqs \in 0 .. MaxReqs /\ data \in 0 .. MaxData

(* As long as the stack lives, a running task's socket is open and nobody     *)
(* else's: no close of another task, sent earlier and applied late, takes it  *)
(* away.  And a task that has ended leaves its socket closed, or its close is *)
(* on its way; only the socket of a lookup is left behind.                    *)
Running(t) == task[t] # "ended"

SocketOpen(t) ==
    /\ Running(t) /\ mine[t] # NoId => mine[t] \in udpConns
    /\ look[t] # NoId => look[t] \in udpConns
    /\ ~Running(t) /\ mine[t] # NoId => mine[t] \notin udpConns \/ CloseSent(mine[t])

SocketsApart(t, u) ==
    /\ mine[t] = mine[u] => t = u \/ mine[t] = NoId
    /\ look[t] = look[u] => t = u \/ look[t] = NoId
    /\ mine[t] = look[u] => mine[t] = NoId

SocketsOwned == \A t, u \in Tasks : SocketsApart(t, u) /\ (~Gone => SocketOpen(t))

(* Its inductive strengthening: ids below next_id only, at most one command    *)
(* per task and only while it waits for the answer, a close only for a task   *)
(* that has ended.                                                           *)
IdsUsed(t) ==
    /\ mine[t] < nextId /\ look[t] < nextId
    /\ kind[t] = "connect" => mine[t] = NoId /\ task[t] # "open"

CommandsPending ==
    /\ \A k \in 1 .. Len(openQ) : task[openQ[k]] \in {"open", "lookup"}
    /\ \A k, l \in 1 .. Len(openQ) : openQ[k] = openQ[l] => k = l

ClosesLast ==
    \A i \in Ids : CloseSent(i) => \E t \in Tasks : ~Running(t) /\ mine[t] = i

SocketInv ==
    /\ (\A i \in udpConns : i < nextId) /\ (\A t \in Tasks : IdsUsed(t))
    /\ CommandsPending /\ ClosesLast /\ (Gone => openQ = <<>> /\ dataIn = <<>>)
    /\ SocketsOwned

(* The stack waits for a task that waits for the stack: an association in the *)
(* middle of a lookup, or a task with a message for a full data_in, takes no  *)
(* datagram meanwhile.                                                       *)
UdpHeld(i) ==
    /\ stack = "service" /\ dest = i /\ batch > 0 /\ alive[i] /\ chan[i] = AppCap
    /\ \E t \in Tasks :
          \/ kind[t] = "assoc" /\ mine[t] = i /\ task[t] \in {"name", "lookup"}
          \/ /\ Len(dataIn) = DataCap
             /\ \/ kind[t] = "assoc" /\ mine[t] = i /\ task[t] \in {"send", "query", "close"}
                \/ look[t] = i /\ task[t] = "query"

StackHeld == \E i \in Ids : UdpHeld(i)

(* What the progress of the tasks rests on: TCP clients and the tunnel do not  *)
(* keep the stack in service_tcp or flush_tx for ever.                        *)
TurnsGoOn == []<>(stack \notin {"poll", "flush"})

(* service_udp comes to an end, so that the stack serves its other users;     *)
(* only a task that is waiting for the stack itself can hold it.              *)
ServiceEnds == (stack = "service") ~> (stack # "service" \/ StackHeld)

(* A lookup ends, with an answer, with the time-out, or with the stack, as     *)
(* long as the stack keeps turning.                                          *)
LookupEnds ==
    TurnsGoOn =>
        \A t \in Tasks : (task[t] \in {"lookup", "query", "wait"})
                             ~> (task[t] \in {"loop", "send", "ended"} \/ StackHeld)

(* The socket of an association that has ended is given back, as long as the  *)
(* stack keeps turning.                                                      *)
AssocReclaimed ==
    TurnsGoOn =>
        \A t \in Tasks : (kind[t] = "assoc" /\ task[t] = "ended" /\ mine[t] # NoId)
                             ~> (mine[t] \notin udpConns \/ StackHeld)
=============================================================================
