------------------------------ MODULE NetStack ------------------------------
(***************************************************************************)
(* The user-space TCP stack of aether (netstack.rs) with the SOCKS5        *)
(* CONNECT tasks that use it (socks.rs, handle_connect).                   *)
(*                                                                         *)
(* One tokio task, the stack, owns every socket.  It repeats: poll the     *)
(* smoltcp interface, service every connection, flush, then select one     *)
(* event.  Each SOCKS client has a main task (stack to client) and an up   *)
(* task (client to stack).  The tasks meet only in bounded channels: the   *)
(* command channel, the shared data_in channel, and one to_app channel per *)
(* connection.                                                             *)
(*                                                                         *)
(* Payload bytes are their positions 1, 2, 3, ... in the stream, so a      *)
(* lost, duplicated or reordered byte is visible.  smoltcp, the network    *)
(* and the remote peers are external: they are modelled by the transitions *)
(* of the TCP state machine that the code can observe.                     *)
(***************************************************************************)
EXTENDS Naturals, Sequences, SequencesExt

CONSTANTS Conns,      \* the OpenTcp requests that may be made
          AppQueue,   \* capacity of data_in and of every to_app (APP_QUEUE)
          CmdQueue,   \* capacity of the command channel
          TcpBuf,     \* capacity of a socket's receive and transmit buffer
          MaxUp,      \* bound: bytes one client writes
          MaxDown     \* bound: bytes one remote peer writes

ASSUME NetStackAssumption ==
    /\ AppQueue \in Nat \ {0}
    /\ CmdQueue \in Nat \ {0}
    /\ TcpBuf \in Nat \ {0}
    /\ MaxUp \in Nat
    /\ MaxDown \in Nat

VARIABLES
    pc,       \* where the stack task is in its loop
    todo,     \* the snapshot of ids service_tcp still has to visit
    cur,      \* the connection service_tcp is visiting
    chunks,   \* received chunks it has yet to send to that connection's to_app
    inbound,  \* is a packet waiting in inbound_rx
    fresh,    \* did the last select ingest packets
    tun,      \* is the tunnel's half of inbound_rx still alive
    cmdQ,     \* the command channel
    dataQ,    \* the shared data_in channel
    conn,     \* tcp_conns: absent, opening (not established), open (established)
    pending,  \* TcpState.pending
    half,     \* TcpState.half_closed
    st,       \* smoltcp: TCP state of the connection's socket
    rx,       \* smoltcp: its receive buffer
    tx,       \* smoltcp: its transmit buffer
    acked,    \* peers that were sent the last ACK of the handshake
    answer,   \* the oneshot of open_tcp
    toApp,    \* the to_app channel
    cl,       \* the client's main task
    up,       \* the client's up task
    wrote,    \* ghost: bytes the up task has read from the client
    got,      \* ghost: bytes written back to the client
    sent,     \* ghost: bytes the remote peer has sent
    rfin,     \* ghost: the remote peer has sent its FIN
    delivered \* ghost: bytes acknowledged by the remote peer

stackVars == <<pc, todo, cur, chunks, inbound, fresh, tun>>
chanVars  == <<cmdQ, dataQ, answer, toApp>>
connVars  == <<conn, pending, half>>
sockVars  == <<st, rx, tx, acked>>
appVars   == <<cl, up>>
ghostVars == <<wrote, got, sent, rfin, delivered>>
vars == <<stackVars, chanVars, connVars, sockVars, appVars, ghostVars>>

StackPcs  == {"poll", "service", "send", "flush", "select", "drain", "exit"}
TcpStates == {"none", "SynSent", "Established", "CloseWait", "FinWait1",
              "FinWait2", "Closing", "LastAck", "TimeWait", "Closed"}
DataIn    == [kind : {"Tcp", "TcpClose"}, id : Conns, b : Nat]
Ended     == {"eof", "gone", "failed"}

(* The state at the end of spawn, before the first iteration of run. *)
Init ==
    /\ pc = "poll" /\ todo = {} /\ cur \in Conns /\ chunks = <<>>
    /\ inbound = FALSE /\ fresh = FALSE /\ tun = TRUE
    /\ cmdQ = <<>> /\ dataQ = <<>>
    /\ conn = [c \in Conns |-> "absent"]
    /\ pending = [c \in Conns |-> <<>>]
    /\ half = [c \in Conns |-> FALSE]
    /\ st = [c \in Conns |-> "none"]
    /\ rx = [c \in Conns |-> <<>>]
    /\ tx = [c \in Conns |-> <<>>]
    /\ acked = {}
    /\ answer = [c \in Conns |-> "none"]
    /\ toApp = [c \in Conns |-> <<>>]
    /\ cl = [c \in Conns |-> "idle"]
    /\ up = [c \in Conns |-> "off"]
    /\ wrote = [c \in Conns |-> 0]
    /\ got = [c \in Conns |-> <<>>]
    /\ sent = [c \in Conns |-> 0]
    /\ rfin = [c \in Conns |-> FALSE]
    /\ delivered = [c \in Conns |-> <<>>]

(* from_stack, the receiving end of to_app: first kept in the table, then   *)
(* handed over through the oneshot, then owned by the client's main task.   *)
ReceiverAlive(c) ==
    \/ conn[c] = "opening"
    \/ answer[c] = "ok" /\ cl[c] \in {"opening", "relay"}

(* tcp::Socket::close. *)
Closed(s) ==
    CASE s = "SynSent"     -> "Closed"
      [] s = "Established" -> "FinWait1"
      [] s = "CloseWait"   -> "LastAck"
      [] OTHER             -> s

(* A bounded mpsc channel of APP_QUEUE messages: send waits for room. *)
HasRoom(q) == Len(q) < AppQueue

Lesser(m, n) == IF m <= n THEN m ELSE n

-----------------------------------------------------------------------------
(* iface.poll: the segments ingested by the last select take effect on the  *)
(* sockets, any number of them, before PollDone.  Only the timer needs no   *)
(* fresh packet.  The peer answers data or FIN only to a handshake whose    *)
(* ACK it has been sent.                                                    *)

Polling == pc = "poll" /\ fresh

SynAck(c) ==
    /\ Polling /\ st[c] = "SynSent"
    /\ st' = [st EXCEPT ![c] = "Established"]
    /\ UNCHANGED <<stackVars, chanVars, connVars, rx, tx, acked, appVars, ghostVars>>

Reset(c) ==
    /\ Polling /\ st[c] \notin {"none", "Closed", "TimeWait"}
    /\ st' = [st EXCEPT ![c] = "Closed"]
    /\ tx' = [tx EXCEPT ![c] = <<>>]
    /\ UNCHANGED <<stackVars, chanVars, connVars, rx, acked, appVars, ghostVars>>

RemoteData(c) ==
    /\ Polling /\ c \in acked /\ ~rfin[c]
    /\ st[c] \in {"Established", "FinWait1", "FinWait2"}
    /\ Len(rx[c]) < TcpBuf /\ sent[c] < MaxDown
    /\ sent' = [sent EXCEPT ![c] = @ + 1]
    /\ rx' = [rx EXCEPT ![c] = Append(@, sent[c] + 1)]
    /\ UNCHANGED <<stackVars, chanVars, connVars, st, tx, acked, appVars,
                   wrote, got, rfin, delivered>>

RemoteFin(c) ==
    /\ Polling /\ c \in acked
    /\ st[c] \in {"Established", "FinWait1", "FinWait2"}
    /\ rfin' = [rfin EXCEPT ![c] = TRUE]
    /\ st' = [st EXCEPT ![c] = CASE @ = "Established" -> "CloseWait"
                                 [] @ = "FinWait1"    -> "Closing"
                                 [] @ = "FinWait2"    -> "TimeWait"]
    /\ UNCHANGED <<stackVars, chanVars, connVars, rx, tx, acked, appVars,
                   wrote, got, sent, delivered>>

RemoteAck(c) ==
    /\ Polling /\ c \in acked /\ tx[c] # <<>>
    /\ delivered' = [delivered EXCEPT ![c] = Append(@, Head(tx[c]))]
    /\ tx' = [tx EXCEPT ![c] = Tail(@)]
    /\ UNCHANGED <<stackVars, chanVars, connVars, st, rx, acked, appVars,
                   wrote, got, sent, rfin>>

FinAck(c) ==
    /\ Polling /\ c \in acked /\ tx[c] = <<>>
    /\ st[c] \in {"FinWait1", "Closing", "LastAck"}
    /\ st' = [st EXCEPT ![c] = CASE @ = "FinWait1" -> "FinWait2"
                                 [] @ = "Closing"  -> "TimeWait"
                                 [] @ = "LastAck"  -> "Closed"]
    /\ UNCHANGED <<stackVars, chanVars, connVars, rx, tx, acked, appVars, ghostVars>>

TimeWaitExpires(c) ==
    /\ pc = "poll" /\ st[c] = "TimeWait"
    /\ st' = [st EXCEPT ![c] = "Closed"]
    /\ UNCHANGED <<stackVars, chanVars, connVars, rx, tx, acked, appVars, ghostVars>>

(* poll returns and service_tcp copies the keys of tcp_conns.  A panic in   *)
(* poll is caught and drops queued packets, which TCP retransmits.          *)
PollDone ==
    /\ pc = "poll"
    /\ pc' = "service"
    /\ todo' = {c \in Conns : conn[c] # "absent"}
    /\ UNCHANGED <<cur, chunks, inbound, fresh, tun, chanVars, connVars,
                   sockVars, appVars, ghostVars>>

-----------------------------------------------------------------------------
(* service_tcp, one connection: everything up to the first await. *)

(* A connection whose first observed state is already dead: connection     *)
(* refused, the entry and its socket are dropped.                          *)
ServiceRefused(c) ==
    /\ pc = "service" /\ c \in todo
    /\ conn[c] = "opening" /\ st[c] \in {"Closed", "TimeWait"}
    /\ answer' = [answer EXCEPT ![c] = "err"]
    /\ conn' = [conn EXCEPT ![c] = "absent"]
    /\ st' = [st EXCEPT ![c] = "none"]
    /\ rx' = [rx EXCEPT ![c] = <<>>]
    /\ tx' = [tx EXCEPT ![c] = <<>>]
    /\ todo' = todo \ {c}
    /\ UNCHANGED <<pc, cur, chunks, inbound, fresh, tun, cmdQ, dataQ, toApp,
                   pending, half, acked, appVars, ghostVars>>

(* How many pending bytes send_slice takes: none unless can_send. *)
Sendable(c) ==
    IF st[c] \in {"Established", "CloseWait"}
    THEN Lesser(Len(pending[c]), TcpBuf - Len(tx[c])) ELSE 0

(* recv hands out the ring buffer in at most two contiguous pieces, far     *)
(* below MAX_RECV_CHUNKS, so one pass empties it.                           *)
FirstPiece(buf) ==
    IF buf = <<>> THEN {<<>>} ELSE {<<SubSeq(buf, 1, k)>> : k \in 1 .. Len(buf)}

ChunkLists(buf) ==
    (IF buf = <<>> THEN {<<>>} ELSE {<<buf>>})
      \cup {<<SubSeq(buf, 1, k), SubSeq(buf, k + 1, Len(buf))>> : k \in 1 .. Len(buf) - 1}

(* The established flag and the hand-over of from_stack. *)
EstablishesLate(c)     == conn[c] = "opening" /\ st[c] = "Established" /\ c \in acked
EstablishesWithData(c) == conn[c] = "opening" /\ st[c] = "Established" /\ rx[c] # <<>>
Establishes(c)         == conn[c] = "opening" /\ st[c] = "Established"

(* The client's half-close is passed on once its data has left pending. *)
CloseAtOnce(c, rest) == half[c]
CloseDue(c, rest)    == half[c] /\ rest = <<>>

ServiceBegin(c) ==
    LET n    == Sendable(c)
        rest == SubSeq(pending[c], n + 1, Len(pending[c]))
    IN
    /\ pc = "service" /\ c \in todo
    /\ ~(conn[c] = "opening" /\ st[c] \in {"Closed", "TimeWait"})
    /\ IF Establishes(c)
       THEN /\ conn' = [conn EXCEPT ![c] = "open"]
            /\ answer' = [answer EXCEPT ![c] = "ok"]
       ELSE UNCHANGED <<conn, answer>>
    /\ tx' = [tx EXCEPT ![c] = @ \o SubSeq(pending[c], 1, n)]
    /\ pending' = [pending EXCEPT ![c] = rest]
    /\ st' = [st EXCEPT ![c] = IF CloseDue(c, rest) THEN Closed(@) ELSE @]
    /\ chunks' \in ChunkLists(rx[c])
    /\ rx' = [rx EXCEPT ![c] = <<>>]
    /\ pc' = "send" /\ cur' = c
    /\ UNCHANGED <<todo, inbound, fresh, tun, cmdQ, dataQ, toApp, half, acked,
                   appVars, ghostVars>>

(* to_app.send(v).await: blocks while the channel is full, fails when the   *)
(* receiver is gone, and then the socket is closed.                         *)
ServiceSend ==
    /\ pc = "send" /\ chunks # <<>>
    /\ \/ /\ ReceiverAlive(cur) /\ HasRoom(toApp[cur])
          /\ toApp' = [toApp EXCEPT ![cur] = Append(@, Head(chunks))]
          /\ chunks' = Tail(chunks)
          /\ UNCHANGED st
       \/ /\ ~ReceiverAlive(cur)
          /\ chunks' = <<>>
          /\ st' = [st EXCEPT ![cur] = Closed(@)]
          /\ UNCHANGED toApp
    /\ UNCHANGED <<pc, todo, cur, inbound, fresh, tun, cmdQ, dataQ, answer, connVars,
                   rx, tx, acked, appVars, ghostVars>>

(* The checks after the last send: answer a FIN, reclaim a closed socket. *)
NoAnswerToFin(s) == s
AnswerFin(s) == IF s = "CloseWait" THEN Closed(s) ELSE s

ServiceEnd ==
    /\ pc = "send" /\ chunks = <<>>
    /\ IF st[cur] = "Closed" /\ conn[cur] = "open"
       THEN /\ conn' = [conn EXCEPT ![cur] = "absent"]
            /\ st' = [st EXCEPT ![cur] = "none"]
            /\ tx' = [tx EXCEPT ![cur] = <<>>]
            /\ pending' = [pending EXCEPT ![cur] = <<>>]
            /\ half' = [half EXCEPT ![cur] = FALSE]
       ELSE /\ st' = [st EXCEPT ![cur] = AnswerFin(@)]
            /\ UNCHANGED <<tx, connVars>>
    /\ todo' = todo \ {cur}
    /\ pc' = "service"
    /\ UNCHANGED <<cur, chunks, inbound, fresh, tun, chanVars, rx, acked,
                   appVars, ghostVars>>

ServiceDone ==
    /\ pc = "service" /\ todo = {}
    /\ pc' = "flush"
    /\ UNCHANGED <<todo, cur, chunks, inbound, fresh, tun, chanVars, connVars,
                   sockVars, appVars, ghostVars>>

(* flush_tx: the ACK that ends a handshake leaves only here, after          *)
(* service_tcp has seen the Established state.  The step ends the waits of   *)
(* service_udp and flush_tx, for a UDP user and for the tunnel, which may    *)
(* last for ever: it is under no fairness.                                  *)
Handshaken(c) == st[c] \notin {"none", "SynSent", "Closed"}

FlushTx ==
    /\ pc = "flush"
    /\ pc' = "select" /\ fresh' = FALSE
    /\ acked' = acked \cup {c \in Conns : Handshaken(c)}
    /\ UNCHANGED <<todo, cur, chunks, inbound, tun, chanVars, connVars, st, rx, tx,
                   appVars, ghostVars>>

-----------------------------------------------------------------------------
(* The biased select of run: packets first, then commands, then data. *)

SelectInbound ==
    /\ pc = "select" /\ inbound
    /\ inbound' = FALSE /\ fresh' = TRUE /\ pc' = "poll"
    /\ UNCHANGED <<todo, cur, chunks, tun, chanVars, connVars, sockVars, appVars, ghostVars>>

(* inbound_rx is closed and empty: run returns and drops all it owns.  The  *)
(* session holds a StackHandle until its tunnel has ended, so cmd_rx never   *)
(* closes before inbound_rx does.                                            *)
SelectExit ==
    /\ pc = "select" /\ ~inbound /\ ~tun
    /\ pc' = "exit"
    /\ conn' = [c \in Conns |-> "absent"]
    /\ pending' = [c \in Conns |-> <<>>]
    /\ half' = [c \in Conns |-> FALSE]
    /\ st' = [c \in Conns |-> "none"]
    /\ rx' = [c \in Conns |-> <<>>]
    /\ tx' = [c \in Conns |-> <<>>]
    /\ cmdQ' = <<>> /\ dataQ' = <<>>
    /\ answer' = [c \in Conns |-> IF answer[c] = "none" /\ cl[c] = "opening"
                                  THEN "dropped" ELSE answer[c]]
    /\ UNCHANGED <<todo, cur, chunks, inbound, fresh, tun, toApp, acked,
                   appVars, ghostVars>>

(* handle_cmd, Cmd::OpenTcp: connect fails (no usable local address) or     *)
(* the entry is created.                                                    *)
SelectCmd ==
    /\ pc = "select" /\ ~inbound /\ tun /\ cmdQ # <<>>
    /\ pc' = "poll"
    /\ cmdQ' = Tail(cmdQ)
    /\ LET c == Head(cmdQ) IN
       \/ /\ answer' = [answer EXCEPT ![c] = "err"]
          /\ UNCHANGED <<conn, st>>
       \/ /\ conn' = [conn EXCEPT ![c] = "opening"]
          /\ st' = [st EXCEPT ![c] = "SynSent"]
          /\ UNCHANGED answer
    /\ UNCHANGED <<todo, cur, chunks, inbound, fresh, tun, dataQ, toApp, pending,
                   half, rx, tx, acked, appVars, ghostVars>>

SelectData ==
    /\ pc = "select" /\ ~inbound /\ tun /\ cmdQ = <<>> /\ dataQ # <<>>
    /\ pc' = "drain"
    /\ UNCHANGED <<todo, cur, chunks, inbound, fresh, tun, chanVars, connVars,
                   sockVars, appVars, ghostVars>>

(* handle_data for one message; messages for a forgotten id are ignored. *)
HalfCloseLost(m) == half
HalfClosed(m) ==
    IF m.kind = "TcpClose" /\ conn[m.id] # "absent" THEN [half EXCEPT ![m.id] = TRUE] ELSE half

HandleData ==
    /\ pc = "drain" /\ dataQ # <<>>
    /\ LET m == Head(dataQ) IN
       /\ pending' = IF m.kind = "Tcp" /\ conn[m.id] # "absent"
                     THEN [pending EXCEPT ![m.id] = Append(@, m.b)] ELSE pending
       /\ half' = HalfClosed(m)
    /\ dataQ' = Tail(dataQ)
    /\ UNCHANGED <<stackVars, cmdQ, answer, toApp, conn, sockVars, appVars, ghostVars>>

(* try_recv found data_in empty: back to the top of the loop. *)
DrainDone ==
    /\ pc = "drain" /\ dataQ = <<>>
    /\ pc' = "poll"
    /\ UNCHANGED <<todo, cur, chunks, inbound, fresh, tun, chanVars, connVars,
                   sockVars, appVars, ghostVars>>

(* sleep_opt(poll_delay): only TimeWait needs the clock here. *)
SelectTimer ==
    /\ pc = "select" /\ ~inbound /\ tun /\ cmdQ = <<>> /\ dataQ = <<>>
    /\ \E c \in Conns : st[c] = "TimeWait"
    /\ pc' = "poll"
    /\ UNCHANGED <<todo, cur, chunks, inbound, fresh, tun, chanVars, connVars,
                   sockVars, appVars, ghostVars>>

-----------------------------------------------------------------------------
(* The tunnel: packets arrive while it lives, and it may end at any time. *)

PacketArrives ==
    /\ tun /\ ~inbound /\ pc # "exit"
    /\ inbound' = TRUE
    /\ UNCHANGED <<pc, todo, cur, chunks, fresh, tun, chanVars, connVars, sockVars,
                   appVars, ghostVars>>

TunnelEnds ==
    /\ tun
    /\ tun' = FALSE
    /\ UNCHANGED <<pc, todo, cur, chunks, inbound, fresh, chanVars, connVars,
                   sockVars, appVars, ghostVars>>

-----------------------------------------------------------------------------
(* The client's main task: StackHandle::open_tcp, the SOCKS reply, and the  *)
(* loop that copies from_stack to the client.                               *)

StackGone == pc = "exit"

OpenTcp(c) ==
    /\ cl[c] = "idle"
    /\ IF StackGone
       THEN cl' = [cl EXCEPT ![c] = "failed"] /\ UNCHANGED cmdQ
       ELSE /\ Len(cmdQ) < CmdQueue
            /\ cmdQ' = Append(cmdQ, c)
            /\ cl' = [cl EXCEPT ![c] = "opening"]
    /\ UNCHANGED <<stackVars, dataQ, answer, toApp, connVars, sockVars, up, ghostVars>>

(* The oneshot resolves.  On Ok the reply is written and both halves are    *)
(* split; if that write fails the TcpConn is dropped with no TcpClose.      *)
Answered(c) ==
    /\ cl[c] = "opening" /\ answer[c] # "none"
    /\ \/ /\ answer[c] = "ok"
          /\ cl' = [cl EXCEPT ![c] = "relay"]
          /\ up' = [up EXCEPT ![c] = "read"]
       \/ /\ cl' = [cl EXCEPT ![c] = "failed"]
          /\ UNCHANGED up
    /\ UNCHANGED <<stackVars, chanVars, connVars, sockVars, ghostVars>>

(* from_stack.recv, write_all: to a client that reads. *)
RelayDown(c) ==
    /\ cl[c] = "relay" /\ toApp[c] # <<>>
    /\ got' = [got EXCEPT ![c] = @ \o Head(toApp[c])]
    /\ toApp' = [toApp EXCEPT ![c] = Tail(@)]
    /\ UNCHANGED <<stackVars, cmdQ, dataQ, answer, connVars, sockVars, appVars,
                   wrote, sent, rfin, delivered>>

(* write_all fails: the loop breaks and the up task is aborted. *)
RelayBreaks(c) ==
    /\ cl[c] = "relay" /\ toApp[c] # <<>>
    /\ cl' = [cl EXCEPT ![c] = "gone"]
    /\ up' = [up EXCEPT ![c] = "done"]
    /\ UNCHANGED <<stackVars, chanVars, connVars, sockVars, ghostVars>>

(* recv returns None: the sender was dropped and the channel is empty. *)
RelayEof(c) ==
    /\ cl[c] = "relay" /\ toApp[c] = <<>> /\ conn[c] = "absent"
    /\ cl' = [cl EXCEPT ![c] = "eof"]
    /\ up' = [up EXCEPT ![c] = "done"]
    /\ UNCHANGED <<stackVars, chanVars, connVars, sockVars, ghostVars>>

(* The client's up task. *)
UpRead(c) ==
    /\ up[c] = "read" /\ wrote[c] < MaxUp
    /\ wrote' = [wrote EXCEPT ![c] = @ + 1]
    /\ up' = [up EXCEPT ![c] = "send"]
    /\ UNCHANGED <<stackVars, chanVars, connVars, sockVars, cl, got, sent, rfin, delivered>>

UpEof(c) ==
    /\ up[c] = "read"
    /\ up' = [up EXCEPT ![c] = "close"]
    /\ UNCHANGED <<stackVars, chanVars, connVars, sockVars, cl, ghostVars>>

UpSend(c) ==
    /\ up[c] = "send"
    /\ IF StackGone
       THEN up' = [up EXCEPT ![c] = "done"] /\ UNCHANGED dataQ
       ELSE /\ HasRoom(dataQ)
            /\ dataQ' = Append(dataQ, [kind |-> "Tcp", id |-> c, b |-> wrote[c]])
            /\ up' = [up EXCEPT ![c] = "read"]
    /\ UNCHANGED <<stackVars, cmdQ, answer, toApp, connVars, sockVars, cl, ghostVars>>

UpClose(c) ==
    /\ up[c] = "close"
    /\ IF StackGone
       THEN UNCHANGED dataQ
       ELSE /\ HasRoom(dataQ)
            /\ dataQ' = Append(dataQ, [kind |-> "TcpClose", id |-> c, b |-> 0])
    /\ up' = [up EXCEPT ![c] = "done"]
    /\ UNCHANGED <<stackVars, cmdQ, answer, toApp, connVars, sockVars, cl, ghostVars>>

-----------------------------------------------------------------------------

Peer(c) ==
    \/ SynAck(c) \/ Reset(c) \/ RemoteData(c) \/ RemoteFin(c)
    \/ RemoteAck(c) \/ FinAck(c) \/ TimeWaitExpires(c)

Stack ==
    \/ PollDone \/ ServiceSend \/ ServiceEnd \/ ServiceDone \/ FlushTx
    \/ SelectInbound \/ SelectExit \/ SelectCmd \/ SelectData \/ HandleData
    \/ DrainDone \/ SelectTimer
    \/ \E c \in Conns : ServiceRefused(c) \/ ServiceBegin(c)

Main(c) == OpenTcp(c) \/ Answered(c) \/ RelayDown(c) \/ RelayBreaks(c) \/ RelayEof(c)
Up(c)   == UpRead(c) \/ UpEof(c) \/ UpSend(c) \/ UpClose(c)

Next ==
    \/ Stack \/ PacketArrives \/ TunnelEnds
    \/ \E c \in Conns : Peer(c) \/ Main(c) \/ Up(c)

Spec == Init /\ [][Next]_vars

-----------------------------------------------------------------------------
(* Fairness.  Tokio runs every task that is ready, so the client tasks' steps *)
(* are weakly fair and so are the stack's, except FlushTx.  The select arms   *)
(* for commands and data are strongly fair because packets repeatedly        *)
(* pre-empt them.  The peers are assumed to answer: they complete or refuse  *)
(* a handshake and acknowledge what they are sent.  They need not send,      *)
(* close or reset.                                                          *)
StackRuns == Stack /\ pc # "flush"

TaskFairness ==
    /\ WF_vars(StackRuns) /\ SF_vars(SelectCmd) /\ SF_vars(SelectData)
    /\ \A c \in Conns :
          /\ WF_vars(Answered(c)) /\ WF_vars(RelayDown(c) \/ RelayBreaks(c) \/ RelayEof(c))
          /\ WF_vars(UpSend(c)) /\ WF_vars(UpClose(c))

AnswersSyn(c) == SynAck(c) \/ (st[c] = "SynSent" /\ Reset(c))

PeerFairness ==
    /\ WF_vars(PacketArrives)
    /\ \A c \in Conns : /\ SF_vars(AnswersSyn(c)) /\ SF_vars(RemoteAck(c))
                         /\ SF_vars(FinAck(c)) /\ SF_vars(TimeWaitExpires(c))

FairSpec == Spec /\ TaskFairness /\ PeerFairness

-----------------------------------------------------------------------------
(* Properties. *)

Bytes == Seq(Nat)

(* Every variable keeps its type and no channel or socket buffer outgrows   *)
(* its capacity.                                                            *)
StackType ==
    /\ pc \in StackPcs /\ todo \subseteq Conns /\ cur \in Conns
    /\ inbound \in BOOLEAN /\ fresh \in BOOLEAN /\ tun \in BOOLEAN
QueueType ==
    /\ cmdQ \in Seq(Conns) /\ Len(cmdQ) <= CmdQueue
    /\ dataQ \in Seq(DataIn) /\ Len(dataQ) <= AppQueue
    /\ answer \in [Conns -> {"none", "ok", "err", "dropped"}]
ChunkType ==
    /\ chunks \in Seq(Bytes)
    /\ toApp \in [Conns -> Seq(Bytes)] /\ \A c \in Conns : Len(toApp[c]) <= AppQueue
TableType ==
    /\ conn \in [Conns -> {"absent", "opening", "open"}]
    /\ pending \in [Conns -> Bytes] /\ half \in [Conns -> BOOLEAN]
SocketType ==
    /\ st \in [Conns -> TcpStates] /\ acked \subseteq Conns
    /\ rx \in [Conns -> Bytes] /\ \A c \in Conns : Len(rx[c]) <= TcpBuf
    /\ tx \in [Conns -> Bytes] /\ \A c \in Conns : Len(tx[c]) <= TcpBuf
ClientType ==
    /\ cl \in [Conns -> {"idle", "opening", "relay"} \cup Ended]
    /\ up \in [Conns -> {"off", "read", "send", "close", "done"}]
GhostType ==
    /\ wrote \in [Conns -> Nat] /\ got \in [Conns -> Bytes]
    /\ sent \in [Conns -> Nat] /\ rfin \in [Conns -> BOOLEAN]
    /\ delivered \in [Conns -> Bytes]

TypeOK ==
    /\ StackType /\ QueueType /\ ChunkType /\ TableType
    /\ SocketType /\ ClientType /\ GhostType

FirstBytes(n) == [i \in 1 .. n |-> i]

(* service_tcp never waits on a to_app channel whose receiver is still in   *)
(* its own table: nobody could ever drain it and the whole stack would      *)
(* stop.  This rests on flush_tx coming after service_tcp, so that no peer  *)
(* sends data before the connection has been handed over.                   *)
NoSelfDeadlock == pc = "send" /\ chunks # <<>> => conn[cur] = "open"

(* The inductive strengthening of NoSelfDeadlock.  A connection that has    *)
(* not been handed over has received nothing and has not been sent the ACK  *)
(* its peer waits for (HandshakePending); one that is established but not   *)
(* handed over is still to be visited by this pass of service_tcp           *)
(* (VisitPending); a request that was not executed yet has left no trace    *)
(* (RequestsFresh).                                                         *)
HandshakePending ==
    \A c \in Conns : conn[c] = "opening" =>
       c \notin acked /\ rx[c] = <<>> /\ st[c] \in {"SynSent", "Established", "Closed"}

VisitPending ==
    /\ \A c \in Conns : conn[c] = "opening" /\ st[c] = "Established" =>
          pc = "poll" \/ (pc \in {"service", "send"} /\ c \in todo)
    /\ pc = "send" /\ conn[cur] = "opening" => chunks = <<>> /\ st[cur] # "Established"
    /\ pc = "send" => conn[cur] # "absent"
    /\ \A c \in todo : conn[c] # "absent" \/ pc = "exit"

Fresh(c) == conn[c] = "absent" /\ st[c] = "none" /\ c \notin acked
              /\ rx[c] = <<>> /\ answer[c] = "none"

RequestsFresh ==
    /\ \A c \in Conns : cl[c] = "idle" => Fresh(c)
    /\ \A i \in 1 .. Len(cmdQ) : cl[cmdQ[i]] = "opening" /\ Fresh(cmdQ[i])
    /\ \A i, j \in 1 .. Len(cmdQ) : cmdQ[i] = cmdQ[j] => i = j

StackInv == TypeOK /\ HandshakePending /\ VisitPending /\ RequestsFresh

Visiting(c) == pc = "send" /\ cur = c
Listening(c) ==
    pc # "exit" /\ (cl[c] \in {"relay", "eof"} \/ (cl[c] = "opening" /\ answer[c] = "ok"))

(* While a client listens, the bytes it got, those on the way in to_app, in *)
(* chunks and in the socket are together the bytes the peer sent: no loss,  *)
(* duplication or reordering between the socket and the client, not even    *)
(* when the peer resets the connection.  Once it saw end of file it has got *)
(* them all.                                                                *)
DownstreamIntact ==
    \A c \in Conns : Listening(c) =>
       /\ got[c] \o FlattenSeq(toApp[c])
            \o (IF Visiting(c) THEN FlattenSeq(chunks) ELSE <<>>)
            \o rx[c]
          = FirstBytes(sent[c])
       /\ cl[c] = "eof" => got[c] = FirstBytes(sent[c])

(* The inductive strengthening of the two properties about bytes.  First,   *)
(* how the table, the socket, the answer and the client's tasks agree.      *)
HandedOver ==
    \A c \in Conns :
       /\ conn[c] = "absent" <=> st[c] = "none"
       /\ conn[c] = "opening" => answer[c] = "none"
       /\ conn[c] = "open" \/ c \in acked => answer[c] = "ok"
       /\ up[c] # "off" => answer[c] = "ok" /\ cl[c] \notin {"idle", "opening"}
       /\ cl[c] = "relay" => up[c] # "off"
       /\ cl[c] = "eof" => conn[c] = "absent" /\ toApp[c] = <<>>

(* Downstream: the chunks of q continue the stream after byte a, none empty. *)
Chain(q, a) ==
    \A i \in 1 .. Len(q) :
       /\ q[i] # <<>>
       /\ \A j \in 1 .. Len(q[i]) : q[i][j] = (IF i = 1 THEN a ELSE Last(q[i - 1])) + j
After(q, a) == IF q = <<>> THEN a ELSE Last(q[Len(q)])

Queued(c) == After(toApp[c], Len(got[c]))
Taken(c)  == IF Visiting(c) THEN After(chunks, Queued(c)) ELSE Queued(c)

InStream(c) ==
    /\ \A i \in 1 .. Len(got[c]) : got[c][i] = i
    /\ Chain(toApp[c], Len(got[c]))
    /\ Visiting(c) => Chain(chunks, Queued(c))
    /\ \A i \in 1 .. Len(rx[c]) : rx[c][i] = Taken(c) + i
    /\ sent[c] = Taken(c) + Len(rx[c])

DownInv ==
    \A c \in Conns :
       /\ answer[c] # "ok" => sent[c] = 0 /\ got[c] = <<>> /\ toApp[c] = <<>>
       /\ conn[c] = "absent" \/ Visiting(c) => rx[c] = <<>>
       /\ Listening(c) => InStream(c)

(* What the peer has acknowledged is what the client wrote, in order; and   *)
(* when the stack sends the FIN of a client's half-close, every byte the    *)
(* client wrote before it is already in front of that FIN.                  *)
FinAfterData ==
    \A c \in Conns :
       /\ delivered[c] \o tx[c] = FirstBytes(Len(delivered[c]) + Len(tx[c]))
       /\ cl[c] = "relay" /\ ~rfin[c] /\ st[c] \in {"FinWait1", "FinWait2"}
             => delivered[c] \o tx[c] = FirstBytes(wrote[c])

(* Upstream: delivered, tx, pending and the client's messages in data_in    *)
(* continue each other while the socket still takes data; a close follows   *)
(* every byte; and what one misses of wrote is the byte the up task holds,   *)
(* or held when it was aborted.                                             *)
Accepts(c)    == st[c] \in {"SynSent", "Established", "CloseWait"}
Accepted(c)   == Len(delivered[c]) + Len(tx[c]) + Len(pending[c])
IsData(c, k)  == dataQ[k].id = c /\ dataQ[k].kind = "Tcp"
IsClose(c, k) == dataQ[k].id = c /\ dataQ[k].kind = "TcpClose"
Held(c) ==
    \/ up[c] = "send"
    \/ up[c] = "done" /\ ~half[c] /\ \A k \in 1 .. Len(dataQ) : ~IsClose(c, k)

Silent(c) ==
    up[c] = "off" =>
       /\ wrote[c] = 0 /\ pending[c] = <<>> /\ tx[c] = <<>> /\ delivered[c] = <<>>
       /\ ~half[c] /\ \A k \in 1 .. Len(dataQ) : dataQ[k].id # c

CloseLast(c) ==
    /\ half[c] => up[c] = "done" /\ \A k \in 1 .. Len(dataQ) : dataQ[k].id # c
    /\ \A k \in 1 .. Len(dataQ) : IsClose(c, k) =>
          up[c] = "done" /\ \A l \in 1 .. Len(dataQ) : dataQ[l].id = c => l <= k

SentInOrder(c) ==
    /\ \A i \in 1 .. Len(delivered[c]) : delivered[c][i] = i
    /\ \A i \in 1 .. Len(tx[c]) : tx[c][i] = Len(delivered[c]) + i

WaitsInOrder(c) ==
    Accepts(c) =>
       /\ \A i \in 1 .. Len(pending[c]) : pending[c][i] = Len(delivered[c]) + Len(tx[c]) + i
       /\ Accepted(c) <= wrote[c] /\ (up[c] = "send" => Accepted(c) < wrote[c])
       /\ \A k \in 1 .. Len(dataQ) : IsData(c, k) =>
             Accepted(c) < dataQ[k].b /\ dataQ[k].b <= wrote[c]
               /\ (up[c] = "send" => dataQ[k].b < wrote[c])
       /\ \A k, l \in 1 .. Len(dataQ) : IsData(c, k) /\ IsData(c, l) /\ k < l =>
             dataQ[k].b < dataQ[l].b
       /\ \A v \in Accepted(c) + 1 .. wrote[c] :
             (\E k \in 1 .. Len(dataQ) : IsData(c, k) /\ dataQ[k].b = v) \/ (v = wrote[c] /\ Held(c))

FinLast(c) ==
    cl[c] \in {"opening", "relay"} /\ st[c] \in {"FinWait1", "FinWait2"} =>
       half[c] /\ Len(delivered[c]) + Len(tx[c]) = wrote[c]

UpInv ==
    \A c \in Conns :
       Silent(c) /\ CloseLast(c) /\ SentInOrder(c) /\ WaitsInOrder(c) /\ FinLast(c)

(* What progress of the clients assumes: the stack gets back to its select  *)
(* again and again, so UDP users take their datagrams and the tunnel drains  *)
(* outbound; and there, since the select is biased, packets do not arrive    *)
(* without a break.                                                         *)
Quiet == []<>(pc = "exit" \/ (pc = "select" /\ ~inbound))

(* Every open_tcp is answered once its peer answers the handshake, as long   *)
(* as the stack keeps turning.                                              *)
OpenAnswered ==
    Quiet => \A c \in Conns : cl[c] = "opening" ~> cl[c] # "opening"

(* A client that closes its write side has its FIN sent, unless the         *)
(* connection ends first, even if the peer never says another word.         *)
HalfCloseForwarded ==
    Quiet => \A c \in Conns :
                up[c] = "close" ~> \/ st[c] \notin {"SynSent", "Established", "CloseWait"}
                                   \/ cl[c] \in Ended

(* However a client's task ends, its table entry and its socket are         *)
(* reclaimed once the peer has closed or reset the connection.              *)
EndedIsReclaimed ==
    Quiet => \A c \in Conns :
                cl[c] \in Ended /\ (rfin[c] \/ st[c] = "Closed") ~> conn[c] = "absent"
=============================================================================
