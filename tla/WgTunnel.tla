------------------------------ MODULE WgTunnel ------------------------------
(***************************************************************************)
(* The WireGuard tunnel (wireguard.rs, WgTunnel::run) with the stack task at  *)
(* the other end of its channels.  Three tasks share the boringtun state      *)
(* under one mutex: one reads the socket and hands packets to the stack, one  *)
(* sends what the stack wants sent, one drives the timers.  run returns when  *)
(* the first of them ends; the others are detached, not stopped.             *)
(*                                                                         *)
(* On the wire the model tells obfuscation junk from WireGuard messages, and  *)
(* keeps what was first.                                                     *)
(***************************************************************************)
EXTENDS StackPort

CONSTANTS MaxPkts,   \* bound: datagrams from the peer
          MaxTimer   \* bound: messages the timers cause

ASSUME WgTunnelAssumption == MaxPkts \in Nat /\ MaxTimer \in Nat

VARIABLES
    lock,     \* the mutex around tunn: "free" or the task that holds it
    recv,     \* recv_task: "recv", "lock", "decap", "reply", "deliver", "ended"
    send,     \* send_task: "recv", "lock", "encap", "junk", "out", "ended"
    timer,    \* timer_task: "tick", "lock", "update", "out"
    jobs,     \* tasks the timer spawned: how many have junk, how many a message to send
    session,  \* boringtun: "none", "started" (handshake sent) or "up"
    noize,    \* aethernoize.is_enabled()
    obf,      \* obf_sent
    caller,   \* who runs the tunnel: "serve", "ping" (tunnelping.rs) or "gone"
    returned, \* has run returned, or been aborted
    sock,     \* datagrams waiting at the socket
    pkts,     \* datagrams of the peer so far
    ticks,    \* messages of the timers so far
    first     \* ghost: what was first on the wire: "nothing", "junk" or "message"

taskVars == <<recv, send, timer, jobs>>
runVars  == <<caller, returned>>
edgeVars == <<sock, pkts>>
vars == <<stackVars, lock, taskVars, session, noize, obf, runVars, edgeVars, ticks, first>>

(* new starts from nothing; from_established takes over the session of a      *)
(* probe, which has sent its junk and its messages already.                  *)
Init ==
    /\ StackInit
    /\ lock = "free" /\ recv = "recv" /\ send = "recv" /\ timer = "tick"
    /\ jobs = [junk |-> 0, message |-> 0] /\ noize \in BOOLEAN
    /\ returned = FALSE /\ sock = 0 /\ pkts = 0 /\ ticks = 0
    /\ \/ caller = "serve" /\ session = "none" /\ obf = FALSE /\ first = "nothing"
       \/ caller = "ping" /\ session = "up" /\ obf = TRUE
          /\ first = IF noize THEN "junk" ELSE "message"

OnWire(what) == first' = IF first = "nothing" THEN what ELSE first

-----------------------------------------------------------------------------
(* recv_task.  strip_client_id has no state; a decapsulated datagram is       *)
(* nothing of interest, part of a handshake, which is answered, or a packet    *)
(* for the stack.  The guard is dropped before either is sent.                *)

RecvReads ==
    /\ recv = "recv" /\ sock > 0
    /\ sock' = sock - 1 /\ recv' = "lock"
    /\ UNCHANGED <<stackVars, lock, send, timer, jobs, session, noize, obf, runVars, pkts,
                   ticks, first>>

RecvLocks ==
    /\ recv = "lock" /\ lock = "free"
    /\ lock' = "recv" /\ recv' = "decap"
    /\ UNCHANGED <<stackVars, send, timer, jobs, session, noize, obf, runVars, edgeVars,
                   ticks, first>>

HoldWhileDelivering(to) == lock' = IF to = "deliver" THEN "recv" ELSE "free"
DropGuard(to)           == lock' = "free"

Decapsulate ==
    /\ recv = "decap"
    /\ \E to \in {"recv", "reply", "deliver"} :
          /\ to = "deliver" => session = "up"
          /\ recv' = to /\ DropGuard(to)
          /\ session' = IF to = "reply" THEN "up" ELSE session
    /\ UNCHANGED <<stackVars, send, timer, jobs, noize, obf, runVars, edgeVars, ticks,
                   first>>

RecvReplies ==
    /\ recv = "reply"
    /\ recv' = "recv" /\ OnWire("message")
    /\ UNCHANGED <<stackVars, lock, send, timer, jobs, session, noize, obf, runVars,
                   edgeVars, ticks>>

(* inbound_tx.send waits for room; its error, once the stack has gone, is     *)
(* ignored.  A guard still held would end with the scope.                    *)
Deliver ==
    /\ recv = "deliver" /\ (InboundRoom \/ stack = "done")
    /\ recv' = "recv"
    /\ inQ' = IF stack = "done" THEN inQ ELSE inQ + 1
    /\ lock' = IF lock = "recv" THEN "free" ELSE lock
    /\ UNCHANGED <<stack, rx, tx, outQ, app, send, timer, jobs, session, noize, obf,
                   runVars, edgeVars, ticks, first>>

(* An error of the socket ends the task. *)
RecvFails ==
    /\ recv = "recv"
    /\ recv' = "ended"
    /\ UNCHANGED <<stackVars, lock, send, timer, jobs, session, noize, obf, runVars,
                   edgeVars, ticks, first>>

-----------------------------------------------------------------------------
(* send_task.  The first message is preceded by apply_obfuscation; junk after *)
(* the handshake goes out from a task of its own and is left out, since it    *)
(* follows a message.                                                        *)

SendTakes ==
    /\ send = "recv" /\ outQ > 0
    /\ outQ' = outQ - 1 /\ send' = "lock"
    /\ UNCHANGED <<stack, rx, tx, inQ, app, lock, recv, timer, jobs, session, noize, obf,
                   runVars, edgeVars, ticks, first>>

SendLocks ==
    /\ send = "lock" /\ lock = "free"
    /\ lock' = "send" /\ send' = "encap"
    /\ UNCHANGED <<stackVars, recv, timer, jobs, session, noize, obf, runVars, edgeVars,
                   ticks, first>>

(* Without a session the packet is queued in boringtun, and the first one     *)
(* causes a handshake message.                                               *)
ObfuscateDue == noize /\ ~obf

Encapsulate ==
    /\ send = "encap"
    /\ lock' = "free"
    /\ IF session = "started" THEN send' = "recv" /\ UNCHANGED <<session, obf>>
       ELSE /\ session' = IF session = "none" THEN "started" ELSE session
            /\ send' = IF ObfuscateDue THEN "junk" ELSE "out"
            /\ obf' = (obf \/ ObfuscateDue)
    /\ UNCHANGED <<stackVars, recv, timer, jobs, noize, runVars, edgeVars, ticks, first>>

ApplyObfuscation ==
    /\ send = "junk"
    /\ send' = "out" /\ OnWire("junk")
    /\ UNCHANGED <<stackVars, lock, recv, timer, jobs, session, noize, obf, runVars,
                   edgeVars, ticks>>

SendOut ==
    /\ send = "out"
    /\ send' = "recv" /\ OnWire("message")
    /\ UNCHANGED <<stackVars, lock, recv, timer, jobs, session, noize, obf, runVars,
                   edgeVars, ticks>>

(* outbound_rx yields None once the stack has gone and the channel is empty.  *)
SendEnds ==
    /\ send = "recv" /\ outQ = 0 /\ stack = "done"
    /\ send' = "ended"
    /\ UNCHANGED <<stackVars, lock, recv, timer, jobs, session, noize, obf, runVars,
                   edgeVars, ticks, first>>

-----------------------------------------------------------------------------
(* timer_task, which never ends.  Its message goes out at once or, with       *)
(* obfuscation, from a spawned task after junk; boringtun may also drop a     *)
(* session that has expired.                                                 *)

TimerTicks ==
    /\ timer = "tick" /\ ticks < MaxTimer
    /\ timer' = "lock"
    /\ UNCHANGED <<stackVars, lock, recv, send, jobs, session, noize, obf, runVars,
                   edgeVars, ticks, first>>

TimerLocks ==
    /\ timer = "lock" /\ lock = "free"
    /\ lock' = "timer" /\ timer' = "update"
    /\ UNCHANGED <<stackVars, recv, send, jobs, session, noize, obf, runVars, edgeVars,
                   ticks, first>>

TimerSendsBare == FALSE
TimerObfuscates == noize

UpdateTimers ==
    /\ timer = "update"
    /\ lock' = "free"
    /\ \/ timer' = "tick" /\ session' \in {session, "none"} /\ UNCHANGED <<jobs, ticks>>
       \/ /\ ticks < MaxTimer /\ ticks' = ticks + 1
          /\ session' = IF session = "none" THEN "started" ELSE session
          /\ IF TimerObfuscates
             THEN jobs' = [jobs EXCEPT !.junk = @ + 1] /\ timer' = "tick"
             ELSE timer' = "out" /\ UNCHANGED jobs
    /\ UNCHANGED <<stackVars, recv, send, noize, obf, runVars, edgeVars, first>>

TimerOut ==
    /\ timer = "out"
    /\ timer' = "tick" /\ OnWire("message")
    /\ UNCHANGED <<stackVars, lock, recv, send, jobs, session, noize, obf, runVars,
                   edgeVars, ticks>>

KeepaliveJunk ==
    /\ jobs.junk > 0
    /\ jobs' = [junk |-> jobs.junk - 1, message |-> jobs.message + 1] /\ OnWire("junk")
    /\ UNCHANGED <<stackVars, lock, recv, send, timer, session, noize, obf, runVars,
                   edgeVars, ticks>>

KeepaliveOut ==
    /\ jobs.message > 0
    /\ jobs' = [jobs EXCEPT !.message = @ - 1] /\ OnWire("message")
    /\ UNCHANGED <<stackVars, lock, recv, send, timer, session, noize, obf, runVars,
                   edgeVars, ticks>>

-----------------------------------------------------------------------------
(* run returns with the first task that ends, and drops its inbound_tx.       *)
Return ==
    /\ ~returned /\ (recv = "ended" \/ send = "ended")
    /\ returned' = TRUE
    /\ UNCHANGED <<stackVars, lock, taskVars, session, noize, obf, caller, edgeVars, ticks,
                   first>>

(* A ping that is over, or out of time, aborts run and drops its handle of     *)
(* the stack; the three tasks go on.                                         *)
PingOver ==
    /\ caller = "ping"
    /\ caller' = "gone" /\ returned' = TRUE
    /\ UNCHANGED <<stackVars, lock, taskVars, session, noize, obf, edgeVars, ticks, first>>

(* The peer answers once it has heard of this endpoint (external). *)
PeerSends ==
    /\ first # "nothing" /\ pkts < MaxPkts
    /\ pkts' = pkts + 1 /\ sock' = sock + 1
    /\ UNCHANGED <<stackVars, lock, taskVars, session, noize, obf, runVars, ticks, first>>

(* inbound has two senders, that of recv_task and that of run. *)
InboundKept  == TRUE
InboundOpen  == recv # "ended" \/ ~returned
OutboundOpen == send # "ended"

(* cmd_rx yields None once every handle is gone; the select looks there after  *)
(* inbound and before anything else.                                         *)
HandlesGone ==
    /\ stack = "select" /\ inQ = 0 /\ caller = "gone"
    /\ stack' = "done"
    /\ UNCHANGED <<rx, tx, inQ, outQ, app>>

Stack ==
    /\ \/ Poll(TRUE) \/ FlushOne(OutboundOpen) \/ FlushOver(OutboundOpen)
       \/ TakeInbound \/ WokenByClient(InboundOpen /\ caller # "gone")
       \/ InboundCloses(InboundOpen) \/ HandlesGone
    /\ UNCHANGED <<lock, taskVars, session, noize, obf, runVars, edgeVars, ticks, first>>

Client ==
    /\ ClientTakes
    /\ UNCHANGED <<lock, taskVars, session, noize, obf, runVars, edgeVars, ticks, first>>

Recv  == RecvReads \/ RecvLocks \/ Decapsulate \/ RecvReplies \/ Deliver
Send  == SendTakes \/ SendLocks \/ Encapsulate \/ ApplyObfuscation \/ SendOut \/ SendEnds
Timer == TimerTicks \/ TimerLocks \/ UpdateTimers \/ TimerOut
Jobs  == KeepaliveJunk \/ KeepaliveOut

Next ==
    \/ Recv \/ RecvFails \/ Send \/ Timer \/ Jobs \/ Return \/ PingOver \/ Stack \/ Client
    \/ PeerSends

Spec == Init /\ [][Next]_vars

(* Every task runs, and tokio's mutex serves its waiters in turn; a client   *)
(* owes nothing.                                                             *)
FairSpec ==
    /\ Spec /\ WF_vars(Recv) /\ WF_vars(Send) /\ WF_vars(Timer) /\ WF_vars(Jobs)
    /\ WF_vars(Return) /\ WF_vars(Stack) /\ SF_vars(RecvLocks) /\ SF_vars(SendLocks)

-----------------------------------------------------------------------------
(* Properties. *)

(* Every variable keeps its type, and the channels their capacity.           *)
TypeOK ==
    /\ StackTypeOK
    /\ lock \in {"free", "recv", "send", "timer"}
    /\ recv \in {"recv", "lock", "decap", "reply", "deliver", "ended"}
    /\ send \in {"recv", "lock", "encap", "junk", "out", "ended"}
    /\ timer \in {"tick", "lock", "update", "out"} /\ jobs \in [junk : Nat, message : Nat]
    /\ session \in {"none", "started", "up"} /\ noize \in BOOLEAN /\ obf \in BOOLEAN
    /\ caller \in {"serve", "ping", "gone"} /\ returned \in BOOLEAN
    /\ sock \in Nat /\ pkts \in 0 .. MaxPkts /\ ticks \in 0 .. MaxTimer
    /\ first \in {"nothing", "junk", "message"}

(* "Traffic obfuscation": with a profile that is on, no WireGuard message is  *)
(* the first thing the peer's network sees, whichever of the tasks speaks     *)
(* first.                                                                    *)
JunkFirst == noize => first # "message"

(* The stack always gets its packets out: it is never left waiting in         *)
(* flush_tx, even while recv_task waits for the stack to take packets, since  *)
(* no task keeps the mutex while it waits for the socket or the stack.        *)
FlushEnds == (stack = "flush") ~> (stack # "flush")

(* When the tunnel has ended, the stack and the send task end after it,       *)
(* provided no client leaves the stack waiting in service_tcp or service_udp. *)
(* The timer task stays, and so does recv_task when it was not the one that   *)
(* ended.                                                                    *)
TasksFollow == Served => (returned ~> (stack = "done" /\ send = "ended"))
=============================================================================
