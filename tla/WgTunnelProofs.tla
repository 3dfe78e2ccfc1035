--------------------------- MODULE WgTunnelProofs ---------------------------
(***************************************************************************)
(* Type correctness and the order on the wire, for every capacity and every   *)
(* number of packets and timer messages.                                     *)
(***************************************************************************)
EXTENDS WgTunnel, TLAPS

USE StackPortAssumption, WgTunnelAssumption DEF StackPortAssumption, WgTunnelAssumption

(* The actions of recv_task, of send_task and of the timer and its tasks. *)
RecvActs  == Recv \/ RecvFails
SendActs  == Send
TimerActs == Timer \/ Jobs
RestActs  == Return \/ PingOver \/ PeerSends

-----------------------------------------------------------------------------

LEMMA TypeInit == Init => TypeOK
<1> SUFFICES ASSUME Init PROVE TypeOK
  OBVIOUS
<1>1. StackTypeOK
  BY DEF Init, StackInit, StackTypeOK
<1>2. noize \in BOOLEAN /\ obf \in BOOLEAN /\ returned \in BOOLEAN
  BY Zenon DEF Init
<1>3. /\ session \in {"none", "started", "up"} /\ caller \in {"serve", "ping", "gone"}
      /\ first \in {"nothing", "junk", "message"}
  BY Zenon DEF Init
<1>4. jobs \in [junk : Nat, message : Nat] /\ sock \in Nat /\ pkts \in 0 .. MaxPkts
      /\ ticks \in 0 .. MaxTimer
  BY DEF Init
<1> QED
  BY <1>1, <1>2, <1>3, <1>4, Zenon DEF Init, TypeOK

LEMMA TypeRecv == TypeOK /\ RecvActs => TypeOK'
<1> SUFFICES ASSUME TypeOK, RecvActs PROVE TypeOK'
  OBVIOUS
<1> USE DEF TypeOK, StackTypeOK, stackVars, edgeVars, runVars
<1>1. CASE RecvReads
  BY <1>1 DEF RecvReads
<1>2. CASE RecvLocks
  BY <1>2 DEF RecvLocks
<1>3. CASE Decapsulate
  BY <1>3 DEF Decapsulate, DropGuard
<1>4. CASE RecvReplies
  BY <1>4 DEF RecvReplies, OnWire
<1>5. CASE Deliver
  BY <1>5 DEF Deliver, InboundRoom
<1>6. CASE RecvFails
  BY <1>6 DEF RecvFails
<1> QED
  BY <1>1, <1>2, <1>3, <1>4, <1>5, <1>6 DEF RecvActs, Recv

LEMMA TypeSend == TypeOK /\ SendActs => TypeOK'
<1> SUFFICES ASSUME TypeOK, SendActs PROVE TypeOK'
  OBVIOUS
<1> USE DEF TypeOK, StackTypeOK, stackVars, edgeVars, runVars
<1>1. CASE SendTakes
  BY <1>1 DEF SendTakes
<1>2. CASE SendLocks
  BY <1>2 DEF SendLocks
<1>3. CASE Encapsulate
  BY <1>3 DEF Encapsulate, ObfuscateDue
<1>4. CASE ApplyObfuscation
  BY <1>4 DEF ApplyObfuscation, OnWire
<1>5. CASE SendOut
  BY <1>5 DEF SendOut, OnWire
<1>6. CASE SendEnds
  BY <1>6 DEF SendEnds
<1> QED
  BY <1>1, <1>2, <1>3, <1>4, <1>5, <1>6 DEF SendActs, Send

LEMMA TypeTimer == TypeOK /\ TimerActs => TypeOK'
<1> SUFFICES ASSUME TypeOK, TimerActs PROVE TypeOK'
  OBVIOUS
<1> USE DEF TypeOK, StackTypeOK, stackVars, edgeVars, runVars
<1>1. CASE TimerTicks
  BY <1>1 DEF TimerTicks
<1>2. CASE TimerLocks
  BY <1>2 DEF TimerLocks
<1>3. CASE UpdateTimers
  <2>1. jobs' \in [junk : Nat, message : Nat]
    BY <1>3 DEF UpdateTimers
  <2>2. timer' \in {"tick", "out"} /\ session' \in {"none", "started", "up"}
    BY <1>3 DEF UpdateTimers
  <2>3. ticks' \in 0 .. MaxTimer
    BY <1>3 DEF UpdateTimers
  <2> QED
    BY <1>3, <2>1, <2>2, <2>3 DEF UpdateTimers
<1>4. CASE TimerOut
  BY <1>4 DEF TimerOut, OnWire
<1>5. CASE KeepaliveJunk
  <2>1. jobs.junk - 1 \in Nat /\ jobs.message + 1 \in Nat
    BY <1>5 DEF KeepaliveJunk
  <2>2. jobs' \in [junk : Nat, message : Nat]
    BY <1>5, <2>1 DEF KeepaliveJunk
  <2> QED
    BY <1>5, <2>2 DEF KeepaliveJunk, OnWire
<1>6. CASE KeepaliveOut
  BY <1>6 DEF KeepaliveOut, OnWire
<1> QED
  BY <1>1, <1>2, <1>3, <1>4, <1>5, <1>6 DEF TimerActs, Timer, Jobs

LEMMA TypeRest == TypeOK /\ RestActs => TypeOK'
<1> SUFFICES ASSUME TypeOK, RestActs PROVE TypeOK'
  OBVIOUS
<1> USE DEF TypeOK, StackTypeOK, stackVars, taskVars, edgeVars, runVars
<1>1. CASE Return
  BY <1>1 DEF Return
<1>2. CASE PingOver
  BY <1>2 DEF PingOver
<1>3. CASE PeerSends
  BY <1>3 DEF PeerSends
<1> QED
  BY <1>1, <1>2, <1>3 DEF RestActs

(* The stack's own steps keep its counters within the channels. *)
LEMMA TypeStack == TypeOK /\ (Stack \/ Client) => TypeOK'
<1> SUFFICES ASSUME TypeOK, Stack \/ Client PROVE TypeOK'
  OBVIOUS
<1>1. StackTypeOK'
  <2> USE DEF TypeOK, StackTypeOK
  <2>1. CASE Poll(TRUE)
    <3>1. PICK own \in 0 .. MaxApp - app, ack \in 0 .. rx :
              tx' = tx + own + ack /\ app' = app + own
      BY <2>1 DEF Poll
    <3> QED
      BY <2>1, <3>1 DEF Poll
  <2>2. CASE FlushOne(OutboundOpen)
    BY <2>2 DEF FlushOne
  <2>3. CASE FlushOver(OutboundOpen)
    BY <2>3 DEF FlushOver
  <2>4. CASE TakeInbound
    BY <2>4 DEF TakeInbound
  <2>5. CASE WokenByClient(InboundOpen /\ caller # "gone")
    BY <2>5 DEF WokenByClient
  <2>6. CASE InboundCloses(InboundOpen) \/ HandlesGone
    BY <2>6 DEF InboundCloses, HandlesGone
  <2>7. CASE ClientTakes
    BY <2>7 DEF ClientTakes
  <2> QED
    BY <2>1, <2>2, <2>3, <2>4, <2>5, <2>6, <2>7 DEF Stack, Client
<1>2. UNCHANGED <<lock, recv, send, timer, jobs, session, noize, obf, caller, returned, sock,
                  pkts, ticks, first>>
  BY DEF Stack, Client, taskVars, runVars, edgeVars
<1> QED
  BY <1>1, <1>2 DEF TypeOK

LEMMA TypeStep == TypeOK /\ [Next]_vars => TypeOK'
<1>1. TypeOK /\ UNCHANGED vars => TypeOK'
  BY DEF TypeOK, StackTypeOK, vars, stackVars, taskVars, runVars, edgeVars
<1> QED
  BY <1>1, TypeRecv, TypeSend, TypeTimer, TypeRest, TypeStack
     DEF Next, RecvActs, SendActs, TimerActs, RestActs

(* Every reachable state is well typed, and no channel between the tunnel's    *)
(* tasks and the stack ever holds more than its capacity.                     *)
THEOREM TypeCorrect == Spec => []TypeOK
BY TypeInit, TypeStep, PTL DEF Spec

-----------------------------------------------------------------------------
(* Why junk comes first: until something is on the wire the peer is silent,    *)
(* so recv_task has nothing to answer; a spawned task has its message only     *)
(* after its junk; and obf_sent is set only by a send_task that is about to    *)
(* send junk.                                                                *)

Silent ==
    /\ send # "out" /\ recv \in {"recv", "ended"} /\ sock = 0 /\ jobs.message = 0
    /\ obf => send = "junk"

JunkInv == noize => first # "message" /\ timer # "out" /\ (first = "nothing" => Silent)

LEMMA JunkStep == TypeOK /\ JunkInv /\ [Next]_vars => JunkInv'
<1> SUFFICES ASSUME TypeOK, JunkInv, [Next]_vars PROVE JunkInv'
  OBVIOUS
<1> USE DEF JunkInv, Silent, OnWire
<1>1. CASE RecvActs
  <2>1. CASE RecvReads
    <3>1. sock # 0
      BY <2>1 DEF RecvReads, TypeOK
    <3> QED
      BY <2>1, <3>1 DEF RecvReads
  <2>2. CASE Decapsulate
    BY <2>2 DEF Decapsulate, edgeVars
  <2>3. CASE RecvReplies
    BY <2>3 DEF RecvReplies, edgeVars
  <2>4. CASE Deliver
    BY <2>4 DEF Deliver, edgeVars
  <2>5. CASE RecvLocks
    BY <2>5 DEF RecvLocks, edgeVars
  <2>6. CASE RecvFails
    BY <2>6 DEF RecvFails, edgeVars
  <2> QED
    BY <1>1, <2>1, <2>2, <2>3, <2>4, <2>5, <2>6 DEF RecvActs, Recv
<1>2. CASE SendActs
  <2>1. CASE SendTakes \/ SendLocks \/ SendEnds
    BY <2>1 DEF SendTakes, SendLocks, SendEnds, edgeVars
  <2>2. CASE Encapsulate
    BY <2>2 DEF Encapsulate, ObfuscateDue, edgeVars, TypeOK
  <2>3. CASE ApplyObfuscation \/ SendOut
    BY <2>3 DEF ApplyObfuscation, SendOut, edgeVars
  <2> QED
    BY <1>2, <2>1, <2>2, <2>3 DEF SendActs, Send
<1>3. CASE TimerActs
  <2>1. CASE TimerTicks \/ TimerLocks \/ TimerOut
    BY <2>1 DEF TimerTicks, TimerLocks, TimerOut, edgeVars
  <2>2. CASE UpdateTimers
    BY <2>2 DEF UpdateTimers, TimerObfuscates, edgeVars, TypeOK
  <2>3. CASE KeepaliveJunk
    BY <2>3, Zenon DEF KeepaliveJunk, TypeOK
  <2>4. CASE KeepaliveOut
    <3>1. jobs.message # 0
      BY <2>4 DEF KeepaliveOut
    <3> QED
      BY <2>4, <3>1 DEF KeepaliveOut
  <2> QED
    BY <1>3, <2>1, <2>2, <2>3, <2>4 DEF TimerActs, Timer, Jobs
<1>4. CASE RestActs
  BY <1>4 DEF RestActs, Return, PingOver, PeerSends, taskVars, edgeVars
<1>5. CASE Stack \/ Client \/ UNCHANGED vars
  BY <1>5 DEF Stack, Client, vars, taskVars, edgeVars
<1> QED
  BY <1>1, <1>2, <1>3, <1>4, <1>5 DEF Next, RecvActs, SendActs, TimerActs, RestActs

(* With an obfuscation profile the first datagram of a tunnel is never a       *)
(* WireGuard message, whichever task speaks first and however the tasks        *)
(* interleave.                                                               *)
THEOREM JunkBeforeMessages == Spec => []JunkFirst
<1>1. Init => JunkInv
  BY DEF Init, JunkInv, Silent
<1>2. JunkInv => JunkFirst
  BY DEF JunkInv, JunkFirst
<1> QED
  BY <1>1, <1>2, JunkStep, TypeCorrect, PTL DEF Spec
=============================================================================
