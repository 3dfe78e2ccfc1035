----------------------------- MODULE StackPort -----------------------------
(***************************************************************************)
(* The stack task (netstack.rs, run) as a tunnel meets it: the one reader of *)
(* the inbound channel and the one writer of the outbound channel.  It polls *)
(* smoltcp, waits in service_tcp and service_udp until the clients have taken *)
(* what came for them, waits in flush_tx until every packet it made is in     *)
(* the channel, and only then selects again.  Packets are counted; what the   *)
(* SOCKS5 clients want sent is a budget.                                      *)
(***************************************************************************)
EXTENDS Naturals

CONSTANTS InCap, OutCap,  \* capacities of inbound and outbound (1024 each)
          Ingest,         \* MAX_INGEST_PER_TICK
          MaxApp          \* bound: packets the SOCKS5 clients cause

ASSUME StackPortAssumption ==
    InCap \in Nat \ {0} /\ OutCap \in Nat \ {0} /\ Ingest \in Nat /\ MaxApp \in Nat

VARIABLES
    stack,  \* "poll", "serve", "flush", "select" or "done"
    rx, tx, \* packets in the device's two queues
    inQ,    \* packets in the inbound channel
    outQ,   \* packets in the outbound channel
    app     \* packets the clients caused so far

stackVars == <<stack, rx, tx, inQ, outQ, app>>

StackInit == stack = "select" /\ rx = 0 /\ tx = 0 /\ inQ = 0 /\ outQ = 0 /\ app = 0

(* iface.poll takes every packet received and answers each with at most one, *)
(* and, once there are clients, sends their data.  A client whose channel is  *)
(* full then keeps the stack in service_tcp or service_udp.                   *)
Poll(clients) ==
    /\ stack = "poll"
    /\ stack' \in (IF clients THEN {"serve", "flush"} ELSE {"flush"}) /\ rx' = 0
    /\ \E own \in 0 .. (IF clients THEN MaxApp - app ELSE 0), ack \in 0 .. rx :
          tx' = tx + own + ack /\ app' = app + own
    /\ UNCHANGED <<inQ, outQ>>

(* to_app.send returns: the client made room, or has gone.  Nothing in this    *)
(* program makes it, so the step is under no fairness.                        *)
ClientTakes ==
    /\ stack = "serve"
    /\ stack' = "flush"
    /\ UNCHANGED <<rx, tx, inQ, outQ, app>>

(* flush_tx waits for room, packet by packet; it gives up when the receiver   *)
(* is gone.                                                                  *)
FlushOne(open) ==
    /\ stack = "flush" /\ tx > 0 /\ open /\ outQ < OutCap
    /\ tx' = tx - 1 /\ outQ' = outQ + 1
    /\ UNCHANGED <<stack, rx, inQ, app>>

FlushOnlyEmpty(open) ==
    /\ stack = "flush" /\ tx = 0
    /\ stack' = "select"
    /\ UNCHANGED <<rx, tx, inQ, outQ, app>>

FlushOver(open) ==
    /\ stack = "flush" /\ (tx = 0 \/ ~open)
    /\ stack' = "select" /\ tx' = IF tx = 0 THEN 0 ELSE tx - 1
    /\ UNCHANGED <<rx, inQ, outQ, app>>

(* The select prefers inbound, from which it takes a batch; otherwise a       *)
(* command, client data or the timer makes it poll again.                    *)
TakeInbound ==
    /\ stack = "select" /\ inQ > 0
    /\ LET n == IF inQ > Ingest THEN Ingest + 1 ELSE inQ IN rx' = rx + n /\ inQ' = inQ - n
    /\ stack' = "poll"
    /\ UNCHANGED <<tx, outQ, app>>

WokenByClient(open) ==
    /\ stack = "select" /\ inQ = 0 /\ open /\ app < MaxApp
    /\ stack' = "poll"
    /\ UNCHANGED <<rx, tx, inQ, outQ, app>>

(* inbound_rx yields None once every sender is gone and the channel is empty. *)
InboundCloses(open) ==
    /\ stack = "select" /\ inQ = 0 /\ ~open
    /\ stack' = "done"
    /\ UNCHANGED <<rx, tx, inQ, outQ, app>>

(* What the progress of a tunnel rests on: no client leaves the stack waiting  *)
(* for ever.                                                                 *)
Served == []<>(stack # "serve")

(* What a tunnel needs to send towards the stack. *)
InboundRoom == inQ < InCap

StackTypeOK ==
    /\ stack \in {"poll", "serve", "flush", "select", "done"} /\ rx \in Nat /\ tx \in Nat
    /\ inQ \in 0 .. InCap /\ outQ \in 0 .. OutCap /\ app \in 0 .. MaxApp
=============================================================================
