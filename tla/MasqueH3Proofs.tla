--------------------------- MODULE MasqueH3Proofs ---------------------------
(***************************************************************************)
(* Type correctness of the HTTP/3 tunnel, the traffic behind its validation,  *)
(* and its refinement of Tunnel, for every edge, timing and capacity.         *)
(***************************************************************************)
EXTENDS MasqueH3, TLAPS

USE StackPortAssumption, MasqueH3Assumption DEF StackPortAssumption, MasqueH3Assumption

(* The branches of the select, which all end in AfterSelect. *)
Branches == IntervalTick \/ NetPacket \/ Outbound \/ OnTimeout
Drains   == DrainDatagram \/ DrainDone
Flushes  == Flush \/ FlushFails
Outside  == Tick \/ EdgeGoes \/ \E k \in Kinds, n \in Conns : EdgeSends(k, n)

LEMMA NextSplit ==
    [Next]_vars => Top \/ Branches \/ Drains \/ Flushes \/ Outside \/ Stack \/ Client
                    \/ UNCHANGED vars
BY DEF Next, Run, Branches, Drains, Flushes, Outside

-----------------------------------------------------------------------------
(* TypeOK is not inductive alone: a second connection belongs to the one       *)
(* retry.                                                                    *)

OneRetry == ech # "retry" => cn = 1
TypeInv  == TypeOK /\ OneRetry

LEMMA TypeInit == Init => TypeInv
<1> SUFFICES ASSUME Init PROVE TypeInv
  OBVIOUS
<1>1. StackTypeOK
  BY DEF Init, StackInit, StackTypeOK
<1>2. check \in BOOLEAN /\ ready \in BOOLEAN /\ ever \in BOOLEAN /\ offered \in BOOLEAN
      /\ got \in BOOLEAN /\ due \in BOOLEAN
  BY Zenon DEF Init
<1>3. net \in Seq(Kinds \X Conns) /\ Len(net) <= NetCap /\ pkts \in 0 .. MaxPkts
  BY DEF Init
<1>4. succ \in Nat /\ dgrams \in Nat /\ inbound \in Nat /\ cn \in Conns
  BY DEF Init, Conns
<1>5. ech \in {"none", "given", "retry"} /\ OneRetry
  BY DEF Init, OneRetry
<1> QED
  BY <1>1, <1>2, <1>3, <1>4, <1>5, Zenon DEF Init, TypeInv, TypeOK

(* What AfterSelect leaves behind, whichever branch comes before it. *)
LEMMA TypeAfterSelect ==
    ASSUME TypeInv, NEW c \in {"handshake", "established", "closed"}, AfterSelect(c)
    PROVE  /\ pc' \in {"drain", "ended"} /\ got' = FALSE /\ conn' = c
           /\ check' = check /\ succ' = succ /\ ready' \in BOOLEAN
           /\ vleft' \in 0 .. ValidateTicks \cup {NoTimer}
           /\ ever' \in BOOLEAN /\ req' \in Conns \cup {NoStream} /\ ech' = ech /\ cn' = cn
           /\ edge' = edge /\ pkts' = pkts /\ inbound' = inbound
<1>1. CASE c = "established" /\ req = NoStream
  <2>1. CASE check
    BY <1>1, <2>1 DEF AfterSelect, Checked, TypeInv, TypeOK, edgeVars
  <2>2. CASE ~check
    BY <1>1, <2>2 DEF AfterSelect, Checked, TypeInv, TypeOK, edgeVars
  <2> QED
    BY <2>1, <2>2
<1>2. CASE ~(c = "established" /\ req = NoStream)
  BY <1>2 DEF AfterSelect, TypeInv, TypeOK, edgeVars
<1> QED
  BY <1>1, <1>2

LEMMA TypeBranches == TypeInv /\ Branches => TypeInv'
<1> SUFFICES ASSUME TypeInv, Branches PROVE TypeInv'
  OBVIOUS
<1> USE DEF TypeInv, TypeOK, OneRetry, StackTypeOK, stackVars
<1>1. CASE IntervalTick
  BY <1>1, TypeAfterSelect DEF IntervalTick
<1>2. CASE NetPacket
  <2> DEFINE p == Head(net)
  <2>1. net # <<>> /\ net' = Tail(net) /\ AfterSelect(Receives(p)) /\ due' = due
        /\ dgrams' \in {dgrams, dgrams + 1} /\ UNCHANGED stackVars
    BY <1>2 DEF NetPacket
  <2>2. Receives(p) \in {"handshake", "established", "closed"}
    BY DEF Receives
  <2>3. net' \in Seq(Kinds \X Conns) /\ Len(net') <= NetCap
    BY <2>1
  <2>4. offered' \in BOOLEAN
    BY <1>2, Zenon DEF NetPacket
  <2> HIDE DEF p
  <2>5. dgrams' \in Nat
    BY <2>1
  <2> QED
    BY <2>1, <2>2, <2>3, <2>4, <2>5, TypeAfterSelect
<1>3. CASE Outbound
  <2>1. AfterSelect(conn) /\ outQ' \in 0 .. OutCap
        /\ UNCHANGED <<stack, rx, tx, inQ, app, offered, dgrams, due, net>>
    BY <1>3 DEF Outbound, OutboundTurn
  <2> QED
    BY <2>1, TypeAfterSelect
<1>4. CASE OnTimeout
  BY <1>4, TypeAfterSelect DEF OnTimeout, OutboundTurn
<1> QED
  BY <1>1, <1>2, <1>3, <1>4 DEF Branches

LEMMA TypeLoop == TypeInv /\ (Top \/ Drains \/ Flushes) => TypeInv'
<1> SUFFICES ASSUME TypeInv, Top \/ Drains \/ Flushes PROVE TypeInv'
  OBVIOUS
<1> USE DEF TypeInv, TypeOK, OneRetry, StackTypeOK, stackVars, validVars, connVars, drainVars,
            edgeVars
<1>1. CASE Top
  BY <1>1 DEF Top
<1>2. CASE DrainDatagram
  BY <1>2 DEF DrainDatagram, InboundRoom
<1>3. CASE DrainDone
  <2>1. CASE got /\ ~ready
    <3>1. CASE Validated(succ + 1)
      BY <1>3, <2>1, <3>1 DEF DrainDone
    <3>2. CASE ~Validated(succ + 1)
      BY <1>3, <2>1, <3>2 DEF DrainDone
    <3> QED
      BY <3>1, <3>2
  <2>2. CASE ~(got /\ ~ready)
    BY <1>3, <2>2 DEF DrainDone
  <2> QED
    BY <2>1, <2>2
<1>4. CASE Flush
  <2>1. CASE conn = "closed" /\ RetryDue
    <3>1. cn = 1 /\ cn' = 2
      BY <1>4, <2>1 DEF Flush, RetryDue, Conns
    <3> QED
      BY <1>4, <2>1, <3>1 DEF Flush, Conns
  <2>2. CASE ~(conn = "closed" /\ RetryDue)
    BY <1>4, <2>2 DEF Flush
  <2> QED
    BY <2>1, <2>2
<1>5. CASE FlushFails
  BY <1>5 DEF FlushFails
<1> QED
  BY <1>1, <1>2, <1>3, <1>4, <1>5 DEF Drains, Flushes

LEMMA TypeOutside == TypeInv /\ Outside => TypeInv'
<1> SUFFICES ASSUME TypeInv, Outside PROVE TypeInv'
  OBVIOUS
<1> USE DEF TypeInv, TypeOK, OneRetry, StackTypeOK, stackVars, validVars, connVars, drainVars,
            edgeVars
<1>1. CASE Tick
  <2>1. vleft' \in 0 .. ValidateTicks \cup {NoTimer}
    BY <1>1 DEF Tick
  <2> QED
    BY <1>1, <2>1 DEF Tick
<1>2. CASE EdgeGoes
  BY <1>2 DEF EdgeGoes
<1>3. CASE \E k \in Kinds, n \in Conns : EdgeSends(k, n)
  <2>1. PICK k \in Kinds, n \in Conns : EdgeSends(k, n)
    BY <1>3
  <2>2. net' \in Seq(Kinds \X Conns) /\ Len(net') <= NetCap
    BY <2>1 DEF EdgeSends
  <2> QED
    BY <2>1, <2>2 DEF EdgeSends
<1> QED
  BY <1>1, <1>2, <1>3 DEF Outside

LEMMA TypeStack == TypeInv /\ (Stack \/ Client) => TypeInv'
<1> SUFFICES ASSUME TypeInv, Stack \/ Client PROVE TypeInv'
  OBVIOUS
<1>1. StackTypeOK'
  <2> USE DEF TypeInv, TypeOK, StackTypeOK, Stack, Client
  <2>1. CASE Poll(ready)
    <3>1. PICK own \in 0 .. MaxApp, ack \in 0 .. rx :
              own <= MaxApp - app /\ tx' = tx + own + ack /\ app' = app + own
      BY <2>1 DEF Poll
    <3> QED
      BY <2>1, <3>1 DEF Poll
  <2>2. CASE FlushOne(Open)
    BY <2>2 DEF FlushOne
  <2>3. CASE FlushOver(Open)
    BY <2>3 DEF FlushOver
  <2>4. CASE TakeInbound
    BY <2>4 DEF TakeInbound
  <2>5. CASE WokenByClient(Open) \/ InboundCloses(Open)
    BY <2>5 DEF WokenByClient, InboundCloses
  <2>6. CASE ClientTakes
    BY <2>6 DEF ClientTakes
  <2> QED
    BY <2>1, <2>2, <2>3, <2>4, <2>5, <2>6
<1> QED
  BY <1>1 DEF Stack, Client, TypeInv, TypeOK, OneRetry, validVars, connVars, drainVars, edgeVars

LEMMA TypeStep == TypeInv /\ [Next]_vars => TypeInv'
<1>1. TypeInv /\ UNCHANGED vars => TypeInv'
  BY DEF TypeInv, TypeOK, OneRetry, StackTypeOK, vars, stackVars, validVars, connVars,
         drainVars, edgeVars
<1> QED
  BY <1>1, NextSplit, TypeBranches, TypeLoop, TypeOutside, TypeStack

LEMMA TypeAlways == Spec => []TypeInv
BY TypeInit, TypeStep, PTL DEF Spec

(* Every reachable state is well typed: the channels keep their capacities,    *)
(* and the handshake is retried at most once.                                *)
THEOREM TypeCorrect == Spec => []TypeOK
<1>1. TypeInv => TypeOK
  BY DEF TypeInv
<1> QED
  BY <1>1, TypeAlways, PTL

-----------------------------------------------------------------------------
(* Every confirmed round trip had a datagram of its own, and a drain that has  *)
(* delivered is one ahead of the count.                                       *)

TrafficInv ==
    /\ succ <= inbound
    /\ pc = "drain" /\ got => ready \/ succ < inbound
    /\ check /\ ready => inbound >= Required

LEMMA TrafficStep == TypeInv /\ TrafficInv /\ [Next]_vars => TrafficInv'
<1> SUFFICES ASSUME TypeInv, TrafficInv, [Next]_vars PROVE TrafficInv'
  OBVIOUS
<1> USE DEF TrafficInv
<1>1. CASE Top
  BY <1>1 DEF Top, validVars, drainVars
<1>2. CASE Branches
  <2>1. PICK c : AfterSelect(c)
    BY <1>2 DEF Branches, IntervalTick, NetPacket, Outbound, OnTimeout
  <2>2. got' = FALSE /\ succ' = succ /\ inbound' = inbound /\ check' = check
    BY <2>1 DEF AfterSelect
  <2>3. check => ready' = ready
    BY <2>1 DEF AfterSelect, Checked
  <2> QED
    BY <2>2, <2>3
<1>3. CASE DrainDatagram
  BY <1>3 DEF DrainDatagram, validVars, TypeInv, TypeOK
<1>4. CASE DrainDone
  <2>1. CASE got /\ ~ready
    <3>1. succ' = succ + 1 /\ inbound' = inbound /\ check' = check /\ pc' = "flush"
      BY <1>4, <2>1 DEF DrainDone
    <3>2. ready' = TRUE => succ + 1 >= Required
      BY <1>4, <2>1 DEF DrainDone, Validated
    <3>3. succ + 1 <= inbound
      BY <1>4, <2>1 DEF DrainDone, TypeInv, TypeOK
    <3>4. ready' \in BOOLEAN
      BY TypeStep DEF TypeInv, TypeOK
    <3> QED
      BY <3>1, <3>2, <3>3, <3>4 DEF TypeInv, TypeOK
  <2>2. CASE ~(got /\ ~ready)
    BY <1>4, <2>2 DEF DrainDone, validVars
  <2> QED
    BY <2>1, <2>2
<1>5. CASE Flushes
  <2>1. UNCHANGED <<check, ready, succ, inbound>> /\ pc' # "drain"
    BY <1>5 DEF Flushes, Flush, FlushFails, validVars
  <2> QED
    BY <2>1
<1>6. CASE Outside
  BY <1>6 DEF Outside, Tick, EdgeGoes, EdgeSends, validVars, drainVars
<1>7. CASE Stack \/ Client \/ UNCHANGED vars
  BY <1>7 DEF Stack, Client, vars, validVars, drainVars
<1> QED
  BY <1>1, <1>2, <1>3, <1>4, <1>5, <1>6, <1>7, NextSplit DEF Drains

(* With data check, SOCKS5 is exposed over HTTP/3 only after the required      *)
(* number of datagrams came back, whatever the edge sends, retries included.   *)
THEOREM ReadyAfterTraffic == Spec => []ExposedAfterTraffic
<1>1. Init => TrafficInv
  BY DEF Init, TrafficInv
<1>2. TrafficInv => ExposedAfterTraffic
  BY DEF TrafficInv, ExposedAfterTraffic
<1> QED
  BY <1>1, <1>2, TrafficStep, TypeAlways, PTL DEF Spec

-----------------------------------------------------------------------------
(* The refinement of Tunnel. *)

LEMMA TunnelInit == Init => Abstract!Init
BY DEF Init, Phase, Abstract!Init

(* A step that leaves ready and the count alone, and does not revive a loop    *)
(* that has ended, is the end of the tunnel or no step at all.                *)
LEMMA TunnelQuiet ==
    ASSUME UNCHANGED <<check, ready, succ>>, pc' = "ended" \/ pc # "ended"
    PROVE  [Abstract!Next]_(Abstract!vars)
<1>1. CASE pc' = "ended" /\ pc # "ended"
  <2>1. Phase # "ended" /\ Phase' = "ended"
    BY <1>1 DEF Phase
  <2> QED
    BY <2>1 DEF Abstract!Next, Abstract!End
<1>2. CASE (pc' = "ended") = (pc = "ended")
  <2>1. Phase' = Phase
    BY <1>2 DEF Phase
  <2> QED
    BY <2>1 DEF Abstract!vars
<1> QED
  BY <1>1, <1>2

LEMMA TunnelBranch ==
    ASSUME TypeInv, NEW c, AfterSelect(c), pc = "select"
    PROVE  [Abstract!Next]_(Abstract!vars)
<1>1. UNCHANGED <<succ, check>>
  BY DEF AfterSelect
<1>2. CASE ready' = ready
  BY <1>1, <1>2, TunnelQuiet
<1>3. CASE ready' # ready
  <2>1. ~check /\ ~ready /\ ready'
    BY <1>3 DEF AfterSelect, Checked, TypeInv, TypeOK
  <2>2. Phase = "trying"
    BY <2>1 DEF Phase
  <2>3. CASE pc' = "ended"
    <3>1. Phase' = "ended"
      BY <2>3 DEF Phase
    <3> QED
      BY <1>1, <2>2, <3>1 DEF Abstract!Next, Abstract!End
  <2>4. CASE pc' # "ended"
    <3>1. Phase' = "exposed"
      BY <2>1, <2>4 DEF Phase
    <3> QED
      BY <1>1, <2>1, <2>2, <3>1 DEF Abstract!Next, Abstract!ExposeUnchecked
  <2> QED
    BY <2>3, <2>4
<1> QED
  BY <1>2, <1>3

LEMMA TunnelStep == TypeInv /\ [Next]_vars => [Abstract!Next]_(Abstract!vars)
<1> SUFFICES ASSUME TypeInv, [Next]_vars PROVE [Abstract!Next]_(Abstract!vars)
  OBVIOUS
<1>1. CASE Top
  BY <1>1, TunnelQuiet DEF Top, validVars
<1>2. CASE Branches
  <2>1. pc = "select" /\ \E c : AfterSelect(c)
    BY <1>2 DEF Branches, IntervalTick, NetPacket, Outbound, OnTimeout, OutboundTurn
  <2> QED
    BY <2>1, TunnelBranch
<1>3. CASE DrainDatagram
  BY <1>3, TunnelQuiet DEF DrainDatagram, validVars
<1>4. CASE DrainDone
  <2>1. CASE got /\ ~ready
    <3>1. Phase = "trying"
      BY <1>4, <2>1 DEF DrainDone, Phase
    <3>2. succ' = succ + 1 /\ check' = check
      BY <1>4, <2>1 DEF DrainDone
    <3>3. Phase' = IF succ + 1 >= Required THEN "exposed" ELSE "trying"
      BY <1>4, <2>1 DEF DrainDone, Validated, Phase
    <3> QED
      BY <3>1, <3>2, <3>3 DEF Abstract!Next, Abstract!Confirm
  <2>2. CASE ~(got /\ ~ready)
    BY <1>4, <2>2, TunnelQuiet DEF DrainDone, validVars
  <2> QED
    BY <2>1, <2>2
<1>5. CASE Flushes
  BY <1>5, TunnelQuiet DEF Flushes, Flush, FlushFails, validVars
<1>6. CASE Outside
  BY <1>6, TunnelQuiet DEF Outside, Tick, EdgeGoes, EdgeSends, validVars
<1>7. CASE Stack \/ Client \/ UNCHANGED vars
  BY <1>7, TunnelQuiet DEF Stack, Client, vars, validVars
<1> QED
  BY <1>1, <1>2, <1>3, <1>4, <1>5, <1>6, <1>7, NextSplit DEF Drains

(* Over HTTP/3 too the tunnel is what run_masque_tunnel takes it for: ready at  *)
(* most once and not before its round trips, then ended at most once.          *)
THEOREM ImplementsTunnelSpec == Spec => ImplementsTunnel
BY TypeAlways, TunnelInit, TunnelStep, PTL DEF Spec, ImplementsTunnel, Abstract!Spec
=============================================================================
