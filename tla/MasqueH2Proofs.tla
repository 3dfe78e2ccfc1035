--------------------------- MODULE MasqueH2Proofs ---------------------------
(***************************************************************************)
(* Proofs about the HTTP/2 tunnel: the type invariant, and that SOCKS5 is   *)
(* exposed only after enough packets came back, for every chunking of the   *)
(* body, every timing and every capacity.                                   *)
(***************************************************************************)
EXTENDS MasqueH2, TLAPS

(* One tick keeps a deadline a deadline. *)
LEMMA LessType ==
    ASSUME NEW t \in Nat \cup {NoTimer}
    PROVE  Less(t) \in Nat \cup {NoTimer}
BY SMT DEF Less

(* Connecting, sending and the top of the loop keep the types. *)
LEMMA TypeSend ==
    ASSUME TypeOK, Connected \/ ConnectFails \/ SendCapsule \/ SendFails \/ Top
    PROVE  TypeOK'
<1> USE MasqueH2Assumption DEF TypeOK, pingVars, bufVars, edgeVars, ghostVars, validVars, dueVars
<1>1. CASE Connected
  <2>1. /\ pc' \in {"send", "top"} /\ why' \in {"first", "probe", "next", "packet"}
        /\ ready' \in BOOLEAN /\ probeDue' \in BOOLEAN /\ keepDue' \in BOOLEAN
    BY <1>1 DEF Connected
  <2> QED BY <1>1, <2>1 DEF Connected
<1>2. CASE ConnectFails BY <1>2 DEF ConnectFails
<1>3. CASE SendCapsule BY <1>3 DEF SendCapsule, Armed
<1>4. CASE SendFails BY <1>4 DEF SendFails, Armed
<1>5. CASE Top BY <1>5 DEF Top
<1> QED BY <1>1, <1>2, <1>3, <1>4, <1>5

(* The branches of the select keep the types. *)
LEMMA TypeSelect ==
    ASSUME TypeOK, KeepaliveTick \/ PollPong \/ ProbeTick \/ Outbound \/ BodyChunk \/ BodyEnds
    PROVE  TypeOK'
<1> USE MasqueH2Assumption DEF TypeOK, pingVars, bufVars, edgeVars, ghostVars, validVars, dueVars
<1>1. CASE KeepaliveTick
  <2>1. /\ awaiting' \in BOOLEAN /\ pleft' \in Nat \cup {NoTimer} /\ pinged' \in BOOLEAN
        /\ keepDue' \in BOOLEAN /\ pc' = "top"
    BY <1>1 DEF KeepaliveTick
  <2> QED BY <1>1, <2>1 DEF KeepaliveTick
<1>2. CASE PollPong
  <2>1. /\ awaiting' \in BOOLEAN /\ pleft' \in Nat \cup {NoTimer} /\ pong' \in BOOLEAN
        /\ pc' \in {"top", "ended"}
    BY <1>2 DEF PollPong
  <2> QED BY <1>2, <2>1 DEF PollPong
<1>3. CASE ProbeTick
  <2>1. probeDue' \in BOOLEAN /\ pc' = "send" /\ why' = "probe" BY <1>3 DEF ProbeTick
  <2> QED BY <1>3, <2>1 DEF ProbeTick
<1>4. CASE Outbound BY <1>4 DEF Outbound
<1>5. CASE BodyChunk
  <2>1. Head(body) \in Seq(Capsules) /\ Tail(body) \in Seq(Chunks) BY <1>5 DEF BodyChunk
  <2>2. buf' \in Seq(Capsules) /\ body' \in Seq(Chunks) BY <1>5, <2>1 DEF BodyChunk
  <2>3. pc' = "drain" /\ got' \in BOOLEAN /\ sawBad' \in BOOLEAN BY <1>5 DEF BodyChunk
  <2>4. UNCHANGED <<why, check, validVars, pingVars, dueVars, outQ, inQ, edge, window, pinged,
                    pong, sent, inbound>>
    BY <1>5 DEF BodyChunk
  <2> QED BY <2>2, <2>3, <2>4
<1>6. CASE BodyEnds BY <1>6 DEF BodyEnds
<1> QED BY <1>1, <1>2, <1>3, <1>4, <1>5, <1>6

(* Draining the parser keeps the types. *)
LEMMA TypeDrain ==
    ASSUME TypeOK, DrainDatagram \/ DrainOther \/ DrainDone
    PROVE  TypeOK'
<1> USE DEF TypeOK, loopVars, pingVars, edgeVars, ghostVars, validVars, dueVars
<1>1. buf # <<>> => Tail(buf) \in Seq(Capsules) OBVIOUS
<1>2. CASE DrainDatagram
  <2>1. inQ' \in 0 .. InCap BY <1>2, MasqueH2Assumption DEF DrainDatagram, HasRoom
  <2>2. buf' \in Seq(Capsules) BY <1>1, <1>2 DEF DrainDatagram, DrainStops
  <2> QED BY <1>2, <2>1, <2>2 DEF DrainDatagram
<1>3. CASE DrainOther BY <1>1, <1>3 DEF DrainOther, DrainStops
<1>4. CASE DrainDone
  <2>1. buf' \in Seq(Capsules) /\ sawBad' \in BOOLEAN BY <1>1, <1>4 DEF DrainDone, Malformed
  <2>2. /\ succ' \in Nat /\ ready' \in BOOLEAN /\ vleft' \in Nat \cup {NoTimer}
        /\ pc' \in {"top", "send"} /\ why' \in {"first", "probe", "next", "packet"}
    <3>1. CASE got /\ ~ready
      <4>1. CASE Validated(succ + 1) BY <1>4, <3>1, <4>1 DEF DrainDone
      <4>2. CASE ~Validated(succ + 1) BY <1>4, <3>1, <4>2 DEF DrainDone
      <4> QED BY <4>1, <4>2
    <3>2. CASE ~(got /\ ~ready) BY <1>4, <3>2 DEF DrainDone
    <3> QED BY <3>1, <3>2
  <2> QED BY <1>4, <2>1, <2>2 DEF DrainDone
<1> QED BY <1>2, <1>3, <1>4

(* Time, the edge and the stack keep the types. *)
LEMMA TypeWorld ==
    ASSUME TypeOK,
           \/ Tick \/ KeepaliveDue \/ EdgePongs \/ EdgeGrants \/ StackReads \/ StackSends
           \/ \E c \in Chunks : EdgeSends(c)
           \/ \E to \in {"stalled", "closed"} : EdgeGoes(to)
    PROVE  TypeOK'
<1> USE MasqueH2Assumption
    DEF TypeOK, loopVars, pingVars, bufVars, edgeVars, ghostVars, validVars, dueVars
<1>1. CASE Tick
  <2>1. vleft' \in Nat \cup {NoTimer} /\ pleft' \in Nat \cup {NoTimer}
    BY <1>1, LessType DEF Tick
  <2>2. probeDue' \in BOOLEAN BY <1>1 DEF Tick
  <2> QED BY <1>1, <2>1, <2>2 DEF Tick
<1>2. CASE KeepaliveDue BY <1>2 DEF KeepaliveDue
<1>3. CASE EdgePongs
  <2>1. pinged' \in BOOLEAN /\ pong' \in BOOLEAN BY <1>3 DEF EdgePongs
  <2> QED BY <1>3, <2>1 DEF EdgePongs
<1>4. CASE EdgeGrants BY <1>4 DEF EdgeGrants
<1>5. CASE StackReads BY <1>5 DEF StackReads
<1>6. CASE StackSends BY <1>6 DEF StackSends
<1>7. ASSUME NEW c \in Chunks, EdgeSends(c) PROVE TypeOK'
  <2>1. body' \in Seq(Chunks) BY <1>7 DEF EdgeSends
  <2> QED BY <1>7, <2>1 DEF EdgeSends
<1>8. ASSUME NEW to \in {"stalled", "closed"}, EdgeGoes(to) PROVE TypeOK'
  BY <1>8 DEF EdgeGoes
<1> QED BY <1>1, <1>2, <1>3, <1>4, <1>5, <1>6, <1>7, <1>8

LEMMA TypeStep ==
    ASSUME TypeOK, [Next]_vars
    PROVE  TypeOK'
<1>1. CASE UNCHANGED vars
  BY <1>1 DEF TypeOK, vars, loopVars, pingVars, bufVars, edgeVars, ghostVars, validVars, dueVars
<1> QED BY <1>1, TypeSend, TypeSelect, TypeDrain, TypeWorld DEF Next, Run

(* Every reachable state of the loop in run (masque_h2.rs) is well typed,    *)
(* and no channel or window exceeds its size.                                *)
THEOREM TypeCorrect == Spec => []TypeOK
<1>1. Init => TypeOK
  <2> SUFFICES ASSUME Init PROVE TypeOK OBVIOUS
  <2>1. /\ buf \in Seq(Capsules) /\ body \in Seq(Chunks) /\ outQ \in 0 .. OutCap
        /\ inQ \in 0 .. InCap /\ window \in 0 .. Window /\ sent \in 0 .. MaxChunks
    BY MasqueH2Assumption DEF Init
  <2> QED BY <2>1 DEF Init, TypeOK
<1> QED BY <1>1, TypeStep, PTL DEF Spec

-----------------------------------------------------------------------------
(* The steps of the drain count what they deliver. *)
LEMMA CountsDrain ==
    ASSUME TypeOK, CountsTraffic, BodyChunk \/ DrainDatagram \/ DrainOther \/ DrainDone
    PROVE  CountsTraffic'
<1> USE MasqueH2Assumption
    DEF TypeOK, CountsTraffic, ExposedAfterTraffic, loopVars, validVars, ghostVars
<1>1. CASE BodyChunk BY <1>1 DEF BodyChunk
<1>2. CASE DrainDatagram BY <1>2 DEF DrainDatagram
<1>3. CASE DrainOther BY <1>3 DEF DrainOther
<1>4. CASE DrainDone
  <2>1. CASE got /\ ~ready
    <3>1. inbound > succ /\ succ' = succ + 1 /\ inbound' = inbound BY <1>4, <2>1 DEF DrainDone
    <3>2. ready' => Validated(succ + 1) BY <1>4, <2>1 DEF DrainDone
    <3> QED BY <1>4, <2>1, <3>1, <3>2 DEF DrainDone, Validated
  <2>2. CASE ~(got /\ ~ready) BY <1>4, <2>2 DEF DrainDone
  <2> QED BY <2>1, <2>2
<1> QED BY <1>1, <1>2, <1>3, <1>4

(* No other step touches the counters, except that Connected exposes SOCKS5  *)
(* at once when there is no data check.                                      *)
LEMMA CountsRest ==
    ASSUME TypeOK, CountsTraffic,
           \/ Connected \/ ConnectFails \/ SendCapsule \/ SendFails \/ Top \/ KeepaliveTick
           \/ PollPong \/ ProbeTick \/ Outbound \/ BodyEnds \/ Tick \/ KeepaliveDue
           \/ EdgePongs \/ EdgeGrants \/ StackReads \/ StackSends
           \/ \E c \in Chunks : EdgeSends(c)
           \/ \E to \in {"stalled", "closed"} : EdgeGoes(to)
    PROVE  CountsTraffic'
<1> USE DEF TypeOK, CountsTraffic, ExposedAfterTraffic, loopVars, validVars, bufVars, ghostVars
<1>1. CASE Connected BY <1>1 DEF Connected, Validates
<1>2. CASE ConnectFails \/ Top BY <1>2 DEF ConnectFails, Top
<1>3. CASE SendCapsule \/ SendFails BY <1>3 DEF SendCapsule, SendFails
<1>4. CASE KeepaliveTick \/ PollPong BY <1>4 DEF KeepaliveTick, PollPong
<1>5. CASE ProbeTick \/ Outbound \/ BodyEnds BY <1>5 DEF ProbeTick, Outbound, BodyEnds
<1>6. CASE Tick \/ KeepaliveDue BY <1>6 DEF Tick, KeepaliveDue
<1>7. CASE EdgePongs \/ EdgeGrants BY <1>7 DEF EdgePongs, EdgeGrants
<1>8. CASE StackReads \/ StackSends BY <1>8 DEF StackReads, StackSends
<1>9. CASE \E c \in Chunks : EdgeSends(c) BY <1>9 DEF EdgeSends
<1>10. CASE \E to \in {"stalled", "closed"} : EdgeGoes(to) BY <1>10 DEF EdgeGoes
<1> QED BY <1>1, <1>2, <1>3, <1>4, <1>5, <1>6, <1>7, <1>8, <1>9, <1>10

LEMMA CountsStep ==
    ASSUME TypeOK, CountsTraffic, [Next]_vars
    PROVE  CountsTraffic'
<1>1. CASE UNCHANGED vars
  BY <1>1 DEF CountsTraffic, ExposedAfterTraffic, vars, loopVars, validVars, bufVars, ghostVars
<1> QED BY <1>1, CountsDrain, CountsRest DEF Next, Run

(* With data check, ready_tx of masque_h2.rs fires only after the required   *)
(* number of packets came back through the tunnel.                           *)
THEOREM ReadyAfterTraffic == Spec => []ExposedAfterTraffic
<1>1. Init => CountsTraffic
  BY MasqueH2Assumption DEF Init, CountsTraffic, ExposedAfterTraffic
<1>2. CountsTraffic => ExposedAfterTraffic BY DEF CountsTraffic
<1> QED BY <1>1, <1>2, CountsStep, TypeCorrect, PTL DEF Spec

-----------------------------------------------------------------------------
(* Only the steps around a drain touch the parser. *)
LEMMA HeldStep ==
    ASSUME NothingHeldBack, [Next]_vars
    PROVE  NothingHeldBack'
<1> USE DEF NothingHeldBack, loopVars, bufVars, ghostVars
<1>1. CASE Connected \/ ConnectFails \/ Top BY <1>1 DEF Connected, ConnectFails, Top
<1>2. CASE SendCapsule \/ SendFails BY <1>2 DEF SendCapsule, SendFails
<1>3. CASE KeepaliveTick \/ PollPong
  <2>1. UNCHANGED <<buf, sawBad>> BY <1>3 DEF KeepaliveTick, PollPong
  <2>2. pc = "select" BY <1>3 DEF KeepaliveTick, PollPong
  <2> QED BY <2>1, <2>2
<1>4. CASE ProbeTick \/ Outbound \/ BodyEnds
  BY <1>4 DEF ProbeTick, Outbound, BodyEnds, BodyTurn
<1>5. CASE BodyChunk
  <2>1. pc' = "drain" BY <1>5 DEF BodyChunk
  <2> QED BY <2>1
<1>6. CASE DrainDatagram \/ DrainOther
  <2>1. pc' = "drain" BY <1>6 DEF DrainDatagram, DrainOther
  <2> QED BY <2>1
<1>7. CASE DrainDone
  <2>1. CASE Malformed BY <1>7, <2>1 DEF DrainDone
  <2>2. CASE ~Malformed BY <1>7, <2>2 DEF DrainDone, DrainStops
  <2> QED BY <2>1, <2>2
<1>8. CASE Tick \/ KeepaliveDue BY <1>8 DEF Tick, KeepaliveDue
<1>9. CASE EdgePongs \/ EdgeGrants BY <1>9 DEF EdgePongs, EdgeGrants
<1>10. CASE StackReads \/ StackSends BY <1>10 DEF StackReads, StackSends
<1>11. CASE \E c \in Chunks : EdgeSends(c) BY <1>11 DEF EdgeSends
<1>12. CASE \E to \in {"stalled", "closed"} : EdgeGoes(to) BY <1>12 DEF EdgeGoes
<1>13. CASE UNCHANGED vars BY <1>13 DEF vars
<1> QED
  BY <1>1, <1>2, <1>3, <1>4, <1>5, <1>6, <1>7, <1>8, <1>9, <1>10, <1>11, <1>12, <1>13
  DEF Next, Run

(* drain_capsules leaves no complete capsule in the parser unless it met a   *)
(* malformed one; what that drain left, the next one takes.                  *)
THEOREM DrainsEverything == Spec => []NothingHeldBack
<1>1. Init => NothingHeldBack BY DEF Init, NothingHeldBack
<1> QED BY <1>1, HeldStep, PTL DEF Spec

-----------------------------------------------------------------------------
(* The refinement of Tunnel. *)

LEMMA TunnelInit == Init => Abstract!Init
BY DEF Init, Phase, Abstract!Init

(* A step that leaves ready and the count alone, and ends the loop or keeps   *)
(* it from having ended, is the end of the tunnel or no step at all.          *)
LEMMA TunnelQuiet ==
    ASSUME TypeOK, UNCHANGED <<check, ready, succ>>, pc' = "ended" \/ pc # "ended"
    PROVE  [Abstract!Next]_(Abstract!vars)
<1>1. CASE pc' = "ended" /\ pc # "ended"
  <2>1. Phase # "ended" /\ Phase' = "ended" BY <1>1 DEF Phase
  <2> QED BY <2>1 DEF Abstract!Next, Abstract!End
<1>2. CASE (pc' = "ended") = (pc = "ended")
  <2>1. Phase' = Phase BY <1>2 DEF Phase
  <2> QED BY <2>1 DEF Abstract!vars
<1> QED BY <1>1, <1>2

LEMMA TunnelStep == TypeOK /\ [Next]_vars => [Abstract!Next]_(Abstract!vars)
<1> SUFFICES ASSUME TypeOK, [Next]_vars PROVE [Abstract!Next]_(Abstract!vars)
  OBVIOUS
<1>1. CASE Connected
  <2>1. CASE check BY <1>1, <2>1, TunnelQuiet DEF Connected, Validates
  <2>2. CASE ~check
    <3>1. Phase' = "exposed" /\ UNCHANGED <<succ, check>>
      BY <1>1, <2>2 DEF Connected, Validates, Phase
    <3>2. CASE ready
      BY <1>1, <3>1, <3>2 DEF Connected, Phase, Abstract!vars
    <3>3. CASE ~ready
      BY <1>1, <2>2, <3>1, <3>3 DEF Connected, Phase, Abstract!Next, Abstract!ExposeUnchecked
    <3> QED BY <3>2, <3>3
  <2> QED BY <2>1, <2>2
<1>2. CASE DrainDone
  <2>1. CASE got /\ ~ready
    <3>1. Phase = "trying" BY <1>2, <2>1 DEF DrainDone, Phase
    <3>2. succ' = succ + 1 /\ check' = check BY <1>2, <2>1 DEF DrainDone
    <3>3. Phase' = IF succ + 1 >= Required THEN "exposed" ELSE "trying"
      BY <1>2, <2>1 DEF DrainDone, Validated, Phase
    <3> QED BY <3>1, <3>2, <3>3 DEF Abstract!Next, Abstract!Confirm
  <2>2. CASE ~(got /\ ~ready)
    BY <1>2, <2>2, TunnelQuiet DEF DrainDone, validVars
  <2> QED BY <2>1, <2>2
<1>3. CASE ConnectFails \/ SendCapsule \/ SendFails \/ Top
  BY <1>3, TunnelQuiet DEF ConnectFails, SendCapsule, SendFails, Top, validVars
<1>4. CASE KeepaliveTick \/ PollPong \/ ProbeTick \/ Outbound \/ BodyChunk \/ BodyEnds
  BY <1>4, TunnelQuiet
  DEF KeepaliveTick, PollPong, ProbeTick, Outbound, BodyChunk, BodyEnds, BodyTurn, validVars
<1>5. CASE DrainDatagram \/ DrainOther \/ Tick \/ KeepaliveDue \/ EdgePongs
  BY <1>5, TunnelQuiet
  DEF DrainDatagram, DrainOther, Tick, KeepaliveDue, EdgePongs, validVars, loopVars
<1>6. CASE EdgeGrants \/ StackReads \/ StackSends \/ (\E c \in Chunks : EdgeSends(c))
           \/ (\E to \in {"stalled", "closed"} : EdgeGoes(to))
  BY <1>6, TunnelQuiet
  DEF EdgeGrants, StackReads, StackSends, EdgeSends, EdgeGoes, validVars, loopVars
<1>7. CASE UNCHANGED vars BY <1>7, TunnelQuiet DEF vars, validVars, loopVars
<1> QED BY <1>1, <1>2, <1>3, <1>4, <1>5, <1>6, <1>7 DEF Next, Run

(* Over HTTP/2 the tunnel implements Tunnel, for every edge and every timing. *)
THEOREM ImplementsTunnelSpec == Spec => ImplementsTunnel
BY TypeCorrect, TunnelInit, TunnelStep, PTL DEF Spec, ImplementsTunnel, Abstract!Spec
=============================================================================
