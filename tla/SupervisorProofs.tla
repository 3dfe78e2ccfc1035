-------------------------- MODULE SupervisorProofs --------------------------
(***************************************************************************)
(* Proofs about Supervisor, for any gateways, profiles and number of        *)
(* probes: type correctness, that SOCKS5 is exposed only over a link that   *)
(* has just carried traffic, and that the remembered gateway did work.       *)
(***************************************************************************)
EXTENDS Supervisor, TLAPS

-----------------------------------------------------------------------------
(* Type correctness. *)

LEMMA LinkType == ASSUME NEW p \in Peers, NEW n \in 1 .. Profiles
                  PROVE  Link(p, n) \in Links
BY DEF Link, Links

LEMMA CandidatesType == Candidates \in 1 .. Profiles
BY SupervisorAssumption DEF Candidates

LEMMA TypeInit == Init => TypeOK
<1> SUFFICES ASSUME Init PROVE TypeOK
  OBVIOUS
<1>1. 1 \in 1 .. Profiles /\ 0 \in 0 .. MaxEvents /\ 0 \in 0 .. MaxStarts
  BY SupervisorAssumption
<1>2. V4 \in SUBSET Peers
  BY SupervisorAssumption DEF Init, Peers
<1>3. pc = "down" /\ link = NoLink /\ file = NoLink /\ quick = NoLink /\ last = NoLink
  BY DEF Init
<1>4. /\ pc \in Pcs /\ pc \notin UsesLink /\ pc # "test"
  BY <1>3 DEF Pcs, UsesLink
<1>5. /\ proto \in Protos /\ forced \in Peers \cup {NoPeer, BadPeer}
      /\ up \in [Links -> Levels] /\ proven \subseteq Links /\ worked \subseteq Links
  BY DEF Init
<1>6. /\ k \in 1 .. Profiles /\ got \in Nat /\ scan \in SUBSET Peers
      /\ events \in 0 .. MaxEvents /\ starts \in 0 .. MaxStarts
  BY <1>1, <1>2 DEF Init
<1> QED BY <1>2, <1>3, <1>4, <1>5, <1>6 DEF TypeOK

LEMMA ProvesType ==
    ASSUME TypeOK, NEW l \in Links, Proves(l)
    PROVE  proven' \subseteq Links /\ worked' \subseteq Links
BY DEF TypeOK, Proves

LEMMA TypeChoose ==
    ASSUME TypeOK,
           QuickOk \/ QuickFails \/ Top \/ RetryOk \/ RetryFails \/ Pick
             \/ TestOk \/ TestFails \/ HuntFinds \/ HuntMisses
    PROVE  TypeOK'
<1>0. 1 \in 1 .. Profiles /\ V4 \in SUBSET Peers BY SupervisorAssumption DEF Peers
<1>1. CASE QuickOk
  <2>1. link \in Links BY <1>1 DEF TypeOK, QuickOk, UsesLink
  <2> QED BY <1>0, <1>1, <2>1, ProvesType DEF QuickOk, TypeOK, Pcs, UsesLink, userVars, netVars
<1>2. CASE QuickFails \/ RetryFails
  BY <1>2 DEF QuickFails, RetryFails, TypeOK, Pcs, UsesLink, userVars, localVars, netVars,
              ghostVars
<1>3. CASE Top
  BY <1>3 DEF Top, TypeOK, Pcs, UsesLink, userVars, netVars, ghostVars
<1>4. CASE RetryOk
  <2>1. link \in Links BY <1>4 DEF TypeOK, RetryOk, RetryChecked, UsesLink
  <2> QED BY <1>4, <2>1, ProvesType
          DEF RetryOk, RetryChecked, TypeOK, Pcs, UsesLink, userVars, netVars
<1>5. CASE Pick
  <2>1. forced \in Peers => Link(forced, 1) \in Links BY <1>0, LinkType
  <2> QED BY <1>0, <1>5, <2>1 DEF Pick, TypeOK, Pcs, UsesLink, userVars, netVars, ghostVars
<1>6. ASSUME NEW p \in Peers, Finds(p) PROVE TypeOK'
  <2>1. Link(p, k) \in Links BY LinkType DEF TypeOK
  <2> QED BY <1>6, <2>1, ProvesType DEF Finds, TypeOK, Pcs, UsesLink, userVars, netVars
<1>7. ASSUME NEW after \in {"down", "delay"}, Misses(after), pc \in {"test", "hunt"}
      PROVE  TypeOK'
  <2>1. k' \in 1 .. Profiles
    BY <1>7, CandidatesType, SupervisorAssumption DEF Misses, TypeOK
  <2> QED BY <1>7, <2>1 DEF Misses, TypeOK, Pcs, UsesLink, userVars, netVars, ghostVars
<1>8. CASE TestOk
  <2>1. forced \in Peers BY <1>8 DEF TestOk, TypeOK
  <2> QED BY <1>6, <1>8, <2>1 DEF TestOk
<1>9. CASE HuntFinds
  <2>1. scan \subseteq Peers BY DEF TypeOK
  <2> QED BY <1>6, <1>9, <2>1 DEF HuntFinds
<1>10. CASE TestFails \/ HuntMisses BY <1>7, <1>10 DEF TestFails, HuntMisses
<1> QED BY <1>1, <1>2, <1>3, <1>4, <1>5, <1>8, <1>9, <1>10

LEMMA TypeUse ==
    ASSUME TypeOK, Chosen \/ Write \/ RoundTrip \/ Expose \/ TunnelTimesOut \/ DelayOver
                     \/ TunnelBreaks \/ H2Notices
    PROVE  TypeOK'
<1>1. CASE Chosen
  BY <1>1 DEF Chosen, TypeOK, Pcs, UsesLink, userVars, netVars, ghostVars
<1>2. CASE Write
  BY <1>2 DEF Write, TypeOK, Pcs, UsesLink, userVars, localVars, netVars, ghostVars
<1>3. CASE RoundTrip
  <2>1. link \in Links BY <1>3 DEF RoundTrip, TypeOK, UsesLink
  <2>2. proven' \subseteq Links /\ worked' \subseteq Links
    BY <1>3, <2>1, ProvesType DEF RoundTrip, TypeOK, ghostVars
  <2>3. got' \in Nat BY <1>3 DEF RoundTrip, TypeOK
  <2> QED BY <1>3, <2>1, <2>2, <2>3 DEF RoundTrip, TypeOK, Pcs, UsesLink, userVars, netVars
<1>4. CASE Expose \/ DelayOver
  BY <1>4 DEF Expose, DelayOver, TypeOK, Pcs, UsesLink, userVars, localVars, netVars, ghostVars
<1>5. CASE TunnelTimesOut \/ TunnelBreaks \/ H2Notices
  <2>1. events' \in 0 .. MaxEvents
    BY <1>5, SupervisorAssumption DEF TunnelTimesOut, TunnelBreaks, H2Notices, TypeOK
  <2>2. EndTunnel BY <1>5 DEF TunnelTimesOut, TunnelBreaks, H2Notices
  <2> QED BY <2>1, <2>2 DEF EndTunnel, TypeOK, Pcs, UsesLink, userVars, localVars
<1> QED BY <1>1, <1>2, <1>3, <1>4, <1>5

LEMMA TypeWorld ==
    ASSUME TypeOK, Boot \/ Killed \/ \E l \in Links : LinkChanges(l)
    PROVE  TypeOK'
<1>1. CASE Boot
  <2>1. /\ forced' \in Peers \cup {NoPeer, BadPeer} /\ scan' \in SUBSET Peers
        /\ 1 \in 1 .. Profiles /\ starts' \in 0 .. MaxStarts
    BY <1>1, SupervisorAssumption DEF Boot, AsksFor, TypeOK, Peers
  <2> QED BY <1>1, <2>1 DEF Boot, TypeOK, Pcs, UsesLink, netVars
<1>2. CASE Killed
  BY <1>2 DEF Killed, TypeOK, Pcs, UsesLink, userVars, localVars, netVars, ghostVars
<1>3. ASSUME NEW l \in Links, LinkChanges(l) PROVE TypeOK'
  <2>1. events' \in 0 .. MaxEvents BY <1>3, SupervisorAssumption DEF LinkChanges, TypeOK
  <2>2. up' \in [Links -> Levels] BY <1>3 DEF LinkChanges, TypeOK
  <2> QED BY <1>3, <2>1, <2>2 DEF LinkChanges, TypeOK, userVars, localVars, ghostVars
<1> QED BY <1>1, <1>2, <1>3

LEMMA TypeStep == TypeOK /\ [Next]_vars => TypeOK'
<1> SUFFICES ASSUME TypeOK, [Next]_vars PROVE TypeOK'
  OBVIOUS
<1>1. CASE UNCHANGED vars
  BY <1>1 DEF vars, TypeOK, userVars, localVars, netVars, ghostVars
<1> QED BY <1>1, TypeChoose, TypeUse, TypeWorld DEF Next, Process, ConnectionCloses, RecvTaskEnds

(* Every variable of the supervisor keeps its type. *)
THEOREM TypeCorrect == Spec => []TypeOK
BY TypeInit, TypeStep, PTL DEF Spec

-----------------------------------------------------------------------------
(* Trust. *)

LEMMA TrustInit == Init => SupervisorInv
BY DEF Init, SupervisorInv, FreshlyProven, LastconnWorked

(* What a successful check adds to the ghosts. *)
LEMMA ProvesFacts ==
    ASSUME TypeOK, NEW l, Passes(l), Proves(l)
    PROVE  /\ DataCheck => l \in proven'
           /\ proven \subseteq proven' /\ worked \subseteq worked'
           /\ proven \subseteq worked => proven' \subseteq worked'
BY SupervisorAssumption DEF Passes, Proves

LEMMA TrustChoose ==
    ASSUME TypeOK, SupervisorInv,
           QuickOk \/ QuickFails \/ Top \/ RetryOk \/ RetryFails \/ Pick
             \/ TestOk \/ TestFails \/ HuntFinds \/ HuntMisses
    PROVE  SupervisorInv'
<1> USE DEF SupervisorInv, FreshlyProven, LastconnWorked
<1>1. CASE QuickOk
  BY <1>1, ProvesFacts DEF QuickOk, userVars
<1>2. CASE QuickFails \/ RetryFails
  BY <1>2 DEF QuickFails, RetryFails, userVars, localVars, ghostVars
<1>3. CASE Top
  BY <1>3 DEF Top, userVars, ghostVars
<1>4. CASE RetryOk
  BY <1>4, ProvesFacts DEF RetryOk, RetryChecked, userVars
<1>5. CASE Pick
  <2>1. forced \in Peers => forced # NoPeer BY SupervisorAssumption
  <2> QED BY <1>5, <2>1 DEF Pick, userVars, ghostVars
<1>6. ASSUME NEW p, pc \in {"test", "hunt"}, Finds(p) PROVE SupervisorInv'
  BY <1>6, ProvesFacts DEF Finds, userVars
<1>7. ASSUME NEW after \in {"down", "delay"}, Misses(after), pc \in {"test", "hunt"}
      PROVE  SupervisorInv'
  BY <1>7 DEF Misses, userVars, ghostVars
<1> QED BY <1>1, <1>2, <1>3, <1>4, <1>5, <1>6, <1>7 DEF TestOk, TestFails, HuntFinds, HuntMisses

LEMMA TrustUse ==
    ASSUME TypeOK, SupervisorInv,
           Chosen \/ Write \/ RoundTrip \/ Expose \/ TunnelTimesOut \/ DelayOver
             \/ TunnelBreaks \/ H2Notices
    PROVE  SupervisorInv'
<1> USE DEF SupervisorInv, FreshlyProven, LastconnWorked
<1>1. CASE Chosen BY <1>1 DEF Chosen, Saves, userVars, ghostVars
<1>2. CASE Write BY <1>2 DEF Write, userVars, localVars, ghostVars
<1>3. CASE RoundTrip
  <2>1. Passes(link) BY <1>3 DEF RoundTrip, Passes
  <2>2. CASE pc' = "serve" /\ Proves(link)
    BY <1>3, <2>1, <2>2, ProvesFacts DEF RoundTrip, userVars
  <2>3. CASE UNCHANGED <<pc, ghostVars>>
    BY <1>3, <2>3 DEF RoundTrip, userVars, ghostVars
  <2> QED BY <1>3, <2>2, <2>3 DEF RoundTrip
<1>4. CASE Expose BY <1>4 DEF Expose, userVars, localVars, ghostVars
<1>5. CASE DelayOver BY <1>5 DEF DelayOver, userVars, localVars, ghostVars
<1>6. CASE TunnelTimesOut \/ TunnelBreaks \/ H2Notices
  <2>1. EndTunnel /\ pc \in {"tunnel", "serve"}
    BY <1>6 DEF TunnelTimesOut, TimesOut, TunnelBreaks, H2Notices
  <2> QED BY <2>1 DEF EndTunnel, userVars, localVars
<1> QED BY <1>1, <1>2, <1>3, <1>4, <1>5, <1>6

LEMMA TrustWorld ==
    ASSUME TypeOK, SupervisorInv, Boot \/ Killed \/ \E l \in Links : LinkChanges(l)
    PROVE  SupervisorInv'
<1> USE DEF SupervisorInv, FreshlyProven, LastconnWorked
<1>1. CASE Boot BY <1>1 DEF Boot
<1>2. CASE Killed BY <1>2 DEF Killed, userVars, localVars, ghostVars
<1>3. CASE \E l \in Links : LinkChanges(l)
  BY <1>3 DEF LinkChanges, userVars, localVars, ghostVars
<1> QED BY <1>1, <1>2, <1>3

LEMMA TrustStep == TypeOK /\ SupervisorInv /\ [Next]_vars => SupervisorInv'
<1> SUFFICES ASSUME TypeOK, SupervisorInv, [Next]_vars PROVE SupervisorInv'
  OBVIOUS
<1>1. CASE UNCHANGED vars
  BY <1>1 DEF vars, userVars, localVars, ghostVars, SupervisorInv, FreshlyProven, LastconnWorked
<1> QED BY <1>1, TrustChoose, TrustUse, TrustWorld DEF Next, Process, ConnectionCloses, RecvTaskEnds

(* Whatever path chose a gateway, SOCKS5 is exposed only over a link that    *)
(* has carried traffic since the previous tunnel ended.                      *)
THEOREM TrustedAfterTraffic == Spec => []FreshlyProven
<1>1. SupervisorInv => FreshlyProven BY DEF SupervisorInv
<1> QED BY <1>1, TypeInit, TypeStep, TrustInit, TrustStep, PTL DEF Spec

(* Wherever the process is killed, the gateway the lastconn file offers is   *)
(* one that carried traffic.                                                 *)
THEOREM RemembersWorkingGateway == Spec => []LastconnWorked
<1>1. SupervisorInv => LastconnWorked BY DEF SupervisorInv
<1> QED BY <1>1, TypeInit, TypeStep, TrustInit, TrustStep, PTL DEF Spec

=============================================================================
