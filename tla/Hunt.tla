-------------------------------- MODULE Hunt --------------------------------
(***************************************************************************)
(* One hunt for a gateway (prober.rs: hunt_best_gateway; wg_prober.rs:      *)
(* hunt_best_wg_endpoint, the same loop): candidates are probed a few at a   *)
(* time, answers come back in any order, and the loop keeps the fastest      *)
(* until it has enough, the candidates run out, or time does.                *)
(*                                                                         *)
(* A candidate is an address with a port.  Supervisor takes a whole hunt as  *)
(* one step, HuntFinds or HuntMisses.                                        *)
(***************************************************************************)
EXTENDS Naturals, Sequences, FiniteSets

CONSTANTS Cands,     \* the candidates
          Lists,     \* what build_candidates returns for each choice of families
          Modes,     \* the strategies of the scan modes
          Deadline,  \* overall_deadline
          Rtts,      \* round-trip times a probe may measure
          NoResult,  \* None
          Horizon    \* bound: the clock stops here, after every deadline

Families == {"v4", "v6", "both"}
Strategy == [concurrency : Nat \ {0}, target : Nat, quiet : Nat, early : BOOLEAN]
Results  == [cand : Cands, rtt : Rtts]

ASSUME HuntAssumption ==
    /\ \A f \in Families : Lists[f] \in Seq(Cands)
    /\ Modes \subseteq Strategy
    /\ Deadline \in Nat \ {0} /\ Horizon \in Nat /\ Horizon >= Deadline
    /\ Rtts \subseteq Nat /\ NoResult \notin Results

VARIABLES
    pc,      \* "start", "top" of the loop, "select", "ended"
    st,      \* the strategy of the scan mode
    ip,      \* the families asked for
    host6,   \* host_has_ipv6: does the host have an IPv6 route
    rest,    \* candidates not yet taken from the iterator
    flight,  \* candidates being probed
    ready,   \* probes that ended and were not yet looked at, in that order
    now,     \* the clock
    until,   \* quiet_until
    best, found,
    seen,    \* ghost: every working gateway the loop was told of
    failed   \* ghost: every candidate the loop was told does not work

input == <<st, ip, host6>>
vars == <<pc, input, rest, flight, ready, now, until, best, found, seen, failed>>

Init ==
    /\ pc = "start" /\ st \in Modes /\ ip \in Families /\ host6 \in BOOLEAN
    /\ rest = <<>> /\ flight = {} /\ ready = <<>> /\ now = 0
    /\ until = NoResult /\ best = NoResult /\ found = 0
    /\ seen = {} /\ failed = {}

-----------------------------------------------------------------------------

EffectiveIp == IF ip = "both" /\ ~host6 THEN "v4" ELSE ip
Candidates  == Lists[EffectiveIp]

(* The host may have no IPv6 route: a dual scan falls back to IPv4, an IPv6  *)
(* scan ends at once.                                                        *)
Start ==
    /\ pc = "start"
    /\ IF ip = "v6" /\ ~host6
       THEN pc' = "ended" /\ UNCHANGED rest
       ELSE pc' = "top" /\ rest' = Candidates
    /\ UNCHANGED <<input, flight, ready, now, until, best, found, seen, failed>>

NoDeadline == IF until = NoResult THEN Horizon + 1 ELSE until
Effective  == IF until # NoResult /\ until < Deadline THEN until ELSE Deadline

(* The top of the loop: stop when no time remains, else poll the stream,     *)
(* which first fills the free probe slots (buffer_unordered).                *)
Free == st.concurrency - (Cardinality(flight) + Len(ready))

Fill ==
    LET n == IF Free < Len(rest) THEN Free ELSE Len(rest)
    IN  /\ flight' = flight \cup {rest[i] : i \in 1 .. n}
        /\ rest' = SubSeq(rest, n + 1, Len(rest))

Top ==
    /\ pc = "top"
    /\ IF now >= Effective
       THEN pc' = "ended" /\ UNCHANGED <<flight, rest>>
       ELSE pc' = "select" /\ Fill
    /\ UNCHANGED <<input, ready, now, until, best, found, seen, failed>>

(* A probe ends (verify_one, verify_one_wg): with a round-trip time, or      *)
(* with an error, a time-out included.                                       *)
ProbeEnds(c) ==
    /\ pc = "select" /\ c \in flight
    /\ flight' = flight \ {c}
    /\ \E r \in Rtts \cup {NoResult} : ready' = Append(ready, [cand |-> c, rtt |-> r])
    /\ UNCHANGED <<pc, input, rest, now, until, best, found, seen, failed>>

(* A candidate that does not work ends the hunt instead of the round. *)
FailureEnds ==
    /\ pc = "select" /\ ready # <<>> /\ Head(ready).rtt = NoResult
    /\ ready' = Tail(ready) /\ failed' = failed \cup {Head(ready).cand}
    /\ pc' = "ended"
    /\ UNCHANGED <<input, rest, flight, now, until, best, found, seen>>

ProbeFailed ==
    /\ pc = "select" /\ ready # <<>> /\ Head(ready).rtt = NoResult
    /\ ready' = Tail(ready) /\ failed' = failed \cup {Head(ready).cand}
    /\ pc' = "top"
    /\ UNCHANGED <<input, rest, flight, now, until, best, found, seen>>

Latest(pr) == pr
Better(pr) == IF best # NoResult /\ best.rtt <= pr.rtt THEN best ELSE pr

(* Is this the answer that reaches target_successes?  Asked until one did.   *)
TargetAtOnce  == st.target > 0 /\ until = NoResult
TargetReached == st.target > 0 /\ found + 1 >= st.target /\ until = NoResult

(* A working candidate.  With early_exit_first it is the answer; otherwise   *)
(* reaching the target starts the quiet period, once.                        *)
ProbeOk ==
    /\ pc = "select" /\ ready # <<>> /\ Head(ready).rtt # NoResult
    /\ ready' = Tail(ready) /\ seen' = seen \cup {Head(ready)}
    /\ \/ /\ st.early
          /\ best' = Head(ready) /\ pc' = "ended" /\ UNCHANGED <<found, until>>
       \/ /\ ~st.early
          /\ best' = Better(Head(ready)) /\ found' = found + 1
          /\ IF TargetReached
             THEN IF st.quiet # 0
                  THEN until' = now + st.quiet /\ pc' = "top"
                  ELSE pc' = "ended" /\ UNCHANGED until
             ELSE pc' = "top" /\ UNCHANGED until
    /\ UNCHANGED <<input, rest, flight, now, failed>>

(* The stream is exhausted. *)
StreamEnds ==
    /\ pc = "select" /\ rest = <<>> /\ flight = {} /\ ready = <<>>
    /\ pc' = "ended"
    /\ UNCHANGED <<input, rest, flight, ready, now, until, best, found, seen, failed>>

(* The sleep of the select ends; an answer that is also ready may be lost.   *)
Sleep ==
    /\ pc = "select" /\ now >= Effective
    /\ pc' = "ended"
    /\ UNCHANGED <<input, rest, flight, ready, now, until, best, found, seen, failed>>

Tick ==
    /\ pc = "select" /\ now < Horizon
    /\ now' = now + 1
    /\ UNCHANGED <<pc, input, rest, flight, ready, until, best, found, seen, failed>>

Loop == Start \/ Top \/ ProbeFailed \/ ProbeOk \/ StreamEnds \/ Sleep
Next == Loop \/ Tick \/ \E c \in Cands : ProbeEnds(c)

Spec == Init /\ [][Next]_vars

(* The runtime polls the task and time passes; a probe may never end.        *)
FairSpec == Spec /\ WF_vars(Loop) /\ WF_vars(Tick)

-----------------------------------------------------------------------------
(* Properties. *)

(* Every variable keeps its type.                                            *)
TypeOK ==
    /\ pc \in {"start", "top", "select", "ended"} /\ st \in Modes /\ ip \in Families
    /\ host6 \in BOOLEAN /\ rest \in Seq(Cands) /\ flight \subseteq Cands
    /\ ready \in Seq([cand : Cands, rtt : Rtts \cup {NoResult}])
    /\ now \in 0 .. Horizon /\ until \in Nat \cup {NoResult}
    /\ best \in Results \cup {NoResult} /\ found \in Nat
    /\ seen \subseteq Results /\ failed \subseteq Cands

(* Whatever the order of the answers and however the loop ended, the hunt    *)
(* returns the fastest gateway it was told of, and an error only if it was   *)
(* told of none.                                                             *)
FastestWins ==
    pc = "ended" =>
        /\ best = NoResult <=> seen = {}
        /\ best # NoResult => best \in seen /\ \A s \in seen : best.rtt <= s.rtt

(* The inductive strengthening: the same holds all along, and a hunt that    *)
(* exits early has been told of nothing before.                              *)
BestSoFar ==
    /\ best = NoResult <=> seen = {}
    /\ best # NoResult => best \in seen /\ \A s \in seen : best.rtt <= s.rtt
    /\ st.early /\ pc # "ended" => seen = {}

(* A hunt gives up only when it may: the deadline has passed, the host has   *)
(* no route for the only family asked for, or every candidate was tried.     *)
GivesUpHonestly ==
    pc = "ended" /\ best = NoResult =>
        \/ now >= Deadline
        \/ ip = "v6" /\ ~host6
        \/ \A i \in 1 .. Len(Candidates) : Candidates[i] \in failed

(* A hunt that has a gateway stops looking for a faster one only when it     *)
(* may: at the deadline, once it was told of every candidate, or when the    *)
(* target was reached and the quiet period after it, if there is one, is     *)
(* over.  The loop breaks in four places; a hunt that exits early is exempt. *)
Told(c)   == c \in failed \/ \E s \in seen : s.cand = c
TargetMet == st.target > 0 /\ found >= st.target

StopsForReason ==
    pc = "ended" /\ best # NoResult /\ ~st.early =>
        \/ now >= Deadline
        \/ \A i \in 1 .. Len(Candidates) : Told(Candidates[i])
        \/ TargetMet /\ IF until = NoResult THEN st.quiet = 0 ELSE now >= until

(* The inductive strengthening of both: no candidate goes missing between    *)
(* the iterator, the probes, the answers and what the loop was told, and a   *)
(* quiet period shortens the time only after the target.                     *)
Accounted(c) ==
    \/ Told(c) \/ c \in flight
    \/ \E k \in 1 .. Len(rest) : rest[k] = c
    \/ \E k \in 1 .. Len(ready) : ready[k].cand = c

HuntInv ==
    /\ pc = "start" => best = NoResult
    /\ until # NoResult => best # NoResult /\ TargetMet
    /\ pc \in {"top", "select"} =>
          \A i \in 1 .. Len(Candidates) : Accounted(Candidates[i])
    /\ GivesUpHonestly /\ StopsForReason

(* A hunt always ends, even when a probe never answers.                      *)
HuntEnds == <>(pc = "ended")
=============================================================================
