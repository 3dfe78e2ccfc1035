----------------------------- MODULE HuntProofs -----------------------------
(***************************************************************************)
(* Proofs about Hunt, for any candidates, strategies and times: type        *)
(* correctness, that a hunt returns the fastest gateway it was told of, and  *)
(* that it gives up, or stops looking, only when it may.                     *)
(***************************************************************************)
EXTENDS Hunt, FiniteSetTheorems, SequenceTheorems, TLAPS

Answers == [cand : Cands, rtt : Rtts \cup {NoResult}]

-----------------------------------------------------------------------------
(* The head of the answers, once it is known to be a success, is a result.   *)

LEMMA HeadType ==
    ASSUME TypeOK, ready # <<>>
    PROVE  /\ Head(ready) \in Answers /\ Tail(ready) \in Seq(Answers)
           /\ Head(ready).cand \in Cands
           /\ Head(ready).rtt # NoResult => Head(ready) \in Results
<1>1. ready \in Seq(Answers)
  BY DEF TypeOK, Answers
<1>2. Head(ready) \in Answers /\ Tail(ready) \in Seq(Answers)
  BY <1>1
<1> QED BY <1>2 DEF Answers, Results

(* What Better keeps is a result at least as fast as both. *)
LEMMA BetterIsFaster ==
    ASSUME TypeOK, NEW pr \in Results
    PROVE  /\ Better(pr) \in Results /\ Better(pr).rtt <= pr.rtt
           /\ best # NoResult => Better(pr).rtt <= best.rtt
           /\ Better(pr) = pr \/ (best # NoResult /\ Better(pr) = best)
<1>1. best # NoResult => best \in Results /\ best.rtt \in Nat
  BY HuntAssumption DEF TypeOK, Results
<1>2. pr.rtt \in Nat
  BY HuntAssumption DEF Results
<1> QED BY <1>1, <1>2 DEF Better

-----------------------------------------------------------------------------
(* Type correctness. *)

LEMMA TypeInit == Init => TypeOK
<1> SUFFICES ASSUME Init PROVE TypeOK
  OBVIOUS
<1>1. /\ pc \in {"start", "top", "select", "ended"} /\ st \in Modes /\ ip \in Families
      /\ host6 \in BOOLEAN
  BY DEF Init
<1>2. rest \in Seq(Cands) /\ ready \in Seq([cand : Cands, rtt : Rtts \cup {NoResult}])
  BY DEF Init
<1>3. now \in 0 .. Horizon /\ found \in Nat /\ until = NoResult /\ best = NoResult
  BY HuntAssumption DEF Init
<1>4. flight \subseteq Cands /\ seen \subseteq Results /\ failed \subseteq Cands
  BY DEF Init
<1> QED BY <1>1, <1>2, <1>3, <1>4 DEF TypeOK

LEMMA CandidatesType == TypeOK => Candidates \in Seq(Cands)
<1> SUFFICES ASSUME TypeOK PROVE Candidates \in Seq(Cands)
  OBVIOUS
<1>1. EffectiveIp \in Families
  BY DEF EffectiveIp, Families, TypeOK
<1> QED BY <1>1, HuntAssumption DEF Candidates

(* Needed for typing: with this the number of free slots is a natural        *)
(* number.                                                                   *)
Slots == IsFiniteSet(flight) /\ Cardinality(flight) + Len(ready) <= st.concurrency

LEMMA SlotNumbers ==
    ASSUME TypeOK, Slots
    PROVE  /\ Cardinality(flight) \in Nat /\ Len(ready) \in Nat /\ Len(rest) \in Nat
           /\ st.concurrency \in Nat \ {0} /\ Free \in Nat
<1>1. Cardinality(flight) \in Nat
  BY FS_CardinalityType DEF Slots
<1>2. Len(ready) \in Nat /\ Len(rest) \in Nat
  BY DEF TypeOK
<1>3. st.concurrency \in Nat \ {0}
  BY HuntAssumption DEF TypeOK, Strategy
<1> QED BY <1>1, <1>2, <1>3 DEF Slots, Free

LEMMA FirstOfRest ==
    ASSUME TypeOK, NEW n \in 0 .. Len(rest)
    PROVE  /\ {rest[i] : i \in 1 .. n} \subseteq Cands
           /\ IsFiniteSet({rest[i] : i \in 1 .. n})
           /\ Cardinality({rest[i] : i \in 1 .. n}) <= n
           /\ SubSeq(rest, n + 1, Len(rest)) \in Seq(Cands)
<1> DEFINE T == {rest[i] : i \in 1 .. n}
           f == [i \in 1 .. n |-> rest[i]]
<1>1. \A i \in 1 .. Len(rest) : rest[i] \in Cands
  BY DEF TypeOK
<1>2. n \in Nat /\ Len(rest) \in Nat
  BY DEF TypeOK
<1>3. f \in Surjection(1 .. n, T)
  BY DEF Surjection
<1>4. IsFiniteSet(1 .. n) /\ Cardinality(1 .. n) = n
  BY <1>2, FS_Interval
<1>5. IsFiniteSet(T) /\ Cardinality(T) <= n
  BY <1>3, <1>4, FS_Surjection
<1>6. SubSeq(rest, n + 1, Len(rest)) \in Seq(Cands)
  BY <1>1, <1>2, SubSeqProperties
<1> QED BY <1>1, <1>2, <1>5, <1>6

LEMMA FillType ==
    ASSUME TypeOK, Slots, Fill, ready' = ready, st' = st
    PROVE  flight' \subseteq Cands /\ rest' \in Seq(Cands) /\ Slots'
<1> DEFINE n == IF Free < Len(rest) THEN Free ELSE Len(rest)
           T == {rest[i] : i \in 1 .. n}
<1>1. n \in 0 .. Len(rest) /\ n <= Free
  BY SlotNumbers
<1>2. /\ T \subseteq Cands /\ IsFiniteSet(T) /\ Cardinality(T) <= n
      /\ SubSeq(rest, n + 1, Len(rest)) \in Seq(Cands)
  BY <1>1, FirstOfRest
<1>3. flight' = flight \cup T /\ rest' = SubSeq(rest, n + 1, Len(rest))
  BY DEF Fill
<1>4. flight' \subseteq Cands /\ rest' \in Seq(Cands)
  BY <1>2, <1>3 DEF TypeOK
<1>5. IsFiniteSet(flight')
  BY <1>2, <1>3, FS_Union DEF Slots
<1>6. Cardinality(flight') = Cardinality(flight) + Cardinality(T) - Cardinality(flight \cap T)
  BY <1>2, <1>3, FS_Union DEF Slots
<1>7. Cardinality(T) \in Nat /\ Cardinality(flight \cap T) \in Nat
  BY <1>2, FS_CardinalityType, FS_Intersection
<1>8. Cardinality(flight') + Len(ready) <= st.concurrency
  <2>1. Free = st.concurrency - (Cardinality(flight) + Len(ready)) BY DEF Free
  <2> HIDE DEF n, T
  <2> QED BY <1>1, <1>2, <1>6, <1>7, <2>1, SlotNumbers
<1> QED BY <1>4, <1>5, <1>8 DEF Slots

LEMMA TailShorter ==
    ASSUME TypeOK, Slots, ready # <<>>, ready' = Tail(ready), flight' = flight, st' = st
    PROVE  Slots'
<1>1. Len(Tail(ready)) = Len(ready) - 1
  BY DEF TypeOK
<1> QED BY <1>1, SlotNumbers DEF Slots

LEMMA TypeNext == TypeOK /\ Slots /\ [Next]_vars => TypeOK' /\ Slots'
<1> SUFFICES ASSUME TypeOK, Slots, [Next]_vars PROVE TypeOK' /\ Slots'
  OBVIOUS
<1>1. CASE Start
  <2>1. rest' \in Seq(Cands) BY <1>1, CandidatesType DEF Start, TypeOK
  <2> QED BY <1>1, <2>1 DEF Start, TypeOK, Slots, input
<1>2. CASE Top
  <2>1. CASE now >= Effective
    BY <1>2, <2>1 DEF Top, TypeOK, Slots, input
  <2>2. CASE ~(now >= Effective)
    <3>1. Fill /\ ready' = ready /\ st' = st BY <1>2, <2>2 DEF Top, input
    <3>2. flight' \subseteq Cands /\ rest' \in Seq(Cands) /\ Slots' BY <3>1, FillType
    <3> QED BY <1>2, <2>2, <3>2 DEF Top, TypeOK, input
  <2> QED BY <2>1, <2>2
<1>3. ASSUME NEW c \in Cands, ProbeEnds(c) PROVE TypeOK' /\ Slots'
  <2>1. PICK r \in Rtts \cup {NoResult} : ready' = Append(ready, [cand |-> c, rtt |-> r])
    BY <1>3 DEF ProbeEnds
  <2>2. ready' \in Seq(Answers) /\ Len(ready') = Len(ready) + 1
    BY <2>1 DEF TypeOK, Answers
  <2>3. TypeOK'
    BY <1>3, <2>2 DEF ProbeEnds, TypeOK, Answers, input
  <2>4. IsFiniteSet(flight') /\ Cardinality(flight') = Cardinality(flight) - 1
    BY <1>3, FS_RemoveElement DEF ProbeEnds, Slots
  <2>5. Slots'
    BY <1>3, <2>2, <2>4, SlotNumbers DEF ProbeEnds, Slots, input
  <2> QED BY <2>3, <2>5
<1>4. CASE ProbeFailed
  <2>1. Slots' BY <1>4, TailShorter DEF ProbeFailed, input
  <2> QED BY <1>4, <2>1, HeadType DEF ProbeFailed, TypeOK, Answers, input
<1>5. CASE ProbeOk
  <2>1. Slots' BY <1>5, TailShorter DEF ProbeOk, input
  <2>2. Head(ready) \in Results /\ Tail(ready) \in Seq(Answers)
    BY <1>5, HeadType DEF ProbeOk
  <2>3. best' \in Results
    BY <1>5, <2>2, BetterIsFaster DEF ProbeOk
  <2>4. now + st.quiet \in Nat /\ found + 1 \in Nat
    BY HuntAssumption DEF TypeOK, Strategy
  <2>5. /\ pc' \in {"start", "top", "select", "ended"} /\ found' \in Nat
        /\ until' \in Nat \cup {NoResult}
    BY <1>5, <2>4 DEF ProbeOk, TypeOK
  <2> QED BY <1>5, <2>1, <2>2, <2>3, <2>5 DEF ProbeOk, TypeOK, Answers, input
<1>6. CASE StreamEnds \/ Sleep
  BY <1>6 DEF StreamEnds, Sleep, TypeOK, Slots, input
<1>7. CASE Tick
  BY <1>7, HuntAssumption DEF Tick, TypeOK, Slots, input
<1>8. CASE UNCHANGED vars
  BY <1>8 DEF vars, input, TypeOK, Slots
<1> QED BY <1>1, <1>2, <1>3, <1>4, <1>5, <1>6, <1>7, <1>8 DEF Next, Loop

LEMMA SlotsInit == Init => Slots
<1> SUFFICES ASSUME Init PROVE Slots
  OBVIOUS
<1>1. st.concurrency \in Nat
  BY HuntAssumption DEF Init, Strategy
<1>2. IsFiniteSet(flight) /\ Cardinality(flight) = 0 /\ Len(ready) = 0
  BY FS_EmptySet DEF Init
<1> QED BY <1>1, <1>2 DEF Slots

(* Every variable of a hunt keeps its type. *)
THEOREM TypeCorrect == Spec => []TypeOK
BY SlotsInit, TypeInit, TypeNext, PTL DEF Spec

-----------------------------------------------------------------------------
(* The fastest gateway wins. *)

LEMMA BestInit == Init => BestSoFar
BY DEF Init, BestSoFar

LEMMA BestNext == TypeOK /\ BestSoFar /\ [Next]_vars => BestSoFar'
<1> SUFFICES ASSUME TypeOK, BestSoFar, [Next]_vars PROVE BestSoFar'
  OBVIOUS
<1>1. CASE ProbeOk
  <2> DEFINE pr == Head(ready)
  <2>1. pr \in Results /\ pr.rtt \in Nat /\ pc = "select" /\ seen' = seen \cup {pr} /\ st' = st
    BY <1>1, HeadType, HuntAssumption DEF ProbeOk, Results, input
  <2>2. \A s \in seen : s.rtt \in Nat
    BY HuntAssumption DEF TypeOK, Results
  <2> HIDE DEF pr
  <2>3. CASE st.early
    <3>1. seen = {} BY <2>1, <2>3 DEF BestSoFar
    <3>2. best' = pr /\ pc' = "ended" BY <1>1, <2>3 DEF ProbeOk, pr
    <3> QED BY <2>1, <3>1, <3>2, HuntAssumption DEF BestSoFar
  <2>4. CASE ~st.early
    <3>1. best' = Better(pr) BY <1>1, <2>4 DEF ProbeOk, pr
    <3>2. /\ best' \in Results /\ best'.rtt <= pr.rtt /\ best'.rtt \in Nat
          /\ best # NoResult => best'.rtt <= best.rtt
          /\ best' = pr \/ (best # NoResult /\ best' = best)
      BY <2>1, <3>1, BetterIsFaster, HuntAssumption DEF Results
    <3>3. best' # NoResult BY <3>2, HuntAssumption
    <3>4. best' \in seen' BY <2>1, <3>2 DEF BestSoFar
    <3>5. \A s \in seen' : best'.rtt <= s.rtt
      <4>1. SUFFICES ASSUME NEW s \in seen PROVE best'.rtt <= s.rtt
        BY <2>1, <3>2
      <4>2. best # NoResult /\ best.rtt <= s.rtt /\ best.rtt \in Nat
        BY <2>2 DEF BestSoFar
      <4> QED BY <2>2, <3>2, <4>2
    <3> QED BY <2>1, <2>4, <3>3, <3>4, <3>5 DEF BestSoFar
  <2> QED BY <2>3, <2>4
<1>2. CASE Start \/ Top \/ ProbeFailed \/ StreamEnds \/ Sleep \/ Tick
  BY <1>2 DEF Start, Top, ProbeFailed, StreamEnds, Sleep, Tick, BestSoFar, input
<1>3. ASSUME NEW c \in Cands, ProbeEnds(c) PROVE BestSoFar'
  BY <1>3 DEF ProbeEnds, BestSoFar, input
<1>4. CASE UNCHANGED vars
  BY <1>4 DEF vars, input, BestSoFar
<1> QED BY <1>1, <1>2, <1>3, <1>4 DEF Next, Loop

(* Whatever the order of the answers and however the loop ended, the hunt    *)
(* returns the fastest gateway it was told of, or an error if of none.       *)
THEOREM FastestReturned == Spec => []FastestWins
<1>1. BestSoFar => FastestWins
  BY DEF BestSoFar, FastestWins
<1>2. Spec => []TypeOK
  BY TypeCorrect
<1> QED BY <1>1, <1>2, BestInit, BestNext, PTL DEF Spec

-----------------------------------------------------------------------------
(* A hunt that ends has a reason to. *)

LEMMA HuntInit == Init => HuntInv
BY DEF Init, HuntInv, GivesUpHonestly, StopsForReason

(* When the loop finds no time left, either the deadline has passed or a     *)
(* quiet period is over, which starts only once the target is reached.       *)
LEMMA TimeIsUp ==
    ASSUME TypeOK, HuntInv, now >= Effective
    PROVE  \/ now >= Deadline
           \/ until # NoResult /\ now >= until /\ best # NoResult /\ TargetMet
<1>1. CASE until # NoResult /\ until < Deadline
  BY <1>1 DEF HuntInv, Effective
<1>2. CASE ~(until # NoResult /\ until < Deadline)
  BY <1>2 DEF Effective
<1> QED BY <1>1, <1>2

(* So a loop that ends for lack of time ends as both properties say. *)
LEMMA EndsInTime ==
    ASSUME TypeOK, HuntInv, now >= Effective,
           UNCHANGED <<input, now, until, best, found, seen, failed>>
    PROVE  GivesUpHonestly' /\ StopsForReason'
<1>1. CASE now >= Deadline
  BY <1>1 DEF GivesUpHonestly, StopsForReason
<1>2. CASE until # NoResult /\ now >= until /\ best # NoResult /\ TargetMet
  BY <1>2 DEF GivesUpHonestly, StopsForReason, TargetMet, input
<1> QED BY <1>1, <1>2, TimeIsUp

(* Filling the free slots moves candidates from the iterator to the probes. *)
LEMMA FillKeeps ==
    ASSUME TypeOK, Slots, Fill, UNCHANGED <<ready, seen, failed>>, NEW c \in Cands, Accounted(c)
    PROVE  Accounted(c)'
<1> DEFINE n == IF Free < Len(rest) THEN Free ELSE Len(rest)
<1>1. n \in 0 .. Len(rest) /\ Len(rest) \in Nat
  BY SlotNumbers
<1>2. flight' = flight \cup {rest[i] : i \in 1 .. n} /\ rest' = SubSeq(rest, n + 1, Len(rest))
  BY DEF Fill
<1> HIDE DEF n
<1>3. CASE Told(c) \/ c \in flight \/ \E k \in 1 .. Len(ready) : ready[k].cand = c
  BY <1>2, <1>3 DEF Accounted, Told
<1>4. ASSUME NEW k \in 1 .. Len(rest), rest[k] = c PROVE Accounted(c)'
  <2>1. CASE k <= n
    <3>1. k \in 1 .. n BY <1>1, <2>1
    <3>2. c \in flight' BY <1>2, <1>4, <3>1
    <3> QED BY <3>2 DEF Accounted
  <2>2. CASE k > n
    <3>1. rest \in Seq(Cands) BY DEF TypeOK
    <3>2. Len(rest') = Len(rest) - n /\ \A j \in 1 .. Len(rest) - n : rest'[j] = rest[n + j]
      BY <1>1, <1>2, <3>1
    <3>3. k - n \in 1 .. Len(rest') /\ rest'[k - n] = c
      BY <1>1, <1>4, <2>2, <3>2
    <3> QED BY <3>3 DEF Accounted
  <2> QED BY <1>1, <2>1, <2>2
<1> QED BY <1>3, <1>4 DEF Accounted

(* A probe that ends moves its candidate from the probes to the answers. *)
LEMMA ProbeEndsKeeps ==
    ASSUME TypeOK, NEW d \in Cands, ProbeEnds(d), NEW c \in Cands, Accounted(c)
    PROVE  Accounted(c)'
<1>1. PICK r \in Rtts \cup {NoResult} : ready' = Append(ready, [cand |-> d, rtt |-> r])
  BY DEF ProbeEnds
<1>2. ready \in Seq(Answers) BY DEF TypeOK, Answers
<1> DEFINE a == [cand |-> d, rtt |-> r]
<1>3. a \in Answers /\ a.cand = d BY DEF Answers
<1> HIDE DEF a
<1>4. ready' = Append(ready, a) BY <1>1 DEF a
<1>5. /\ Len(ready) \in Nat /\ Len(ready') = Len(ready) + 1 /\ ready'[Len(ready) + 1] = a
      /\ \A k \in 1 .. Len(ready) : ready'[k] = ready[k]
  BY <1>2, <1>3, <1>4
<1>6. \A k \in 1 .. Len(ready) : k \in 1 .. Len(ready') BY <1>5
<1>7. Len(ready) + 1 \in 1 .. Len(ready') BY <1>5
<1>8. flight' = flight \ {d} /\ rest' = rest /\ failed' = failed /\ seen' = seen
  BY DEF ProbeEnds
<1>9. CASE c = d BY <1>3, <1>5, <1>7, <1>9 DEF Accounted
<1>10. CASE c # d BY <1>5, <1>6, <1>8, <1>10 DEF Accounted, Told
<1> QED BY <1>9, <1>10

(* An answer that is taken moves its candidate to the ones the loop was told *)
(* of.                                                                       *)
LEMMA AnswerKeeps ==
    ASSUME TypeOK, ready # <<>>, ready' = Tail(ready), UNCHANGED <<flight, rest>>,
           NEW h, h = Head(ready).cand, Told(h)', \A c \in Cands : Told(c) => Told(c)',
           NEW c \in Cands, Accounted(c)
    PROVE  Accounted(c)'
<1>1. ready \in Seq(Answers)
  BY DEF TypeOK, Answers
<1>2. /\ Len(ready) \in Nat /\ Len(ready') = Len(ready) - 1 /\ Head(ready) = ready[1]
      /\ \A k \in 1 .. Len(ready') : ready'[k] = ready[k + 1]
  BY <1>1
<1>3. ASSUME NEW k \in 1 .. Len(ready), ready[k].cand = c PROVE Accounted(c)'
  <2>1. CASE k = 1
    <3>1. Told(c)' BY <1>2, <1>3, <2>1
    <3> QED BY <3>1 DEF Accounted
  <2>2. CASE k # 1
    <3>1. k - 1 \in 1 .. Len(ready') /\ ready'[k - 1] = ready[k] BY <1>2, <2>2
    <3> QED BY <1>3, <3>1 DEF Accounted
  <2> QED BY <2>1, <2>2
<1> QED BY <1>3 DEF Accounted

LEMMA ProbeFailedKeeps ==
    ASSUME TypeOK, ProbeFailed, NEW c \in Cands, Accounted(c)
    PROVE  Accounted(c)'
<1>1. PICK h : h = Head(ready).cand
  OBVIOUS
<1>2. Told(h)' /\ \A d \in Cands : Told(d) => Told(d)'
  BY <1>1 DEF ProbeFailed, Told
<1> QED BY <1>1, <1>2, AnswerKeeps DEF ProbeFailed

LEMMA ProbeOkKeeps ==
    ASSUME TypeOK, ProbeOk, NEW c \in Cands, Accounted(c)
    PROVE  Accounted(c)'
<1>1. PICK h : h = Head(ready).cand
  OBVIOUS
<1>2. Told(h)' /\ \A d \in Cands : Told(d) => Told(d)'
  BY <1>1 DEF ProbeOk, Told
<1> QED BY <1>1, <1>2, AnswerKeeps DEF ProbeOk

LEMMA CandidatesSame == UNCHANGED input => Candidates' = Candidates
BY DEF input, Candidates, EffectiveIp

LEMMA HuntNext == TypeOK /\ Slots /\ BestSoFar /\ HuntInv /\ [Next]_vars => HuntInv'
<1> SUFFICES ASSUME TypeOK, Slots, BestSoFar, HuntInv, [Next]_vars PROVE HuntInv'
  OBVIOUS
<1>0. /\ Candidates' = Candidates /\ UNCHANGED <<st, ip, host6>>
      /\ \A i \in 1 .. Len(Candidates) : Candidates[i] \in Cands
  <2>1. UNCHANGED input
    BY DEF Next, Loop, Start, Top, ProbeEnds, ProbeFailed, ProbeOk, StreamEnds, Sleep, Tick, vars
  <2>2. Candidates \in Seq(Cands) BY CandidatesType
  <2> QED BY <2>1, <2>2, CandidatesSame DEF input
<1>1. CASE Start
  <2>1. UNCHANGED <<until, best, found, now, failed, seen, flight, ready>> /\ pc = "start"
    BY <1>1 DEF Start
  <2>2. (until # NoResult => best # NoResult /\ TargetMet)'
    BY <1>0, <2>1 DEF HuntInv, TargetMet
  <2>3. CASE ip = "v6" /\ ~host6
    <3>1. pc' = "ended" BY <1>1, <2>3 DEF Start
    <3>2. best = NoResult BY <2>1 DEF HuntInv
    <3> QED BY <1>0, <2>1, <2>2, <2>3, <3>1, <3>2 DEF HuntInv, GivesUpHonestly, StopsForReason
  <2>4. CASE ~(ip = "v6" /\ ~host6)
    <3>1. pc' = "top" /\ rest' = Candidates BY <1>1, <2>4 DEF Start
    <3>2. \A i \in 1 .. Len(Candidates) : Accounted(Candidates[i])' BY <1>0, <3>1 DEF Accounted
    <3> QED BY <1>0, <2>2, <3>1, <3>2 DEF HuntInv, GivesUpHonestly, StopsForReason
  <2> QED BY <2>3, <2>4
<1>2. CASE Top
  <2>1. UNCHANGED <<input, until, best, found, now, failed, seen, ready>> /\ pc = "top"
    BY <1>2 DEF Top
  <2>2. (until # NoResult => best # NoResult /\ TargetMet)'
    BY <1>0, <2>1 DEF HuntInv, TargetMet
  <2>3. CASE now >= Effective
    <3>1. pc' = "ended" BY <1>2, <2>3 DEF Top
    <3>2. GivesUpHonestly' /\ StopsForReason' BY <2>1, <2>3, EndsInTime
    <3> QED BY <2>2, <3>1, <3>2 DEF HuntInv
  <2>4. CASE ~(now >= Effective)
    <3>1. pc' = "select" /\ Fill BY <1>2, <2>4 DEF Top
    <3>2. \A c \in Cands : Accounted(c) => Accounted(c)' BY <2>1, <3>1, FillKeeps
    <3>3. \A i \in 1 .. Len(Candidates) : Accounted(Candidates[i])
      BY <2>1 DEF HuntInv
    <3> QED BY <1>0, <2>2, <3>1, <3>2, <3>3 DEF HuntInv, GivesUpHonestly, StopsForReason
  <2> QED BY <2>3, <2>4
<1>3. ASSUME NEW d \in Cands, ProbeEnds(d) PROVE HuntInv'
  <2>1. UNCHANGED <<pc, until, best, found, now>> /\ pc = "select" BY <1>3 DEF ProbeEnds
  <2>2. \A c \in Cands : Accounted(c) => Accounted(c)' BY <1>3, ProbeEndsKeeps
  <2> QED BY <1>0, <2>1, <2>2 DEF HuntInv, GivesUpHonestly, StopsForReason, TargetMet
<1>4. CASE ProbeFailed
  <2>1. UNCHANGED <<until, best, found, now>> /\ pc = "select" /\ pc' = "top"
    BY <1>4 DEF ProbeFailed
  <2>2. \A c \in Cands : Accounted(c) => Accounted(c)' BY <1>4, ProbeFailedKeeps
  <2> QED BY <1>0, <2>1, <2>2 DEF HuntInv, GivesUpHonestly, StopsForReason, TargetMet
<1>5. CASE ProbeOk
  <2>1. Head(ready) \in Results BY <1>5, HeadType DEF ProbeOk
  <2>2. best' \in Results BY <1>5, <2>1, BetterIsFaster DEF ProbeOk
  <2>3. best' # NoResult BY <2>2, HuntAssumption
  <2>4. \A c \in Cands : Accounted(c) => Accounted(c)' BY <1>5, ProbeOkKeeps
  <2>5. \A i \in 1 .. Len(Candidates) : Accounted(Candidates[i])
    BY <1>5 DEF HuntInv, ProbeOk
  <2>6. st.target \in Nat /\ found \in Nat
    BY HuntAssumption DEF TypeOK, Strategy
  <2>7. CASE st.early
    <3>1. pc' = "ended" /\ UNCHANGED <<found, until>> BY <1>5, <2>7 DEF ProbeOk
    <3> QED BY <1>0, <2>3, <2>7, <3>1
         DEF HuntInv, GivesUpHonestly, StopsForReason, TargetMet
  <2>8. CASE ~st.early
    <3>1. found' = found + 1 BY <1>5, <2>8 DEF ProbeOk
    <3>2. CASE TargetReached
      <4>1. TargetMet' BY <1>0, <3>1, <3>2 DEF TargetMet, TargetReached
      <4>2. CASE st.quiet # 0
        <5>1. pc' = "top" BY <1>5, <2>8, <3>2, <4>2 DEF ProbeOk
        <5> QED BY <1>0, <2>3, <2>4, <2>5, <4>1, <5>1
             DEF HuntInv, GivesUpHonestly, StopsForReason
      <4>3. CASE st.quiet = 0
        <5>1. pc' = "ended" /\ until' = NoResult
          BY <1>5, <2>8, <3>2, <4>3 DEF ProbeOk, TargetReached
        <5> QED BY <1>0, <2>3, <4>1, <4>3, <5>1
             DEF HuntInv, GivesUpHonestly, StopsForReason
      <4> QED BY <4>2, <4>3
    <3>3. CASE ~TargetReached
      <4>1. pc' = "top" /\ until' = until BY <1>5, <2>8, <3>3 DEF ProbeOk
      <4>2. until # NoResult => TargetMet'
        BY <1>0, <2>6, <3>1 DEF HuntInv, TargetMet
      <4> QED BY <1>0, <2>3, <2>4, <2>5, <4>1, <4>2
           DEF HuntInv, GivesUpHonestly, StopsForReason
    <3> QED BY <3>2, <3>3
  <2> QED BY <2>7, <2>8
<1>6. CASE StreamEnds
  <2>1. /\ UNCHANGED <<until, best, found, now, failed, seen>> /\ pc = "select" /\ pc' = "ended"
        /\ rest = <<>> /\ flight = {} /\ ready = <<>>
    BY <1>6 DEF StreamEnds
  <2>2. \A c \in Cands : Accounted(c) => Told(c) /\ Told(c)' BY <2>1 DEF Accounted, Told
  <2>3. \A i \in 1 .. Len(Candidates) : Told(Candidates[i]) /\ Told(Candidates[i])'
    BY <1>0, <2>1, <2>2 DEF HuntInv
  <2>4. best = NoResult => \A i \in 1 .. Len(Candidates) : Candidates[i] \in failed
    BY <2>3 DEF BestSoFar, Told
  <2>5. GivesUpHonestly'
    BY <1>0, <2>1, <2>4 DEF GivesUpHonestly
  <2>6. StopsForReason'
    BY <1>0, <2>3 DEF StopsForReason
  <2> QED BY <1>0, <2>1, <2>5, <2>6 DEF HuntInv, TargetMet
<1>7. CASE Sleep
  <2>1. /\ UNCHANGED <<input, until, best, found, now, seen, failed>>
        /\ pc' = "ended" /\ now >= Effective
    BY <1>7 DEF Sleep
  <2>2. GivesUpHonestly' /\ StopsForReason' BY <2>1, EndsInTime
  <2> QED BY <1>0, <2>1, <2>2 DEF HuntInv, TargetMet
<1>8. CASE Tick
  <2>1. UNCHANGED <<pc, until, best, found, failed, seen, flight, rest, ready>> /\ pc = "select"
    BY <1>8 DEF Tick
  <2> QED BY <1>0, <2>1
       DEF HuntInv, GivesUpHonestly, StopsForReason, TargetMet, Accounted, Told
<1>9. CASE UNCHANGED vars
  BY <1>0, <1>9 DEF vars, HuntInv, GivesUpHonestly, StopsForReason, TargetMet, Accounted, Told
<1> QED BY <1>1, <1>2, <1>3, <1>4, <1>5, <1>6, <1>7, <1>8, <1>9 DEF Next, Loop

LEMMA HuntInvariant == Spec => []HuntInv
BY SlotsInit, TypeInit, TypeNext, BestInit, BestNext, HuntInit, HuntNext, PTL DEF Spec

(* A hunt that finds nothing has reached its deadline, has no route for the  *)
(* only family asked for, or was told of every candidate that it does not    *)
(* work: no candidate gets lost among the probes.                            *)
THEOREM NoCandidateLost == Spec => []GivesUpHonestly
<1>1. HuntInv => GivesUpHonestly BY DEF HuntInv
<1> QED BY <1>1, HuntInvariant, PTL

(* A hunt that has a gateway goes on looking for a faster one until its      *)
(* deadline, the end of the candidates, or the end of the quiet period that  *)
(* the target starts.                                                        *)
THEOREM StopsWhenItMay == Spec => []StopsForReason
<1>1. HuntInv => StopsForReason BY DEF HuntInv
<1> QED BY <1>1, HuntInvariant, PTL
=============================================================================
