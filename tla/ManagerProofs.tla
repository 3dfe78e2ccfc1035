---------------------------- MODULE ManagerProofs ----------------------------
(***************************************************************************)
(* Proofs about AetherManager, for any number of engines, lines and clicks: *)
(* type correctness, that an engine nobody stopped is lost only when the    *)
(* lives of two engines overlap, and that a proxy which was switched on is  *)
(* not forgotten unless an enable and a disable were in flight together.    *)
(***************************************************************************)
EXTENDS AetherManager, TLAPS

-----------------------------------------------------------------------------
(* Queues. *)

LEMMA QueueFacts ==
    ASSUME NEW S, NEW q \in Seq(S)
    PROVE  /\ Len(q) \in Nat
           /\ \A x \in S : /\ Append(q, x) \in Seq(S) /\ Len(Append(q, x)) = Len(q) + 1
                           /\ Append(q, x)[Len(q) + 1] = x
                           /\ \A i \in 1 .. Len(q) : Append(q, x)[i] = q[i]
           /\ q # <<>> => /\ Head(q) \in S /\ Head(q) = q[1] /\ Tail(q) \in Seq(S)
                          /\ Len(Tail(q)) = Len(q) - 1 /\ Len(q) >= 1
                          /\ \A i \in 1 .. Len(Tail(q)) : Tail(q)[i] = q[i + 1]
OBVIOUS

(* The three kinds of block are blocks, and only one of them ends an engine. *)
LEMMA BlockTypes ==
    /\ \A S \in SUBSET Phrases : LogBlock(S) \in Blocks /\ LogBlock(S).kind # "ended"
    /\ \A p \in Procs : EndedBlock(p) \in Blocks /\ EndedBlock(p).kind = "ended"
                          /\ EndedBlock(p).proc = p
    /\ \A b \in BOOLEAN : ActiveBlock(b) \in Blocks /\ ActiveBlock(b).kind # "ended"
<1>1. \A p \in Procs : p \in 0 .. MaxProcs
  BY ManagerAssumption DEF Procs
<1>2. NoProc \in 0 .. MaxProcs
  BY ManagerAssumption DEF NoProc
<1> QED BY <1>1, <1>2 DEF LogBlock, EndedBlock, ActiveBlock, Blocks

-----------------------------------------------------------------------------
(* Type correctness. *)

LEMMA TypeInit == Init => TypeOK
<1> SUFFICES ASSUME Init PROVE TypeOK
  OBVIOUS
<1>0. /\ 0 \in 0 .. MaxProcs /\ 0 \in 0 .. MaxLines /\ 0 \in 0 .. MaxToggles
      /\ 0 \in Nat /\ NoProc = 0
  BY ManagerAssumption DEF NoProc
<1>1. ProcType
  <2>1. overlap \in BOOLEAN /\ term \subseteq Procs BY Zenon DEF Init
  <2>2. process \in 0 .. MaxProcs /\ launched \in 0 .. MaxProcs BY <1>0 DEF Init
  <2>3. ps \in [Procs -> {"none", "running", "exited", "reaped", "buried"}] BY DEF Init
  <2> QED BY <2>1, <2>2, <2>3 DEF ProcType
<1>2. QueueType
  <2>0. <<>> \in Seq(Phrases) /\ <<>> \in Seq(Blocks) OBVIOUS
  <2>1. pipe \in [Procs -> Seq(Phrases)] BY <2>0 DEF Init
  <2>2. lines \in [Procs -> 0 .. MaxLines] BY ManagerAssumption DEF Init
  <2>3. mainQ \in Seq(Blocks) /\ timers \in Nat BY <2>0 DEF Init
  <2> QED BY <2>1, <2>2, <2>3 DEF QueueType
<1>3. ProxyType
  <2>1. enabled \in BOOLEAN /\ active \in BOOLEAN /\ osProxy \in BOOLEAN /\ raced \in BOOLEAN
      /\ failed \in BOOLEAN /\ stray \in BOOLEAN
    BY Zenon DEF Init
  <2>2. toggles \in 0 .. MaxToggles /\ jobs \in [Phases -> Nat] BY <1>0 DEF Init
  <2>3. state \in States BY DEF Init, States
  <2> QED BY <2>1, <2>2, <2>3 DEF ProxyType
<1> QED BY <1>1, <1>2, <1>3 DEF TypeOK

LEMMA TypeUnchanged ==
    ASSUME TypeOK
    PROVE  /\ UNCHANGED procVars => ProcType'
           /\ UNCHANGED <<pipeVars, mainQ, timers>> => QueueType'
           /\ UNCHANGED <<state, active, proxyVars>> => ProxyType'
BY DEF TypeOK, ProcType, QueueType, ProxyType, procVars, pipeVars, proxyVars

LEMMA DispatchType ==
    ASSUME TypeOK
    PROVE  /\ \A on \in BOOLEAN : Dispatch(on) => jobs' \in [Phases -> Nat] /\ raced' \in BOOLEAN
           /\ NoDispatch => jobs' \in [Phases -> Nat] /\ raced' \in BOOLEAN
           /\ DisableIfActive => jobs' \in [Phases -> Nat] /\ raced' \in BOOLEAN
<1>1. ASSUME NEW on \in BOOLEAN, Dispatch(on)
      PROVE  jobs' \in [Phases -> Nat] /\ raced' \in BOOLEAN
  <2>1. InFlight(~on) \in BOOLEAN BY DEF InFlight
  <2>2. raced' \in BOOLEAN BY <1>1, <2>1 DEF TypeOK, ProxyType, Dispatch
  <2>3. jobs' \in [Phases -> Nat] BY <1>1 DEF TypeOK, ProxyType, Dispatch, Phases
  <2> QED BY <2>2, <2>3
<1>2. NoDispatch => jobs' \in [Phases -> Nat] /\ raced' \in BOOLEAN
  BY DEF TypeOK, ProxyType, NoDispatch
<1> QED BY <1>1, <1>2 DEF DisableIfActive

LEMMA StartType ==
    ASSUME TypeOK, Start
    PROVE  ProcType' /\ state' \in States
<1>1. CASE Launch
  <2>1. launched + 1 \in Procs /\ launched + 1 \in 0 .. MaxProcs
    BY <1>1, ManagerAssumption DEF Launch, TypeOK, ProcType, Procs
  <2>2. overlap' \in BOOLEAN BY <1>1 DEF Launch, TypeOK, ProcType
  <2> QED BY <1>1, <2>1, <2>2 DEF Launch, TypeOK, ProcType, States
<1>2. CASE ~Launch
  BY <1>2, TypeUnchanged DEF Start, TypeOK, ProxyType, States
<1> QED BY <1>1, <1>2

LEMMA TerminateType ==
    ASSUME TypeOK, IsRunning, Terminate
    PROVE  ProcType'
<1>1. process \in Procs
  BY ManagerAssumption DEF TypeOK, ProcType, IsRunning, NoProc, Procs
<1>2. NoProc \in 0 .. MaxProcs BY ManagerAssumption DEF NoProc
<1> QED BY <1>1, <1>2 DEF TypeOK, ProcType, Terminate

LEMMA TypeUser ==
    ASSUME TypeOK, User \/ RestartTimer
    PROVE  TypeOK'
<1>1. CASE ClickStart \/ RestartTimer
  <2>1. ProcType' /\ state' \in States BY <1>1, StartType DEF ClickStart, RestartTimer
  <2>2. QueueType' BY <1>1 DEF TypeOK, QueueType, ClickStart, RestartTimer, pipeVars
  <2>3. ProxyType' BY <1>1, <2>1 DEF TypeOK, ProxyType, ClickStart, RestartTimer, proxyVars
  <2> QED BY <2>1, <2>2, <2>3 DEF TypeOK
<1>2. CASE ClickStop \/ Restart
  <2>1. ProcType' BY <1>2, TerminateType DEF ClickStop, Restart
  <2>2. QueueType' BY <1>2 DEF TypeOK, QueueType, ClickStop, Restart, pipeVars
  <2>3. jobs' \in [Phases -> Nat] /\ raced' \in BOOLEAN
    BY <1>2, DispatchType DEF ClickStop, Restart
  <2>4. ProxyType' BY <1>2, <2>3 DEF TypeOK, ProxyType, ClickStop, Restart, States
  <2> QED BY <2>1, <2>2, <2>4 DEF TypeOK
<1>3. CASE ToggleProxy
  <2>1. Dispatch(TRUE) \/ Dispatch(FALSE) \/ NoDispatch
    BY <1>3, Zenon DEF ToggleProxy, SwitchProxy
  <2>2. jobs' \in [Phases -> Nat] /\ raced' \in BOOLEAN BY <2>1, DispatchType
  <2>3. toggles' \in 0 .. MaxToggles
    BY <1>3, ManagerAssumption DEF TypeOK, ProxyType, ToggleProxy
  <2>4. ProxyType' BY <1>3, <2>2, <2>3 DEF TypeOK, ProxyType, ToggleProxy
  <2> QED BY <1>3, <2>4, TypeUnchanged DEF TypeOK, ToggleProxy
<1> QED BY <1>1, <1>2, <1>3 DEF User

LEMMA TypeMainBlock ==
    ASSUME TypeOK, MainBlock
    PROVE  TypeOK'
<1> DEFINE b == Head(mainQ)
<1>1. b \in Blocks /\ mainQ' \in Seq(Blocks)
  BY QueueFacts DEF MainBlock, TypeOK, QueueType
<1>2. QueueType' BY <1>1 DEF MainBlock, TypeOK, QueueType, pipeVars
<1>3. CASE b.kind = "log" /\ LogMessage(b.phrases)
  <2>1. jobs' \in [Phases -> Nat] /\ raced' \in BOOLEAN
    BY <1>3, DispatchType DEF LogMessage
  <2>2. state' \in States BY <1>3 DEF LogMessage, TypeOK, ProxyType, States
  <2>3. ProxyType' BY <1>3, <2>1, <2>2 DEF LogMessage, MainBlock, TypeOK, ProxyType
  <2> QED BY <1>2, <1>3, <2>3, TypeUnchanged DEF TypeOK, LogMessage
<1>4. CASE b.kind = "ended" /\ Ended(b.proc)
  <2>1. jobs' \in [Phases -> Nat] /\ raced' \in BOOLEAN BY <1>4, DispatchType DEF Ended
  <2>2. ProxyType' BY <1>4, <2>1 DEF Ended, MainBlock, TypeOK, ProxyType, States
  <2>3. NoProc \in 0 .. MaxProcs BY ManagerAssumption DEF NoProc
  <2>4. ProcType' BY <1>4, <2>3 DEF Ended, TypeOK, ProcType
  <2> QED BY <1>2, <2>2, <2>4 DEF TypeOK
<1>5. CASE RecordActive(b.on) /\ NoDispatch /\ UNCHANGED <<state, procVars>>
  <2>1. b.on \in BOOLEAN BY <1>1 DEF Blocks
  <2>2. ProxyType' BY <1>5, <2>1 DEF MainBlock, RecordActive, NoDispatch, TypeOK, ProxyType
  <2> QED BY <1>2, <1>5, <2>2, TypeUnchanged DEF TypeOK
<1> QED BY <1>3, <1>4, <1>5 DEF MainBlock

LEMMA TypeEngine ==
    ASSUME TypeOK, NEW p \in Procs, Engine(p) \/ Deliver(p)
    PROVE  TypeOK'
<1>0. ProxyType'
  BY TypeUnchanged DEF Engine, Deliver, EngineWrites, EngineExits, PipeRead, TerminationHandler
<1>1. ASSUME NEW m \in Phrases, EngineWrites(p, m) PROVE TypeOK'
  <2>1. pipe[p] \in Seq(Phrases) /\ lines[p] \in 0 .. MaxLines
    BY DEF TypeOK, QueueType
  <2>2. Append(pipe[p], m) \in Seq(Phrases) BY <2>1
  <2>3. lines[p] + 1 \in 0 .. MaxLines
    BY <1>1, <2>1, ManagerAssumption DEF EngineWrites
  <2>4. QueueType' BY <1>1, <2>2, <2>3 DEF TypeOK, QueueType, EngineWrites
  <2> QED BY <1>0, <1>1, <2>4, TypeUnchanged DEF TypeOK, EngineWrites
<1>2. CASE EngineExits(p)
  <2>1. ProcType' BY <1>2 DEF TypeOK, ProcType, EngineExits
  <2> QED BY <1>0, <1>2, <2>1, TypeUnchanged DEF TypeOK, EngineExits
<1>3. CASE PipeRead(p)
  <2>1. PICK n \in 1 .. Len(pipe[p]) :
           /\ mainQ' = Append(mainQ, LogBlock({pipe[p][i] : i \in 1 .. n}))
           /\ pipe' = [pipe EXCEPT ![p] = SubSeq(@, n + 1, Len(@))]
           /\ UNCHANGED <<state, procVars, lines, timers, active, proxyVars>>
    BY <1>3 DEF PipeRead
  <2>2. pipe[p] \in Seq(Phrases) /\ mainQ \in Seq(Blocks) BY DEF TypeOK, QueueType
  <2>3. SubSeq(pipe[p], n + 1, Len(pipe[p])) \in Seq(Phrases) BY <2>2
  <2>4. {pipe[p][i] : i \in 1 .. n} \in SUBSET Phrases BY <2>2
  <2>5. mainQ' \in Seq(Blocks) BY <2>1, <2>2, <2>4, BlockTypes
  <2>6. QueueType' BY <2>1, <2>3, <2>5 DEF TypeOK, QueueType
  <2> QED BY <1>0, <2>1, <2>6, TypeUnchanged DEF TypeOK
<1>4. CASE TerminationHandler(p)
  <2>1. mainQ' \in Seq(Blocks)
    BY <1>4, BlockTypes DEF TypeOK, QueueType, TerminationHandler
  <2>2. QueueType' BY <1>4, <2>1 DEF TypeOK, QueueType, TerminationHandler, pipeVars
  <2>3. ProcType' BY <1>4 DEF TypeOK, ProcType, TerminationHandler
  <2> QED BY <1>0, <2>2, <2>3 DEF TypeOK
<1> QED BY <1>1, <1>2, <1>3, <1>4 DEF Engine, Deliver

LEMMA TypeJobs ==
    ASSUME TypeOK, Jobs
    PROVE  TypeOK'
<1> USE DEF Phases
<1>1. ProcType'
  BY TypeUnchanged DEF Jobs, EnableSets, EnableApplies, DisableApplies, JobFails, JobReports
<1>2. CASE EnableSets \/ EnableApplies \/ DisableApplies \/ JobFails
  <2>1. jobs' \in [Phases -> Nat]
    BY <1>2 DEF TypeOK, ProxyType, EnableSets, EnableApplies, DisableApplies, JobFails, JobStep, JobOver
  <2>2. ProxyType'
    BY <1>2, <2>1 DEF TypeOK, ProxyType, EnableSets, EnableApplies, DisableApplies, JobFails
  <2>3. QueueType' BY <1>2, TypeUnchanged DEF EnableSets, EnableApplies, DisableApplies, JobFails
  <2> QED BY <1>1, <2>2, <2>3 DEF TypeOK
<1>3. ASSUME NEW on \in BOOLEAN, JobReports(on) PROVE TypeOK'
  <2>1. jobs' \in [Phases -> Nat] BY <1>3 DEF TypeOK, ProxyType, JobReports, JobOver
  <2>2. ProxyType' BY <1>3, <2>1 DEF TypeOK, ProxyType, JobReports
  <2>3. mainQ' \in Seq(Blocks) BY <1>3, BlockTypes DEF TypeOK, QueueType, JobReports
  <2>4. QueueType' BY <1>3, <2>3 DEF TypeOK, QueueType, JobReports, pipeVars
  <2> QED BY <1>1, <2>2, <2>4 DEF TypeOK
<1> QED BY <1>2, <1>3 DEF Jobs

LEMMA TypeStep == TypeOK /\ [Next]_vars => TypeOK'
<1> SUFFICES ASSUME TypeOK, [Next]_vars PROVE TypeOK'
  OBVIOUS
<1>1. CASE UNCHANGED vars BY <1>1, TypeUnchanged DEF vars, TypeOK
<1> QED BY <1>1, TypeUser, TypeMainBlock, TypeEngine, TypeJobs DEF Next

(* Every variable of the front end keeps its type. *)
THEOREM TypeCorrect == Spec => []TypeOK
BY TypeInit, TypeStep, PTL DEF Spec

-----------------------------------------------------------------------------
(* No engine is lost without overlap. *)

LEMMA LostInit == Init => ManagerInv
BY ManagerAssumption DEF Init, ManagerInv, NoLostEngine, Live, NoProc, Procs

(* start() refuses while the engine held runs, and without overlap no other  *)
(* is live: so the older ones are buried and the new one is the only live    *)
(* one, or overlap is set.                                                   *)
LEMMA LostStart ==
    ASSUME TypeOK, ManagerInv, Start, UNCHANGED mainQ
    PROVE  ManagerInv'
<1>1. CASE ~IsRunning /\ Launch
  <2>1. /\ launched \in Nat /\ launched' = launched + 1 /\ process' = launched + 1
        /\ launched + 1 \in Procs /\ ps' = [ps EXCEPT ![launched + 1] = "running"]
        /\ term' = term /\ Procs \subseteq Nat
    BY <1>1, ManagerAssumption DEF TypeOK, ProcType, Launch, Procs
  <2>2. \A p \in Procs : p # launched + 1 => ps'[p] = ps[p]
    BY <2>1 DEF TypeOK, ProcType
  <2>3. ps'[launched + 1] = "running"
    BY <2>1 DEF TypeOK, ProcType
  <2>4. ~overlap' => ~overlap /\ \A p \in Procs : p <= launched => ps[p] = "buried"
    <3>1. overlap' = (overlap \/ \E p \in 1 .. launched : ps[p] # "buried" /\ ~Live(p))
      BY <1>1 DEF Launch
    <3>2. \A p \in Procs : p <= launched => p \in 1 .. launched
      BY <2>1 DEF Procs
    <3>3. ~overlap => \A p \in Procs : ~Live(p)
      <4> SUFFICES ASSUME ~overlap, NEW p \in Procs, Live(p) PROVE FALSE
        OBVIOUS
      <4>1. process = p /\ ps[p] = "running" BY DEF ManagerInv, NoLostEngine, Live
      <4>2. process # NoProc BY <4>1 DEF Procs, NoProc
      <4> QED BY <1>1, <4>1, <4>2 DEF IsRunning
    <3>4. ~overlap' => ~overlap /\ \A p \in 1 .. launched : ps[p] = "buried" \/ Live(p)
      BY <3>1, Zenon
    <3> QED BY <3>2, <3>3, <3>4
  <2>5. \A p \in Procs : (ps'[p] = "none") <=> p > launched'
    <3> TAKE p \in Procs
    <3>1. p \in Nat /\ ((ps[p] = "none") <=> p > launched) BY <2>1 DEF ManagerInv
    <3>2. CASE p = launched + 1 BY <2>1, <2>3, <3>2
    <3>3. CASE p # launched + 1 BY <2>1, <2>2, <3>1, <3>3
    <3> QED BY <3>2, <3>3
  <2>6. \A i \in 1 .. Len(mainQ) :
           mainQ[i].kind = "ended" => mainQ[i].proc \in Procs /\ ps'[mainQ[i].proc] = "reaped"
    <3>1. ps[launched + 1] = "none" BY <2>1 DEF ManagerInv
    <3> QED BY <2>2, <3>1 DEF ManagerInv
  <2>7. ~overlap' => \A p \in Procs : p < launched' => ps'[p] = "buried"
    BY <2>1, <2>2, <2>4
  <2>8. ~overlap' => \A p \in Procs : ps'[p] = "running" => process' = p
    <3> SUFFICES ASSUME ~overlap', NEW p \in Procs, ps'[p] = "running" PROVE p = launched + 1
      BY <2>1
    <3>1. CASE p <= launched BY <2>1, <2>2, <2>4, <3>1
    <3>2. CASE p > launched + 1 BY <2>1, <2>5, <3>2
    <3> QED BY <2>1, <3>1, <3>2
  <2>9. process' <= launched' BY <2>1
  <2> QED BY <2>5, <2>6, <2>7, <2>8, <2>9 DEF ManagerInv, NoLostEngine, Live
<1>2. CASE UNCHANGED procVars
  BY <1>2 DEF procVars, ManagerInv, NoLostEngine, Live
<1> QED BY <1>1, <1>2 DEF Start, procVars

(* Terminating the engine held signals the only live one. *)
LEMMA LostTerminate ==
    ASSUME TypeOK, ManagerInv, Terminate, UNCHANGED mainQ
    PROVE  ManagerInv'
<1>1. NoProc <= launched BY DEF TypeOK, ProcType, NoProc
<1> QED BY <1>1 DEF Terminate, ManagerInv, NoLostEngine, Live

(* Queueing a block that ends no engine. *)
LEMMA LostAppend ==
    ASSUME TypeOK, ManagerInv, NEW b \in Blocks, b.kind # "ended",
           mainQ' = Append(mainQ, b), UNCHANGED procVars
    PROVE  ManagerInv'
<1>1. mainQ \in Seq(Blocks) BY DEF TypeOK, QueueType
<1>2. /\ Len(mainQ) \in Nat /\ Len(mainQ') = Len(mainQ) + 1 /\ mainQ'[Len(mainQ) + 1] = b
      /\ \A i \in 1 .. Len(mainQ) : mainQ'[i] = mainQ[i]
  BY <1>1, QueueFacts
<1>3. \A i \in 1 .. Len(mainQ') : i \in 1 .. Len(mainQ) \/ i = Len(mainQ) + 1
  BY <1>2
<1>4. \A i \in 1 .. Len(mainQ') :
         mainQ'[i].kind = "ended" => mainQ'[i].proc \in Procs /\ ps[mainQ'[i].proc] = "reaped"
  BY <1>2, <1>3 DEF ManagerInv
<1>5. \A i, j \in 1 .. Len(mainQ') :
         mainQ'[i].kind = "ended" /\ mainQ'[j].kind = "ended"
           /\ mainQ'[i].proc = mainQ'[j].proc => i = j
  BY <1>2, <1>3 DEF ManagerInv
<1> QED BY <1>4, <1>5 DEF procVars, ManagerInv, NoLostEngine, Live

(* A termination block clears the handle of the engine it is about, the     *)
(* last one launched.                                                       *)
LEMMA LostMainBlock ==
    ASSUME TypeOK, ManagerInv, MainBlock
    PROVE  ManagerInv'
<1> DEFINE b == Head(mainQ)
<1>1. /\ mainQ \in Seq(Blocks) /\ mainQ # <<>> /\ mainQ' = Tail(mainQ) /\ b = mainQ[1]
      /\ Len(mainQ') = Len(mainQ) - 1 /\ Len(mainQ) \in Nat /\ Len(mainQ) >= 1
      /\ \A i \in 1 .. Len(mainQ') : mainQ'[i] = mainQ[i + 1]
  BY QueueFacts DEF MainBlock, TypeOK, QueueType
<1>2. \A i \in 1 .. Len(mainQ') :
         i + 1 \in 1 .. Len(mainQ) /\ i + 1 # 1 /\ mainQ'[i] = mainQ[i + 1]
  BY <1>1
<1>3. \A i, j \in 1 .. Len(mainQ') :
         mainQ'[i].kind = "ended" /\ mainQ'[j].kind = "ended"
           /\ mainQ'[i].proc = mainQ'[j].proc => i = j
  <2> SUFFICES ASSUME NEW i \in 1 .. Len(mainQ'), NEW j \in 1 .. Len(mainQ'),
                      mainQ'[i].kind = "ended" /\ mainQ'[j].kind = "ended",
                      mainQ'[i].proc = mainQ'[j].proc
               PROVE  i = j
    OBVIOUS
  <2>1. PICK k \in 1 .. Len(mainQ), l \in 1 .. Len(mainQ) :
           k = i + 1 /\ l = j + 1 /\ mainQ'[i] = mainQ[k] /\ mainQ'[j] = mainQ[l]
    BY <1>2
  <2>2. k = l BY <2>1, Zenon DEF ManagerInv
  <2> QED BY <1>1, <2>1, <2>2
<1>4. CASE UNCHANGED procVars
  <2>1. \A i \in 1 .. Len(mainQ') :
           mainQ'[i].kind = "ended" => mainQ'[i].proc \in Procs /\ ps[mainQ'[i].proc] = "reaped"
    BY <1>2 DEF ManagerInv
  <2> QED BY <1>4, <1>3, <2>1 DEF procVars, ManagerInv, NoLostEngine, Live
<1>5. CASE b.kind = "ended" /\ Ended(b.proc)
  <2> DEFINE q == b.proc
  <2>1. q \in Procs /\ ps[q] = "reaped" /\ 1 \in 1 .. Len(mainQ)
    BY <1>1, <1>5 DEF ManagerInv
  <2>2. /\ process' = NoProc /\ launched' = launched /\ term' = term /\ overlap' = overlap
        /\ ps'[q] = "buried" /\ \A p \in Procs : p # q => ps'[p] = ps[p]
    BY <1>5, <2>1 DEF Ended, TypeOK, ProcType
  <2>3. q = mainQ[1].proc /\ mainQ[1].kind = "ended" BY <1>1, <1>5
  <2> HIDE DEF b, q
  <2>4. launched \in Nat /\ Procs \subseteq Nat /\ NoProc = 0
    BY DEF TypeOK, ProcType, Procs, NoProc
  <2>5. \A p \in Procs : (ps'[p] = "none") <=> p > launched'
    BY <2>1, <2>2 DEF ManagerInv
  <2>6. \A i \in 1 .. Len(mainQ') :
           mainQ'[i].kind = "ended" =>
              mainQ'[i].proc \in Procs /\ ps'[mainQ'[i].proc] = "reaped"
    <3> SUFFICES ASSUME NEW i \in 1 .. Len(mainQ'), mainQ'[i].kind = "ended"
                 PROVE  mainQ'[i].proc \in Procs /\ ps'[mainQ'[i].proc] = "reaped"
      OBVIOUS
    <3>1. mainQ'[i].proc \in Procs /\ ps[mainQ'[i].proc] = "reaped"
      BY <1>2 DEF ManagerInv
    <3>2. mainQ'[i].proc # mainQ[1].proc
      BY <1>2, <2>1, <2>3 DEF ManagerInv
    <3> QED BY <2>2, <2>3, <3>1, <3>2
  <2>7. ~overlap' => \A p \in Procs : p < launched' => ps'[p] = "buried"
    BY <2>2 DEF ManagerInv
  <2>8. ~overlap' => \A p \in Procs : ps'[p] # "running"
    <3> SUFFICES ASSUME ~overlap, NEW p \in Procs, ps'[p] = "running" PROVE FALSE
      BY <2>2
    <3>1. p # q /\ ps[p] = "running" BY <2>2
    <3>2. ~(p < launched) /\ ~(p > launched) BY <3>1 DEF ManagerInv
    <3>3. ~(q < launched) /\ ~(q > launched) BY <2>1 DEF ManagerInv
    <3> QED BY <2>1, <2>4, <3>1, <3>2, <3>3
  <2>9. process' <= launched' BY <2>2, <2>4
  <2> QED BY <1>3, <2>5, <2>6, <2>7, <2>8, <2>9 DEF ManagerInv, NoLostEngine, Live
<1> QED BY <1>4, <1>5 DEF MainBlock, LogMessage, procVars

(* An engine's own steps: it never starts running again, and only an exited *)
(* one queues its termination block.                                        *)
LEMMA LostEngine ==
    ASSUME TypeOK, ManagerInv, NEW p \in Procs, Engine(p) \/ Deliver(p)
    PROVE  ManagerInv'
<1>1. ASSUME NEW m \in Phrases, EngineWrites(p, m) PROVE ManagerInv'
  BY <1>1 DEF EngineWrites, procVars, ManagerInv, NoLostEngine, Live
<1>2. CASE EngineExits(p)
  <2>1. /\ process' = process /\ launched' = launched /\ term' = term
        /\ overlap' = overlap /\ mainQ' = mainQ /\ ps[p] = "running"
        /\ ps'[p] = "exited" /\ \A q \in Procs : q # p => ps'[q] = ps[q]
    BY <1>2 DEF EngineExits, TypeOK, ProcType
  <2>2. \A q \in Procs : (ps'[q] = "none") <=> q > launched'
    BY <2>1 DEF ManagerInv
  <2>3. \A i \in 1 .. Len(mainQ) :
           mainQ[i].kind = "ended" => mainQ[i].proc \in Procs /\ ps'[mainQ[i].proc] = "reaped"
    BY <2>1 DEF ManagerInv
  <2>4. ~overlap' => \A q \in Procs : q < launched' => ps'[q] = "buried"
    BY <2>1 DEF ManagerInv
  <2>5. NoLostEngine' BY <2>1 DEF ManagerInv, NoLostEngine, Live
  <2> QED BY <2>1, <2>2, <2>3, <2>4, <2>5 DEF ManagerInv
<1>3. CASE PipeRead(p)
  <2>1. PICK n \in 1 .. Len(pipe[p]) :
           /\ mainQ' = Append(mainQ, LogBlock({pipe[p][i] : i \in 1 .. n}))
           /\ UNCHANGED procVars
    BY <1>3 DEF PipeRead
  <2>2. {pipe[p][i] : i \in 1 .. n} \in SUBSET Phrases BY DEF TypeOK, QueueType
  <2> QED BY <2>1, <2>2, BlockTypes, LostAppend
<1>4. CASE TerminationHandler(p)
  <2>1. /\ process' = process /\ launched' = launched /\ term' = term
        /\ overlap' = overlap /\ mainQ' = Append(mainQ, EndedBlock(p)) /\ ps[p] = "exited"
        /\ ps'[p] = "reaped" /\ \A q \in Procs : q # p => ps'[q] = ps[q]
    BY <1>4 DEF TerminationHandler, TypeOK, ProcType
  <2>2. \A q \in Procs : (ps'[q] = "none") <=> q > launched'
    BY <2>1 DEF ManagerInv
  <2>3. \A i \in 1 .. Len(mainQ) :
           mainQ[i].kind = "ended" => mainQ[i].proc \in Procs /\ ps'[mainQ[i].proc] = "reaped"
    BY <2>1 DEF ManagerInv
  <2>4. /\ \A i \in 1 .. Len(mainQ') :
              mainQ'[i].kind = "ended" =>
                 mainQ'[i].proc \in Procs /\ ps'[mainQ'[i].proc] = "reaped"
        /\ \A i, j \in 1 .. Len(mainQ') :
              mainQ'[i].kind = "ended" /\ mainQ'[j].kind = "ended"
                /\ mainQ'[i].proc = mainQ'[j].proc => i = j
    <3> DEFINE e == EndedBlock(p)
    <3>1. mainQ \in Seq(Blocks) /\ e \in Blocks /\ e.proc = p
      BY BlockTypes DEF TypeOK, QueueType
    <3> HIDE DEF e
    <3>2. mainQ' = Append(mainQ, e) BY <2>1 DEF e
    <3>3. /\ Len(mainQ) \in Nat /\ Len(mainQ') = Len(mainQ) + 1 /\ mainQ'[Len(mainQ) + 1] = e
          /\ \A i \in 1 .. Len(mainQ) : mainQ'[i] = mainQ[i]
      BY <3>1, <3>2, QueueFacts
    <3>4. \A i \in 1 .. Len(mainQ') : i \in 1 .. Len(mainQ) \/ i = Len(mainQ) + 1
      BY <3>3
    <3>5. \A i \in 1 .. Len(mainQ) : mainQ[i].kind = "ended" => mainQ[i].proc # p
      BY <2>1 DEF ManagerInv
    <3>6. \A i, j \in 1 .. Len(mainQ) :
             mainQ[i].kind = "ended" /\ mainQ[j].kind = "ended" /\ mainQ[i].proc = mainQ[j].proc
                => i = j
      BY DEF ManagerInv
    <3> QED BY <2>1, <2>3, <3>1, <3>3, <3>4, <3>5, <3>6
  <2>5. ~overlap' => \A q \in Procs : q < launched' => ps'[q] = "buried"
    BY <2>1 DEF ManagerInv
  <2>6. NoLostEngine' BY <2>1 DEF ManagerInv, NoLostEngine, Live
  <2> QED BY <2>1, <2>2, <2>4, <2>5, <2>6 DEF ManagerInv
<1> QED BY <1>1, <1>2, <1>3, <1>4 DEF Engine, Deliver

(* Proxy jobs touch the queue only with blocks that end no engine. *)
LEMMA LostJobs ==
    ASSUME TypeOK, ManagerInv, Jobs
    PROVE  ManagerInv'
<1>1. CASE UNCHANGED <<procVars, mainQ>>
  BY <1>1 DEF procVars, ManagerInv, NoLostEngine, Live
<1>2. ASSUME NEW on \in BOOLEAN, JobReports(on) PROVE ManagerInv'
  <2>1. mainQ' = Append(mainQ, ActiveBlock(on)) /\ UNCHANGED procVars
    BY <1>2 DEF JobReports
  <2> QED BY <2>1, BlockTypes, LostAppend
<1> QED BY <1>1, <1>2 DEF Jobs, EnableSets, EnableApplies, DisableApplies, JobFails

LEMMA LostStep == TypeOK /\ ManagerInv /\ [Next]_vars => ManagerInv'
<1> SUFFICES ASSUME TypeOK, ManagerInv, [Next]_vars PROVE ManagerInv'
  OBVIOUS
<1>1. CASE UNCHANGED <<procVars, mainQ>>
  BY <1>1 DEF procVars, ManagerInv, NoLostEngine, Live
<1>2. CASE ClickStart \/ RestartTimer BY <1>2, LostStart DEF ClickStart, RestartTimer
<1>3. CASE ClickStop \/ Restart BY <1>3, LostTerminate DEF ClickStop, Restart
<1>4. CASE ToggleProxy
  <2>1. UNCHANGED <<procVars, mainQ>> BY <1>4, Zenon DEF ToggleProxy
  <2> QED BY <1>1, <2>1
<1>5. CASE UNCHANGED vars BY <1>1, <1>5 DEF vars
<1> QED BY <1>2, <1>3, <1>4, <1>5, LostMainBlock, LostEngine, LostJobs DEF Next, User

(* An engine that nobody asked to stop stays the one the manager can stop,  *)
(* as long as no engine was started before the termination block of an      *)
(* older one had run.                                                       *)
THEOREM NoEngineLost == Spec => []NoLostEngine
<1>1. ManagerInv => NoLostEngine BY DEF ManagerInv
<1> QED BY <1>1, TypeInit, TypeStep, LostInit, LostStep, PTL DEF Spec

-----------------------------------------------------------------------------
(* A proxy that was switched on is not forgotten. *)

LEMMA ProxyInit == Init => ProxyInv
BY DEF Init, ProxyInv, InFlight, Queued, Phases

(* What a step does to the reports that are queued. *)
LEMMA QueuedAppend ==
    ASSUME TypeOK, NEW b \in Blocks, mainQ' = Append(mainQ, b)
    PROVE  \A on \in BOOLEAN : Queued(on)' <=> Queued(on) \/ (b.kind = "active" /\ b.on = on)
<1>1. mainQ \in Seq(Blocks) BY DEF TypeOK, QueueType
<1>2. /\ Len(mainQ) \in Nat /\ Len(mainQ') = Len(mainQ) + 1 /\ mainQ'[Len(mainQ) + 1] = b
      /\ \A i \in 1 .. Len(mainQ) : mainQ'[i] = mainQ[i]
  BY <1>1, QueueFacts
<1>3. 1 .. Len(mainQ') = (1 .. Len(mainQ)) \cup {Len(mainQ) + 1}
  BY <1>2
<1> QED BY <1>2, <1>3 DEF Queued

LEMMA QueuedTail ==
    ASSUME TypeOK, mainQ # <<>>, mainQ' = Tail(mainQ)
    PROVE  \A on \in BOOLEAN :
              Queued(on) <=> Queued(on)' \/ (Head(mainQ).kind = "active" /\ Head(mainQ).on = on)
<1>1. mainQ \in Seq(Blocks) BY DEF TypeOK, QueueType
<1>2. /\ Len(mainQ) \in Nat /\ Len(mainQ') = Len(mainQ) - 1 /\ Len(mainQ) >= 1
      /\ Head(mainQ) = mainQ[1] /\ \A i \in 1 .. Len(mainQ') : mainQ'[i] = mainQ[i + 1]
  BY <1>1, QueueFacts
<1>3. \A i \in 1 .. Len(mainQ) : i = 1 \/ (i - 1 \in 1 .. Len(mainQ') /\ mainQ'[i - 1] = mainQ[i])
  BY <1>2
<1>4. \A i \in 1 .. Len(mainQ') : i + 1 \in 1 .. Len(mainQ) /\ mainQ'[i] = mainQ[i + 1]
  BY <1>2
<1>5. 1 \in 1 .. Len(mainQ) BY <1>2
<1> SUFFICES ASSUME NEW on \in BOOLEAN
             PROVE  Queued(on) <=>
                       Queued(on)' \/ (mainQ[1].kind = "active" /\ mainQ[1].on = on)
  BY <1>2
<1>6. ASSUME Queued(on) PROVE Queued(on)' \/ (mainQ[1].kind = "active" /\ mainQ[1].on = on)
  <2>1. PICK i \in 1 .. Len(mainQ) : mainQ[i].kind = "active" /\ mainQ[i].on = on
    BY <1>6 DEF Queued
  <2> QED BY <1>3, <2>1 DEF Queued
<1>7. ASSUME Queued(on)' PROVE Queued(on)
  <2>1. PICK i \in 1 .. Len(mainQ') : mainQ'[i].kind = "active" /\ mainQ'[i].on = on
    BY <1>7 DEF Queued
  <2> QED BY <1>4, <2>1 DEF Queued
<1>8. mainQ[1].kind = "active" /\ mainQ[1].on = on => Queued(on)
  BY <1>5 DEF Queued
<1> QED BY <1>6, <1>7, <1>8

(* Dispatching a job: it is alone with jobs of its own kind, or raced is set. *)
LEMMA ProxyDispatch ==
    ASSUME TypeOK, ProxyInv, NEW on \in BOOLEAN, Dispatch(on), UNCHANGED <<active, osProxy, stray>>,
           \A b \in BOOLEAN : Queued(b)' <=> Queued(b)
    PROVE  ProxyInv'
<1>1. jobs \in [Phases -> Nat] BY DEF TypeOK, ProxyType
<1>2. jobs' = [jobs EXCEPT ![IF on THEN "enabling" ELSE "disabling"] = @ + 1]
  BY DEF Dispatch
<1>3. ~raced' => ~raced /\ ~InFlight(~on) BY DEF Dispatch
<1>4. /\ jobs'["enabled"] = jobs["enabled"] /\ jobs'["disabled"] = jobs["disabled"]
      /\ jobs'["set"] = jobs["set"]
  BY <1>1, <1>2 DEF Phases
<1>5. on => jobs'["disabling"] = jobs["disabling"] BY <1>1, <1>2 DEF Phases
<1>6. ~on => jobs'["enabling"] = jobs["enabling"] BY <1>1, <1>2 DEF Phases
<1>7. InFlight(~on)' <=> InFlight(~on) BY <1>4, <1>5, <1>6 DEF InFlight
<1>8. ~raced' => ~(InFlight(TRUE) /\ InFlight(FALSE))' BY <1>3, <1>7
<1> QED BY <1>3, <1>4, <1>8 DEF ProxyInv

(* A step that dispatches no job and touches neither reports nor settings. *)
LEMMA ProxyUnchanged ==
    ASSUME ProxyInv, UNCHANGED <<jobs, raced, active, osProxy, stray>>,
           \A b \in BOOLEAN : Queued(b)' <=> Queued(b)
    PROVE  ProxyInv'
BY DEF ProxyInv, InFlight

LEMMA ProxyUser ==
    ASSUME TypeOK, ProxyInv, User \/ RestartTimer
    PROVE  ProxyInv'
<1>1. \A b \in BOOLEAN : Queued(b)' <=> Queued(b)
  <2>1. mainQ' = mainQ
    BY Zenon DEF User, ClickStart, ClickStop, Restart, ToggleProxy, RestartTimer
  <2> QED BY <2>1 DEF Queued
<1>2. UNCHANGED <<active, osProxy, stray>>
  BY Zenon DEF User, ClickStart, ClickStop, Restart, ToggleProxy, RestartTimer, proxyVars
<1>3. Dispatch(TRUE) \/ Dispatch(FALSE) \/ UNCHANGED <<jobs, raced>>
  BY Zenon DEF User, ClickStart, ClickStop, Restart, ToggleProxy, RestartTimer, proxyVars,
               DisableIfActive, SwitchProxy, NoDispatch
<1> QED BY <1>1, <1>2, <1>3, ProxyDispatch, ProxyUnchanged

(* The report of a job: an enable leaves the setting known, a disable finds  *)
(* it off.                                                                   *)
LEMMA ProxyMainBlock ==
    ASSUME TypeOK, ProxyInv, MainBlock
    PROVE  ProxyInv'
<1> DEFINE b == Head(mainQ)
<1>1. /\ b \in Blocks /\ osProxy' = osProxy /\ stray' = stray
      /\ \A on \in BOOLEAN : Queued(on) <=> Queued(on)' \/ (b.kind = "active" /\ b.on = on)
  BY QueueFacts, QueuedTail DEF MainBlock, TypeOK, QueueType
<1> HIDE DEF b
<1>2. CASE (b.kind = "log" /\ LogMessage(b.phrases)) \/ (b.kind = "ended" /\ Ended(b.proc))
  <2>1. \A on \in BOOLEAN : Queued(on)' <=> Queued(on) BY <1>1, <1>2
  <2>2. active' = active BY <1>2 DEF LogMessage, Ended
  <2>3. Dispatch(TRUE) \/ Dispatch(FALSE) \/ UNCHANGED <<jobs, raced>>
    BY <1>2 DEF LogMessage, Ended, DisableIfActive, NoDispatch
  <2> QED BY <1>1, <2>1, <2>2, <2>3, ProxyDispatch, ProxyUnchanged
<1>3. CASE b.kind = "active" /\ RecordActive(b.on) /\ NoDispatch
  <2>1. b.on \in BOOLEAN /\ active' = b.on /\ jobs' = jobs /\ raced' = raced
    BY <1>1, <1>3 DEF Blocks, RecordActive, NoDispatch
  <2>2. \A on \in BOOLEAN : Queued(on)' => Queued(on) BY <1>1
  <2>3. \A on \in BOOLEAN : InFlight(on)' => InFlight(on) BY <2>1, <2>2 DEF InFlight
  <2>4. CASE b.on = TRUE
    BY <1>1, <2>1, <2>2, <2>3, <2>4 DEF ProxyInv
  <2>5. CASE b.on = FALSE
    <3>1. Queued(FALSE) BY <1>1, <1>3, <2>5
    <3>2. ~raced => ~osProxy BY <3>1 DEF ProxyInv
    <3> QED BY <1>1, <2>1, <2>2, <2>3, <3>2 DEF ProxyInv
  <2> QED BY <2>1, <2>4, <2>5
<1> QED BY <1>2, <1>3 DEF MainBlock, b

LEMMA ProxyEngine ==
    ASSUME TypeOK, ProxyInv, NEW p \in Procs, Engine(p) \/ Deliver(p)
    PROVE  ProxyInv'
<1>1. UNCHANGED <<jobs, raced, active, osProxy, stray>>
  BY DEF Engine, Deliver, EngineWrites, EngineExits, PipeRead, TerminationHandler, proxyVars
<1>2. CASE EngineExits(p) \/ \E m \in Phrases : EngineWrites(p, m)
  <2>1. mainQ' = mainQ BY <1>2 DEF EngineExits, EngineWrites
  <2>2. \A b \in BOOLEAN : Queued(b)' <=> Queued(b) BY <2>1 DEF Queued
  <2> QED BY <1>1, <2>2, ProxyUnchanged
<1>3. CASE PipeRead(p) \/ TerminationHandler(p)
  <2>1. PICK x \in Blocks : mainQ' = Append(mainQ, x) /\ x.kind # "active"
    <3>1. \A n \in 1 .. Len(pipe[p]) : {pipe[p][i] : i \in 1 .. n} \in SUBSET Phrases
      BY DEF TypeOK, QueueType
    <3>2. \A S \in SUBSET Phrases : LogBlock(S) \in Blocks /\ LogBlock(S).kind = "log"
      BY BlockTypes DEF LogBlock
    <3>3. EndedBlock(p) \in Blocks /\ EndedBlock(p).kind = "ended" BY BlockTypes
    <3> QED BY <1>3, <3>1, <3>2, <3>3 DEF PipeRead, TerminationHandler
  <2>2. \A b \in BOOLEAN : Queued(b)' <=> Queued(b) BY <2>1, QueuedAppend
  <2> QED BY <1>1, <2>2, ProxyUnchanged
<1> QED BY <1>2, <1>3 DEF Engine, Deliver

(* The jobs themselves: an enable that applies is not accompanied by a       *)
(* disable, so no report that the proxy is off is on its way.                *)
LEMMA ProxyJobs ==
    ASSUME TypeOK, ProxyInv, Jobs
    PROVE  ProxyInv'
<1>0. jobs \in [Phases -> Nat] BY DEF TypeOK, ProxyType
<1> USE DEF Phases
<1>1. CASE EnableSets \/ EnableApplies \/ DisableApplies \/ JobFails
  <2>1. mainQ' = mainQ /\ active' = active /\ raced' = raced
    BY <1>1 DEF EnableSets, EnableApplies, DisableApplies, JobFails
  <2>2. \A b \in BOOLEAN : Queued(b)' <=> Queued(b) BY <2>1 DEF Queued
  <2>3. CASE EnableSets
    <3>1. /\ jobs["enabling"] > 0
          /\ jobs'["set"] = jobs["set"] + 1 /\ jobs'["disabling"] = jobs["disabling"]
          /\ jobs'["disabled"] = jobs["disabled"]
      BY <1>0, <2>3 DEF EnableSets, JobStep
    <3>2. InFlight(TRUE) BY <3>1 DEF InFlight
    <3>3. InFlight(FALSE)' <=> InFlight(FALSE) BY <2>2, <3>1 DEF InFlight
    <3>4. jobs'["disabled"] > 0 \/ Queued(FALSE)' => InFlight(FALSE) BY <2>2, <3>1 DEF InFlight
    <3>5. jobs'["set"] > 0 BY <1>0, <3>1
    <3> QED BY <2>1, <3>2, <3>3, <3>4, <3>5 DEF ProxyInv
  <2>4. CASE EnableApplies
    <3>1. /\ jobs["set"] > 0
          /\ jobs'["enabled"] = jobs["enabled"] + 1 /\ jobs'["disabling"] = jobs["disabling"]
          /\ jobs'["disabled"] = jobs["disabled"]
      BY <1>0, <2>4 DEF EnableApplies, JobStep
    <3>2. InFlight(TRUE) BY <3>1 DEF InFlight
    <3>3. InFlight(FALSE)' <=> InFlight(FALSE) BY <2>2, <3>1 DEF InFlight
    <3>4. jobs'["disabled"] > 0 \/ Queued(FALSE)' => InFlight(FALSE) BY <2>2, <3>1 DEF InFlight
    <3>5. jobs'["enabled"] > 0 BY <1>0, <3>1
    <3> QED BY <2>1, <3>2, <3>3, <3>4, <3>5 DEF ProxyInv
  <2>5. CASE DisableApplies
    <3>1. /\ jobs["disabling"] > 0 /\ osProxy' = FALSE /\ jobs'["set"] = jobs["set"]
          /\ jobs'["enabled"] = jobs["enabled"] /\ jobs'["enabling"] = jobs["enabling"]
      BY <1>0, <2>5 DEF DisableApplies, JobStep
    <3>2. InFlight(FALSE) BY <3>1 DEF InFlight
    <3>3. InFlight(TRUE)' <=> InFlight(TRUE) BY <2>2, <3>1 DEF InFlight
    <3> QED BY <2>1, <3>1, <3>2, <3>3 DEF ProxyInv
  <2>6. CASE JobFails
    <3>1. PICK from \in {"enabling", "set", "disabling", "disabled"} :
             jobs[from] > 0 /\ JobOver(from) /\ stray' = (stray \/ from = "set")
      BY <2>6 DEF JobFails
    <3>2. /\ osProxy' = osProxy /\ jobs'["enabled"] = jobs["enabled"]
          /\ \A j \in Phases : jobs'[j] > 0 => jobs[j] > 0
          /\ from # "set" => jobs'["set"] = jobs["set"]
      BY <1>0, <2>6, <3>1 DEF JobFails, JobOver
    <3>3. \A on \in BOOLEAN : InFlight(on)' => InFlight(on) BY <2>2, <3>2 DEF InFlight
    <3>4. stray => stray' BY <3>1
    <3>5. from = "set" => stray' BY <3>1
    <3> QED BY <2>1, <2>2, <3>2, <3>3, <3>4, <3>5 DEF ProxyInv
  <2> QED BY <1>1, <2>3, <2>4, <2>5, <2>6
<1>2. ASSUME NEW on \in BOOLEAN, JobReports(on) PROVE ProxyInv'
  <2>1. mainQ' = Append(mainQ, ActiveBlock(on)) /\ UNCHANGED <<active, raced, osProxy, stray>>
    BY <1>2 DEF JobReports
  <2>2. ActiveBlock(on) \in Blocks /\ ActiveBlock(on).kind = "active" /\ ActiveBlock(on).on = on
    BY BlockTypes DEF ActiveBlock
  <2>3. \A b \in BOOLEAN : Queued(b)' <=> Queued(b) \/ on = b
    BY <2>1, <2>2, QueuedAppend
  <2>4. /\ jobs[IF on THEN "enabled" ELSE "disabled"] > 0
        /\ \A j \in Phases : jobs'[j] > 0 => jobs[j] > 0
        /\ \A j \in Phases : j # (IF on THEN "enabled" ELSE "disabled") => jobs'[j] = jobs[j]
    BY <1>0, <1>2 DEF JobReports, JobOver
  <2>5. \A b \in BOOLEAN : InFlight(b)' => InFlight(b)
    BY <2>3, <2>4 DEF InFlight
  <2>6. CASE on = TRUE BY <2>1, <2>3, <2>4, <2>5, <2>6 DEF ProxyInv
  <2>7. CASE on = FALSE BY <2>1, <2>3, <2>4, <2>5, <2>7 DEF ProxyInv
  <2> QED BY <2>6, <2>7
<1> QED BY <1>1, <1>2 DEF Jobs

LEMMA ProxyStep == TypeOK /\ ProxyInv /\ [Next]_vars => ProxyInv'
<1> SUFFICES ASSUME TypeOK, ProxyInv, [Next]_vars PROVE ProxyInv'
  OBVIOUS
<1>1. CASE UNCHANGED vars
  BY <1>1 DEF vars, proxyVars, ProxyInv, InFlight, Queued
<1> QED BY <1>1, ProxyUser, ProxyMainBlock, ProxyEngine, ProxyJobs DEF Next

(* Unless an enable and a disable were in flight together, the manager knows *)
(* of a proxy that is on as soon as no job is in flight, however jobs' steps, *)
(* reports, log lines and clicks interleave; the one exception is a proxy    *)
(* left on by an enable whose second command failed.                         *)
THEOREM ProxyRemembered == Spec => []ProxyNotForgotten
<1>1. TypeOK /\ ProxyInv => ProxyNotForgotten
  BY DEF ProxyInv, ProxyNotForgotten, InFlight
<1> QED BY <1>1, TypeInit, TypeStep, ProxyInit, ProxyStep, PTL DEF Spec
=============================================================================
