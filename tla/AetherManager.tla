---------------------------- MODULE AetherManager ----------------------------
(***************************************************************************)
(* The macOS front end (AetherManager.swift, LogEngine.swift,               *)
(* SystemProxy.swift): how the user's clicks, the engine processes it       *)
(* launches, their log lines, their termination handlers and the            *)
(* system-proxy jobs interleave.                                            *)
(*                                                                         *)
(* Clicks, timers and the blocks of DispatchQueue.main run one at a time on *)
(* the main thread, the blocks in the order they were queued.  Pipes are    *)
(* read, and termination handlers start, on other threads; proxy jobs run   *)
(* on a concurrent queue.  The text of a log line is abstracted to the      *)
(* phrase addLog looks for.  needsReload, userStopped and the log list feed *)
(* only the display and are left out.                                       *)
(***************************************************************************)
EXTENDS Naturals, Sequences, FiniteSets

CONSTANTS MaxProcs,    \* bound: engines launched
          MaxLines,    \* bound: recognised lines one engine writes
          MaxToggles,  \* bound: clicks on the system-proxy switch
          JobsMayFail  \* may networksetup fail

ASSUME ManagerAssumption ==
    /\ MaxProcs \in Nat /\ MaxLines \in Nat /\ MaxToggles \in Nat
    /\ JobsMayFail \in BOOLEAN

VARIABLES
    state,     \* connectionState
    process,   \* the process property: an engine, or NoProc for nil
    launched,  \* engines launched so far; they are 1 .. launched
    ps,        \* each engine: none, running, exited, reaped, buried
    term,      \* engines sent SIGTERM
    pipe,      \* recognised lines written and not read yet
    lines,     \* recognised lines written in all
    mainQ,     \* blocks queued on DispatchQueue.main
    timers,    \* pending asyncAfter(0.3 s) starts
    enabled,   \* systemProxyEnabled
    active,    \* systemProxyActive
    osProxy,   \* the SOCKS proxy setting of macOS
    jobs,      \* proxy jobs: how many are in each phase
    toggles,   \* clicks on the proxy switch so far
    overlap,   \* ghost: was an engine launched while an older one was on its way out
    raced,     \* ghost: were enable and disable ever in flight together
    failed,    \* ghost: has a proxy job failed
    stray      \* ghost: did an enable that failed half-way leave the proxy on

procVars  == <<process, launched, ps, term, overlap>>
pipeVars  == <<pipe, lines>>
proxyVars == <<enabled, osProxy, jobs, toggles, raced, failed, stray>>
vars == <<state, procVars, pipeVars, mainQ, timers, active, proxyVars>>

Procs  == 1 .. MaxProcs
NoProc == 0
Phrases == {"hunting", "selected", "listening"}
States  == {"disconnected", "scanning", "connecting", "connected", "error"}
Phases  == {"enabling", "set", "enabled", "disabling", "disabled"}
Blocks  == [kind : {"log", "ended", "active"}, proc : 0 .. MaxProcs,
            phrases : SUBSET Phrases, on : BOOLEAN]

LogBlock(S)    == [kind |-> "log",    proc |-> NoProc, phrases |-> S,  on |-> FALSE]
EndedBlock(p)  == [kind |-> "ended",  proc |-> p,      phrases |-> {}, on |-> FALSE]
ActiveBlock(b) == [kind |-> "active", proc |-> NoProc, phrases |-> {}, on |-> b]

Init ==
    /\ state = "disconnected" /\ process = NoProc /\ launched = 0
    /\ ps = [p \in Procs |-> "none"] /\ term = {}
    /\ pipe = [p \in Procs |-> <<>>] /\ lines = [p \in Procs |-> 0]
    /\ mainQ = <<>> /\ timers = 0
    /\ enabled \in BOOLEAN /\ active = FALSE /\ osProxy = FALSE
    /\ jobs = [j \in Phases |-> 0] /\ toggles = 0
    /\ overlap = FALSE /\ raced = FALSE /\ failed = FALSE /\ stray = FALSE

(* An engine that runs and was not told to stop. *)
Live(p) == ps[p] = "running" /\ p \notin term

(* isRunning: false for nil, and for an engine that has exited. *)
IsRunning == process # NoProc /\ ps[process] = "running"

-----------------------------------------------------------------------------
(* Proxy jobs.  A job in flight is counted from its dispatch until the      *)
(* block that records its result has run.                                   *)

Queued(on) == \E i \in 1 .. Len(mainQ) : mainQ[i].kind = "active" /\ mainQ[i].on = on

InFlight(on) ==
    \/ jobs[IF on THEN "enabling" ELSE "disabling"] > 0
    \/ jobs[IF on THEN "enabled" ELSE "disabled"] > 0
    \/ on /\ jobs["set"] > 0
    \/ Queued(on)

(* DispatchQueue.global().async { enableSystemProxy / disableSystemProxy } *)
Dispatch(on) ==
    /\ jobs' = [jobs EXCEPT ![IF on THEN "enabling" ELSE "disabling"] = @ + 1]
    /\ raced' = (raced \/ InFlight(~on))

NoDispatch == UNCHANGED <<jobs, raced>>

DisableIfActive == IF active THEN Dispatch(FALSE) ELSE NoDispatch

-----------------------------------------------------------------------------
(* The main thread. *)

(* start(): refused while an engine runs; ends in error when the binary is  *)
(* missing or cannot be run.                                                *)
Launch ==
    /\ launched < MaxProcs
    /\ launched' = launched + 1
    /\ process' = launched + 1
    /\ ps' = [ps EXCEPT ![launched + 1] = "running"]
    /\ state' = "scanning"
    /\ overlap' = (overlap \/ \E p \in 1 .. launched : ps[p] # "buried" /\ ~Live(p))
    /\ UNCHANGED term

StartWithoutGuard ==
    \/ Launch
    \/ state' = "error" /\ UNCHANGED procVars

Start ==
    \/ IsRunning /\ UNCHANGED <<state, procVars>>
    \/ ~IsRunning /\ Launch
    \/ ~IsRunning /\ state' = "error" /\ UNCHANGED procVars

ClickStart ==
    /\ ~IsRunning
    /\ Start
    /\ UNCHANGED <<pipeVars, mainQ, timers, active, proxyVars>>

(* process?.terminate(); process = nil *)
ForgetOnly == process' = NoProc /\ UNCHANGED <<launched, ps, term, overlap>>
Terminate ==
    /\ term' = term \cup {process}
    /\ process' = NoProc
    /\ UNCHANGED <<launched, ps, overlap>>

(* stop(), reached from a button that shows Disconnect. *)
ClickStop ==
    /\ IsRunning
    /\ Terminate
    /\ state' = "disconnected"
    /\ DisableIfActive
    /\ UNCHANGED <<pipeVars, mainQ, timers, active, enabled, osProxy, toggles, failed, stray>>

(* restart(), from reload() or from an edit of bindAddress. *)
Restart ==
    /\ IsRunning
    /\ Terminate
    /\ DisableIfActive
    /\ timers' = timers + 1
    /\ UNCHANGED <<state, pipeVars, mainQ, active, enabled, osProxy, toggles, failed, stray>>

RestartTimer ==
    /\ timers > 0
    /\ timers' = timers - 1
    /\ Start
    /\ UNCHANGED <<pipeVars, mainQ, active, proxyVars>>

(* The didSet of systemProxyEnabled. *)
SwitchLater == IF enabled /\ active THEN Dispatch(FALSE) ELSE NoDispatch
SwitchProxy ==
    CASE ~enabled /\ state = "connected" -> Dispatch(TRUE)
      [] enabled /\ active               -> Dispatch(FALSE)
      [] OTHER                           -> NoDispatch

ToggleProxy ==
    /\ toggles < MaxToggles
    /\ toggles' = toggles + 1
    /\ enabled' = ~enabled
    /\ SwitchProxy
    /\ UNCHANGED <<state, procVars, pipeVars, mainQ, timers, active, osProxy, failed, stray>>

(* addLog: the first phrase of its list that the text contains decides. *)
LogMessage(S) ==
    /\ state' = CASE "listening" \in S -> "connected"
                  [] "listening" \notin S /\ "hunting" \in S -> "scanning"
                  [] S = {"selected"} -> "connecting"
                  [] OTHER -> state
    /\ IF "listening" \in S /\ enabled THEN Dispatch(TRUE) ELSE NoDispatch
    /\ UNCHANGED <<procVars, active>>

(* The block a termination handler queues: it acts on whatever engine the   *)
(* manager holds now.                                                       *)
Ended(p) ==
    /\ state' = "disconnected"
    /\ DisableIfActive
    /\ process' = NoProc
    /\ ps' = [ps EXCEPT ![p] = "buried"]
    /\ UNCHANGED <<launched, term, overlap, active>>

RecordNothing(on) == UNCHANGED active
RecordActive(on) == active' = on

MainBlock ==
    /\ mainQ # <<>>
    /\ LET b == Head(mainQ) IN
       \/ b.kind = "log" /\ LogMessage(b.phrases)
       \/ b.kind = "ended" /\ Ended(b.proc)
       \/ b.kind = "active" /\ RecordActive(b.on) /\ NoDispatch /\ UNCHANGED <<state, procVars>>
    /\ mainQ' = Tail(mainQ)
    /\ UNCHANGED <<pipeVars, timers, enabled, osProxy, toggles, failed, stray>>

-----------------------------------------------------------------------------
(* The engines (external): the lines main.rs logs, and their end. *)

EngineWrites(p, m) ==
    /\ ps[p] = "running" /\ lines[p] < MaxLines
    /\ lines' = [lines EXCEPT ![p] = @ + 1]
    /\ pipe' = [pipe EXCEPT ![p] = Append(@, m)]
    /\ UNCHANGED <<state, procVars, mainQ, timers, active, proxyVars>>

EngineExits(p) ==
    /\ ps[p] = "running"
    /\ ps' = [ps EXCEPT ![p] = "exited"]
    /\ UNCHANGED <<state, process, launched, term, overlap, pipeVars, mainQ, timers,
                   active, proxyVars>>

(* readabilityHandler: one chunk, holding some of the lines, is queued as   *)
(* one message.  The pipe stays readable after the engine has exited.       *)
PipeRead(p) ==
    \E n \in 1 .. Len(pipe[p]) :
       /\ mainQ' = Append(mainQ, LogBlock({pipe[p][i] : i \in 1 .. n}))
       /\ pipe' = [pipe EXCEPT ![p] = SubSeq(@, n + 1, Len(@))]
       /\ UNCHANGED <<state, procVars, lines, timers, active, proxyVars>>

(* terminationHandler, on its own thread. *)
TerminationHandler(p) ==
    /\ ps[p] = "exited"
    /\ ps' = [ps EXCEPT ![p] = "reaped"]
    /\ mainQ' = Append(mainQ, EndedBlock(p))
    /\ UNCHANGED <<state, process, launched, term, overlap, pipeVars, timers,
                   active, proxyVars>>

-----------------------------------------------------------------------------
(* The proxy jobs run networksetup several times; the setting changes, then  *)
(* the result is queued on the main thread.  The first command of an enable  *)
(* sets the address, which by the tool's manual turns SOCKS on as well; the  *)
(* first of a disable turns it off.  A command that fails ends its job,      *)
(* which then only logs: what the earlier commands did stays.                *)

JobStep(from, to) == jobs' = [jobs EXCEPT ![from] = @ - 1, ![to] = @ + 1]
JobOver(from)     == jobs' = [jobs EXCEPT ![from] = @ - 1]

(* -setsocksfirewallproxy *)
EnableSets ==
    /\ jobs["enabling"] > 0
    /\ osProxy' = TRUE
    /\ JobStep("enabling", "set")
    /\ UNCHANGED <<state, procVars, pipeVars, mainQ, timers, active, enabled, toggles, raced,
                   failed, stray>>

(* -setsocksfirewallproxystate on *)
EnableApplies ==
    /\ jobs["set"] > 0
    /\ osProxy' = TRUE /\ stray' = FALSE
    /\ JobStep("set", "enabled")
    /\ UNCHANGED <<state, procVars, pipeVars, mainQ, timers, active, enabled, toggles, raced,
                   failed>>

(* -setsocksfirewallproxystate off *)
DisableApplies ==
    /\ jobs["disabling"] > 0
    /\ osProxy' = FALSE /\ stray' = FALSE
    /\ JobStep("disabling", "disabled")
    /\ UNCHANGED <<state, procVars, pipeVars, mainQ, timers, active, enabled, toggles, raced,
                   failed>>

JobReports(on) ==
    LET from == IF on THEN "enabled" ELSE "disabled" IN
    /\ jobs[from] > 0
    /\ JobOver(from)
    /\ mainQ' = Append(mainQ, ActiveBlock(on))
    /\ UNCHANGED <<state, procVars, pipeVars, timers, active, enabled, osProxy, toggles, raced,
                   failed, stray>>

JobFails ==
    /\ JobsMayFail
    /\ \E from \in {"enabling", "set", "disabling", "disabled"} :
          jobs[from] > 0 /\ JobOver(from) /\ stray' = (stray \/ from = "set")
    /\ failed' = TRUE
    /\ UNCHANGED <<state, procVars, pipeVars, mainQ, timers, active, enabled, osProxy,
                   toggles, raced>>

-----------------------------------------------------------------------------

Engine(p) == (\E m \in Phrases : EngineWrites(p, m)) \/ EngineExits(p)
Deliver(p) == PipeRead(p) \/ TerminationHandler(p)
Jobs == EnableSets \/ EnableApplies \/ DisableApplies \/ JobFails \/ \E on \in BOOLEAN : JobReports(on)
User == ClickStart \/ ClickStop \/ Restart \/ ToggleProxy

Next ==
    \/ User \/ RestartTimer \/ MainBlock \/ Jobs
    \/ \E p \in Procs : Engine(p) \/ Deliver(p)

Spec == Init /\ [][Next]_vars

(* Dispatch queues, timers, pipes and jobs make progress, and an engine     *)
(* that was sent SIGTERM exits.  The user and a healthy engine need do      *)
(* nothing.                                                                 *)
FairSpec ==
    /\ Spec /\ WF_vars(MainBlock) /\ WF_vars(RestartTimer) /\ WF_vars(Jobs)
    /\ \A p \in Procs : /\ WF_vars(PipeRead(p)) /\ WF_vars(TerminationHandler(p))
                        /\ WF_vars(p \in term /\ EngineExits(p))

-----------------------------------------------------------------------------
(* Properties. *)

(* Every variable keeps its type; in particular no job or timer count is    *)
(* decremented below zero.                                                  *)
ProcType ==
    /\ process \in 0 .. MaxProcs /\ launched \in 0 .. MaxProcs
    /\ ps \in [Procs -> {"none", "running", "exited", "reaped", "buried"}]
    /\ term \subseteq Procs /\ overlap \in BOOLEAN
QueueType ==
    /\ pipe \in [Procs -> Seq(Phrases)] /\ lines \in [Procs -> 0 .. MaxLines]
    /\ mainQ \in Seq(Blocks) /\ timers \in Nat
ProxyType ==
    /\ state \in States /\ enabled \in BOOLEAN /\ active \in BOOLEAN
    /\ osProxy \in BOOLEAN /\ jobs \in [Phases -> Nat]
    /\ toggles \in 0 .. MaxToggles /\ raced \in BOOLEAN /\ failed \in BOOLEAN
    /\ stray \in BOOLEAN

TypeOK == ProcType /\ QueueType /\ ProxyType

(* An engine that nobody asked to stop is the one the manager can still     *)
(* stop, unless some engine was launched while an older one was on its way   *)
(* out (told to stop or gone, its termination block outstanding): that block *)
(* would clear the new handle.                                               *)
NoLostEngine == ~overlap => \A p \in Procs : Live(p) => process = p

(* Why: without overlap every engine but the last is buried, so a queued    *)
(* termination block, of which each engine has at most one, is about the    *)
(* last engine.                                                             *)
ManagerInv ==
    /\ \A p \in Procs : (ps[p] = "none") <=> p > launched
    /\ process <= launched
    /\ \A i \in 1 .. Len(mainQ) :
          mainQ[i].kind = "ended" => mainQ[i].proc \in Procs /\ ps[mainQ[i].proc] = "reaped"
    /\ \A i, j \in 1 .. Len(mainQ) :
          mainQ[i].kind = "ended" /\ mainQ[j].kind = "ended" /\ mainQ[i].proc = mainQ[j].proc
             => i = j
    /\ ~overlap => \A p \in Procs : p < launched => ps[p] = "buried"
    /\ NoLostEngine

(* Once no proxy job is in flight, the manager knows of a proxy that is on,  *)
(* so that a later stop switches it off, provided an enable and a disable    *)
(* were never in flight together.  What it does not know of is a proxy left  *)
(* on by an enable that failed after its first command.                      *)
ProxyNotForgotten ==
    ~raced /\ ~InFlight(TRUE) /\ ~InFlight(FALSE) => (osProxy => active \/ stray)

(* Why: enables and disables exclude each other, so the setting is still off *)
(* when a disable reports; and a setting that is on is known, or the report  *)
(* of the enable that made it is on its way.                                 *)
ProxyInv ==
    ~raced =>
        /\ ~(InFlight(TRUE) /\ InFlight(FALSE))
        /\ jobs["disabled"] > 0 \/ Queued(FALSE) => ~osProxy
        /\ osProxy => \/ active \/ stray \/ Queued(TRUE)
                       \/ jobs["set"] > 0 \/ jobs["enabled"] > 0

(* The status shown: once every queued block, chunk and timer has been      *)
(* handled, the manager does not show that nothing runs while an engine     *)
(* that was not told to stop is running.                                    *)
Settled ==
    /\ mainQ = <<>> /\ timers = 0
    /\ \A p \in Procs : pipe[p] = <<>> /\ ps[p] \notin {"exited", "reaped"}

StatusShown == Settled /\ (\E p \in Procs : Live(p)) => state # "disconnected"

(* "Automatically set proxy on connect": if the manager stays connected with *)
(* the switch on, the system proxy ends up set, unless networksetup fails or *)
(* an enable and a disable were in flight together.                          *)
ProxyOnConnect ==
    <>[](state = "connected" /\ enabled) => <>[]osProxy \/ <>(raced \/ failed)
=============================================================================
