------------------------------ MODULE Provision ------------------------------
(***************************************************************************)
(* Account provisioning and the identity files (main.rs,                     *)
(* load_or_provision_warp and load_or_provision_masque; account.rs;          *)
(* config.rs).  A start loads the identity of its protocol or registers a     *)
(* device with the API, enrolls a MASQUE key where one is missing, and writes *)
(* the file in place.                                                        *)
(*                                                                         *)
(* Two processes may do so at the same time, since the interface can start    *)
(* an engine while an older one is still running.  A process may be killed    *)
(* at any step, and a call may fail before or after the API has applied it.   *)
(* Keys and devices are numbered in the order of their creation.             *)
(***************************************************************************)
EXTENDS Naturals

CONSTANTS Procs,      \* process slots
          MaxKeys,    \* bound: keys generated
          MaxFaults,  \* bound: kills, lost calls and failed writes
          NoKey       \* an empty cert_pem and key_pem

Paths == {"warp", "masque"}
Keys  == 1 .. MaxKeys
Devs  == Keys  \* a device is named by the key it was registered with
Identities == [dev : Devs, wg : Keys, mk : Keys \cup {NoKey}]

ASSUME ProvisionAssumption == MaxKeys \in Nat \ {0} /\ MaxFaults \in Nat /\ NoKey \notin Nat

Absent == [dev |-> 0, wg |-> 0, mk |-> NoKey]
Torn   == [dev |-> 0, wg |-> 1, mk |-> NoKey]

VARIABLES
    pc,      \* "off", "load", "register", "enroll", "save", "write", "ready"
    path,    \* the file of each process
    id,      \* the identity in its memory
    file,    \* what each file holds: an identity, Absent or Torn
    server,  \* the key the API has for each device, or NoKey
    made,    \* keys generated so far
    faults,  \* faults so far
    raced    \* ghost: have two processes been provisioning one file at once

vars == <<pc, path, id, file, server, made, faults, raced>>

(* The MASQUE file may stem from a version that enrolled no key: an identity  *)
(* with a device of its own and no credentials.                              *)
OldIdentity == [dev |-> 1, wg |-> 1, mk |-> NoKey]

Init ==
    /\ pc = [p \in Procs |-> "off"] /\ path = [p \in Procs |-> "warp"]
    /\ id = [p \in Procs |-> Absent] /\ faults = 0 /\ raced = FALSE
    /\ \/ /\ file = [q \in Paths |-> Absent] /\ made = 0
          /\ server = [d \in Devs |-> NoKey]
       \/ /\ file = [q \in Paths |-> IF q = "masque" THEN OldIdentity ELSE Absent] /\ made = 1
          /\ server = [d \in Devs |-> IF d = 1 THEN 1 ELSE NoKey]

Held(q) == file[q] \notin {Absent, Torn}

(* The key that the protocol of a file uses. *)
KeyOf(q, i) == IF q = "masque" THEN i.mk ELSE i.wg

-----------------------------------------------------------------------------

Goes(p, to) == pc' = [pc EXCEPT ![p] = to]

Start(p, q) ==
    /\ pc[p] = "off"
    /\ Goes(p, "load") /\ path' = [path EXCEPT ![p] = q]
    /\ UNCHANGED <<id, file, server, made, faults, raced>>

(* config::load: a file that does not parse ends the process. *)
NeverHasCredentials(q, i) == q = "warp"
HasCredentials(q, i)      == q = "warp" \/ i.mk # NoKey

Working == {"register", "enroll", "save", "write"}

AfterStrictLoad(q) ==
    CASE file[q] \in {Torn, Absent} -> "off"
      [] OTHER -> IF HasCredentials(q, file[q]) THEN "ready" ELSE "enroll"

AfterBlindLoad(q) ==
    CASE file[q] = Torn -> "off"
      [] OTHER -> IF HasCredentials(q, file[q]) THEN "ready" ELSE "enroll"

AfterLoad(q) ==
    CASE file[q] = Torn   -> "off"
      [] file[q] = Absent -> "register"
      [] OTHER -> IF HasCredentials(q, file[q]) THEN "ready" ELSE "enroll"

Load(p) ==
    /\ pc[p] = "load"
    /\ LET q == path[p] to == AfterLoad(q) IN
          /\ Goes(p, to)
          /\ raced' = (raced \/ (to \in Working /\ \E o \in Procs \ {p} :
                                     pc[o] \in Working /\ path[o] = q))
    /\ id' = [id EXCEPT ![p] = file[path[p]]]
    /\ UNCHANGED <<path, file, server, made, faults>>

(* register, within provision_wg: a new WireGuard key and a new device.  The  *)
(* answer may be lost or unusable although the device exists.                *)
AfterRegister(p) == IF path[p] = "masque" THEN "enroll" ELSE "save"

Register(p) ==
    /\ pc[p] = "register" /\ made < MaxKeys
    /\ made' = made + 1
    /\ server' = [server EXCEPT ![made + 1] = made + 1]
    /\ \/ /\ id' = [id EXCEPT ![p] = [dev |-> made + 1, wg |-> made + 1, mk |-> NoKey]]
          /\ Goes(p, AfterRegister(p)) /\ UNCHANGED faults
       \/ /\ faults < MaxFaults /\ faults' = faults + 1
          /\ Goes(p, "off") /\ UNCHANGED id
    /\ UNCHANGED <<path, file, raced>>

(* The enrolled key is only in memory until the file is written: the bug of   *)
(* saving first would make the file name a key the API does not know.        *)
SaveFirst(p) ==
    /\ pc[p] = "enroll" /\ made < MaxKeys
    /\ made' = made + 1
    /\ id' = [id EXCEPT ![p].mk = made + 1] /\ Goes(p, "save")
    /\ UNCHANGED <<path, file, server, faults, raced>>

(* ensure_masque_enrolled: a new key replaces the one the API has for the     *)
(* device; it is kept in memory only if the answer arrives.                  *)
Enroll(p) ==
    /\ pc[p] = "enroll" /\ made < MaxKeys
    /\ made' = made + 1
    /\ server' = [server EXCEPT ![id[p].dev] = made + 1]
    /\ \/ /\ id' = [id EXCEPT ![p].mk = made + 1]
          /\ Goes(p, "save") /\ UNCHANGED faults
       \/ /\ faults < MaxFaults /\ faults' = faults + 1
          /\ Goes(p, "off") /\ UNCHANGED id
    /\ UNCHANGED <<path, file, raced>>

(* A call that never reaches the API. *)
CallFails(p) ==
    /\ pc[p] \in {"register", "enroll"} /\ faults < MaxFaults
    /\ faults' = faults + 1
    /\ Goes(p, "off")
    /\ UNCHANGED <<path, id, file, server, made, raced>>

(* config::save is fs::write: the file is truncated, then written. *)
Truncate(p) ==
    /\ pc[p] = "save"
    /\ Goes(p, "write") /\ file' = [file EXCEPT ![path[p]] = Torn]
    /\ UNCHANGED <<path, id, server, made, faults, raced>>

Write(p) ==
    /\ pc[p] = "write"
    /\ Goes(p, "ready") /\ file' = [file EXCEPT ![path[p]] = id[p]]
    /\ UNCHANGED <<path, id, server, made, faults, raced>>

(* The process ends, or is killed at any other point. *)
Exit(p) ==
    /\ pc[p] = "ready"
    /\ Goes(p, "off")
    /\ UNCHANGED <<path, id, file, server, made, faults, raced>>

Killed(p) ==
    /\ pc[p] \notin {"off", "ready"} /\ faults < MaxFaults
    /\ faults' = faults + 1
    /\ Goes(p, "off")
    /\ UNCHANGED <<path, id, file, server, made, raced>>

-----------------------------------------------------------------------------

Proceeds(p) == Load(p) \/ Register(p) \/ Enroll(p) \/ Truncate(p) \/ Write(p)

Next == \E p \in Procs :
    \/ (\E q \in Paths : Start(p, q)) \/ Proceeds(p) \/ CallFails(p) \/ Exit(p) \/ Killed(p)

Spec == Init /\ [][Next]_vars

(* A process that is not killed goes on, and the user stops it some day and   *)
(* starts MASQUE again.                                                      *)
FairSpec ==
    /\ Spec
    /\ \A p \in Procs : WF_vars(Proceeds(p)) /\ WF_vars(Exit(p)) /\ SF_vars(Start(p, "masque"))

-----------------------------------------------------------------------------
(* Properties. *)

(* Every variable keeps its type, and a process that provisions has an        *)
(* identity where it needs one.                                              *)
Stored == Identities \cup {Absent, Torn}

TypeOK ==
    /\ pc \in [Procs -> Working \cup {"off", "load", "ready"}] /\ path \in [Procs -> Paths]
    /\ id \in [Procs -> Stored] /\ file \in [Paths -> Stored]
    /\ server \in [Devs -> Keys \cup {NoKey}] /\ made \in 0 .. MaxKeys
    /\ faults \in 0 .. MaxFaults /\ raced \in BOOLEAN
    /\ \A p \in Procs : pc[p] \in {"enroll", "save", "write", "ready"} => id[p] \in Identities

(* The credentials in a file are the ones the API has for the device, after   *)
(* any kill, lost answer or restart, unless two processes provisioned the     *)
(* same file at once.                                                        *)
KeysMatch ==
    ~raced => \A q \in Paths :
        Held(q) /\ KeyOf(q, file[q]) # NoKey => server[file[q].dev] = KeyOf(q, file[q])

(* So are those of a process that has gone on to connect. *)
ReadyIsEnrolled ==
    ~raced => \A p \in Procs :
        pc[p] = "ready" => server[id[p].dev] = KeyOf(path[p], id[p])

(* Once the faults are over a start of MASQUE always gets through, unless a   *)
(* kill between truncation and write has left a file no start can read: that  *)
(* state is never left again.                                                *)
GetsReady ==
    \/ []<>(\E p \in Procs : pc[p] = "ready" /\ path[p] = "masque")
    \/ <>[](file["masque"] = Torn)
=============================================================================
