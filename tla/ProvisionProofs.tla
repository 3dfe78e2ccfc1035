--------------------------- MODULE ProvisionProofs ---------------------------
(***************************************************************************)
(* Type correctness of provisioning, and the agreement of the files and of    *)
(* connected processes with the API, for any number of processes, keys and    *)
(* faults.                                                                   *)
(***************************************************************************)
EXTENDS Provision, TLAPS

USE ProvisionAssumption DEF ProvisionAssumption

-----------------------------------------------------------------------------
(* Type correctness. *)

LEMMA NotIdentities ==
    /\ Absent \notin Identities /\ Torn \notin Identities /\ Absent # Torn
    /\ Absent.mk = NoKey /\ Torn.mk = NoKey
BY DEF Absent, Torn, Identities, Devs, Keys

LEMMA TypeInit == Init => TypeOK
<1> SUFFICES ASSUME Init PROVE TypeOK
  OBVIOUS
<1>1. OldIdentity \in Identities
  BY DEF OldIdentity, Identities, Devs, Keys
<1>2. file \in [Paths -> Stored] /\ server \in [Devs -> Keys \cup {NoKey}] /\ made \in 0 .. MaxKeys
  BY <1>1 DEF Init, Stored, Devs, Keys
<1>3. /\ pc \in [Procs -> Working \cup {"off", "load", "ready"}] /\ path \in [Procs -> Paths]
      /\ id \in [Procs -> Stored] /\ faults \in 0 .. MaxFaults
      /\ \A p \in Procs : pc[p] = "off"
  BY DEF Init, Stored, Paths, Working
<1>4. raced \in BOOLEAN
  BY Zenon DEF Init
<1> QED
  BY <1>2, <1>3, <1>4 DEF TypeOK

(* What the program keeps in memory at each point. *)
Has(p) == pc[p] \in {"enroll", "save", "write", "ready"}

LEMMA TypeStep == TypeOK /\ [Next]_vars => TypeOK'
<1> SUFFICES ASSUME TypeOK, [Next]_vars PROVE TypeOK'
  OBVIOUS
<1> USE DEF TypeOK, Goes, Working
<1>1. CASE \E p \in Procs, q \in Paths : Start(p, q)
  BY <1>1 DEF Start
<1>2. ASSUME NEW p \in Procs, Load(p) PROVE TypeOK'
  <2> DEFINE q == path[p]
  <2>1. q \in Paths /\ file[q] \in Stored
    OBVIOUS
  <2>2. AfterLoad(q) \in {"off", "register", "enroll", "ready"}
    BY DEF AfterLoad
  <2>3. AfterLoad(q) \in {"enroll", "ready"} => file[q] \in Identities
    BY <2>1 DEF AfterLoad, Stored
  <2>4. pc' = [pc EXCEPT ![p] = AfterLoad(q)] /\ id' = [id EXCEPT ![p] = file[q]]
    BY <1>2 DEF Load
  <2>5. raced' \in BOOLEAN
    BY <1>2, Zenon DEF Load
  <2> HIDE DEF q
  <2> QED
    BY <1>2, <2>1, <2>2, <2>3, <2>4, <2>5 DEF Load
<1>3. ASSUME NEW p \in Procs, Register(p) PROVE TypeOK'
  <2>1. made + 1 \in Keys /\ made + 1 \in 0 .. MaxKeys
    BY <1>3 DEF Register, Keys
  <2>2. [dev |-> made + 1, wg |-> made + 1, mk |-> NoKey] \in Identities
    BY <2>1 DEF Identities, Devs
  <2> QED
    BY <1>3, <2>1, <2>2 DEF Register, AfterRegister, Stored, Devs
<1>4. ASSUME NEW p \in Procs, Enroll(p) PROVE TypeOK'
  <2>1. made + 1 \in Keys /\ made + 1 \in 0 .. MaxKeys /\ id[p] \in Identities
    BY <1>4 DEF Enroll, Keys
  <2>2. [id[p] EXCEPT !.mk = made + 1] \in Identities
    BY <2>1 DEF Identities
  <2>3. server' \in [Devs -> Keys \cup {NoKey}] /\ made' \in 0 .. MaxKeys
    BY <1>4, <2>1 DEF Enroll
  <2>4. \/ pc' = [pc EXCEPT ![p] = "save"] /\ faults' = faults
           /\ id' = [id EXCEPT ![p] = [id[p] EXCEPT !.mk = made + 1]]
        \/ pc' = [pc EXCEPT ![p] = "off"] /\ id' = id /\ faults' \in 0 .. MaxFaults
    BY <1>4 DEF Enroll
  <2> QED
    BY <1>4, <2>2, <2>3, <2>4 DEF Enroll, Stored
<1>5. ASSUME NEW p \in Procs, CallFails(p) \/ Exit(p) \/ Killed(p) PROVE TypeOK'
  BY <1>5 DEF CallFails, Exit, Killed
<1>6. ASSUME NEW p \in Procs, Truncate(p) \/ Write(p) PROVE TypeOK'
  BY <1>6 DEF Truncate, Write, Stored
<1>7. CASE UNCHANGED vars
  BY <1>7 DEF vars
<1> QED
  BY <1>1, <1>2, <1>3, <1>4, <1>5, <1>6, <1>7 DEF Next, Proceeds

(* Every reachable state is well typed, and a process that enrolls, saves or   *)
(* connects has an identity to do it with.                                    *)
THEOREM TypeCorrect == Spec => []TypeOK
BY TypeInit, TypeStep, PTL DEF Spec

-----------------------------------------------------------------------------
(* Devices.  Every device in use was made here, and the two protocols never    *)
(* share one.                                                                *)

DevicesInv ==
    /\ \A p \in Procs : Has(p) => id[p].dev <= made
    /\ \A q \in Paths : Held(q) => file[q].dev <= made
    /\ \A p, o \in Procs : Has(p) /\ Has(o) /\ path[p] # path[o] => id[p].dev # id[o].dev
    /\ \A p \in Procs, q \in Paths : Has(p) /\ Held(q) /\ q # path[p] => id[p].dev # file[q].dev
    /\ Held("warp") /\ Held("masque") => file["warp"].dev # file["masque"].dev

(* A file that provisioning has still to fill in. *)
Blank(q) == file[q] = Absent \/ (q = "masque" /\ Held(q) /\ file[q].mk = NoKey)

Enrolled(p) == server[id[p].dev] = KeyOf(path[p], id[p])

(* As long as no two processes provision one file at once: whoever provisions  *)
(* found the file blank, which it stays until it is truncated; whoever is      *)
(* ready has the credentials of the file, which nobody touches any more.       *)
EnrolledInv ==
    /\ \A p, o \in Procs : p # o /\ pc[p] \in Working /\ pc[o] \in Working => path[p] # path[o]
    /\ \A p \in Procs : pc[p] \in {"register", "enroll", "save"} => Blank(path[p])
    /\ \A p \in Procs : pc[p] = "enroll" => path[p] = "masque"
    /\ \A p \in Procs : pc[p] = "write" => file[path[p]] = Torn
    /\ \A p \in Procs : pc[p] \in {"save", "write"} =>
           Enrolled(p) /\ HasCredentials(path[p], id[p])
    /\ \A p \in Procs : pc[p] = "ready" =>
           Enrolled(p) /\ HasCredentials(path[p], id[p]) /\ file[path[p]] = id[p]
    /\ \A q \in Paths : Held(q) /\ KeyOf(q, file[q]) # NoKey =>
           server[file[q].dev] = KeyOf(q, file[q])

ProvisionInv == TypeOK /\ DevicesInv /\ (~raced => EnrolledInv)

LEMMA DevicesStep == TypeOK /\ DevicesInv /\ [Next]_vars => DevicesInv'
<1> SUFFICES ASSUME TypeOK, DevicesInv, [Next]_vars PROVE DevicesInv'
  OBVIOUS
<1> USE DEF TypeOK, DevicesInv, Has, Held, Goes, Paths
<1>1. CASE \E p \in Procs, q \in Paths : Start(p, q)
  BY <1>1 DEF Start
<1>2. ASSUME NEW p \in Procs, Load(p) PROVE DevicesInv'
  <2>1. AfterLoad(path[p]) \in {"enroll", "ready"} => Held(path[p])
    BY DEF AfterLoad
  <2>2. pc' = [pc EXCEPT ![p] = AfterLoad(path[p])] /\ id' = [id EXCEPT ![p] = file[path[p]]]
        /\ UNCHANGED <<path, file, made>>
    BY <1>2 DEF Load
  <2>3. \A o \in Procs : Has(o)' =>
            \/ id'[o] = id[o] /\ Has(o) /\ o # p
            \/ id'[o] = file[path[o]] /\ Held(path[o]) /\ o = p
    <3> DEFINE to == AfterLoad(path[p])
    <3>1. pc'[p] = to /\ id'[p] = file[path[p]]
      BY <2>2
    <3>2. \A o \in Procs \ {p} : pc'[o] = pc[o] /\ id'[o] = id[o]
      BY <2>2
    <3>3. Has(p)' => Held(path[p])
      <4> HIDE DEF to
      <4>1. to \in {"enroll", "ready"} => Held(path[p])
        BY <2>1 DEF to
      <4>2. to \in {"off", "register", "enroll", "ready"}
        BY DEF to, AfterLoad
      <4> QED
        BY <3>1, <4>1, <4>2
    <3> QED
      BY <3>1, <3>2, <3>3
  <2>4. \A o \in Procs : Has(o)' => id'[o].dev <= made'
    BY <2>2, <2>3
  <2>5. \A o, r \in Procs :
            Has(o)' /\ Has(r)' /\ path'[o] # path'[r] => id'[o].dev # id'[r].dev
    BY <2>2, <2>3
  <2>6. \A o \in Procs, q \in Paths :
            Has(o)' /\ Held(q)' /\ q # path'[o] => id'[o].dev # file'[q].dev
    BY <2>2, <2>3
  <2> QED
    BY <2>2, <2>4, <2>5, <2>6
<1>3. ASSUME NEW p \in Procs, Register(p) PROVE DevicesInv'
  <2>1. CASE pc' = [pc EXCEPT ![p] = "off"] /\ id' = id
    <3>1. /\ \A o \in Procs : Has(o) => id[o].dev <= made + 1
          /\ \A q \in Paths : Held(q) => file[q].dev <= made + 1
      BY DEF Stored, Identities, Devs, Keys
    <3>2. made' = made + 1 /\ path' = path /\ file' = file /\ \A o \in Procs : Has(o)' => Has(o)
      BY <1>3, <2>1 DEF Register
    <3> QED
      BY <2>1, <3>1, <3>2
  <2>2. CASE /\ pc' = [pc EXCEPT ![p] = AfterRegister(p)]
             /\ id' = [id EXCEPT ![p] = [dev |-> made + 1, wg |-> made + 1, mk |-> NoKey]]
    <3>1. id'[p].dev = made + 1 /\ \A o \in Procs \ {p} : id'[o] = id[o] /\ pc'[o] = pc[o]
      BY <2>2
    <3>2. \A o \in Procs \ {p} : Has(o) => id[o].dev # made + 1 /\ id[o].dev <= made + 1
      BY DEF Identities, Devs, Keys
    <3>3. \A q \in Paths : Held(q) => file[q].dev # made + 1 /\ file[q].dev <= made + 1
      BY DEF Stored, Identities, Devs, Keys
    <3>4. made' = made + 1 /\ path' = path /\ file' = file
      BY <1>3 DEF Register
    <3>5. \A o \in Procs : Has(o)' => id'[o].dev <= made'
      BY <3>1, <3>2, <3>4
    <3>6. \A q \in Paths : Held(q)' => file'[q].dev <= made'
      BY <3>3, <3>4
    <3>7. \A o, r \in Procs :
              Has(o)' /\ Has(r)' /\ path'[o] # path'[r] => id'[o].dev # id'[r].dev
      BY <3>1, <3>2, <3>4
    <3>8. \A o \in Procs, q \in Paths :
              Has(o)' /\ Held(q)' /\ q # path'[o] => id'[o].dev # file'[q].dev
      BY <3>1, <3>3, <3>4
    <3> QED
      BY <3>4, <3>5, <3>6, <3>7, <3>8
  <2>3. \/ pc' = [pc EXCEPT ![p] = "off"] /\ id' = id
        \/ /\ pc' = [pc EXCEPT ![p] = AfterRegister(p)]
           /\ id' = [id EXCEPT ![p] = [dev |-> made + 1, wg |-> made + 1, mk |-> NoKey]]
    BY <1>3, Zenon DEF Register
  <2> QED
    BY <2>1, <2>2, <2>3
<1>4. ASSUME NEW p \in Procs, Enroll(p) PROVE DevicesInv'
  <2>1. /\ \A o \in Procs : id'[o].dev = id[o].dev /\ (Has(o)' => Has(o))
        /\ made' = made + 1 /\ UNCHANGED <<path, file>>
    BY <1>4 DEF Enroll, Stored, Identities
  <2>2. /\ \A o \in Procs : Has(o) => id[o].dev <= made + 1
        /\ \A q \in Paths : Held(q) => file[q].dev <= made + 1
    BY DEF Stored, Identities, Devs, Keys
  <2> QED
    BY <2>1, <2>2
<1>5. ASSUME NEW p \in Procs, CallFails(p) \/ Exit(p) \/ Killed(p) PROVE DevicesInv'
  BY <1>5 DEF CallFails, Exit, Killed
<1>6. ASSUME NEW p \in Procs, Truncate(p) PROVE DevicesInv'
  BY <1>6 DEF Truncate
<1>7. ASSUME NEW p \in Procs, Write(p) PROVE DevicesInv'
  BY <1>7 DEF Write
<1>8. CASE UNCHANGED vars
  BY <1>8 DEF vars
<1> QED
  BY <1>1, <1>2, <1>3, <1>4, <1>5, <1>6, <1>7, <1>8 DEF Next, Proceeds

LEMMA EnrolledStep ==
    TypeOK /\ DevicesInv /\ (~raced => EnrolledInv) /\ [Next]_vars /\ ~raced' => EnrolledInv'
<1> SUFFICES ASSUME TypeOK, DevicesInv, ~raced => EnrolledInv, [Next]_vars, ~raced'
             PROVE  EnrolledInv'
  OBVIOUS
<1>0. ~raced /\ EnrolledInv
  <2>1. CASE \E p \in Procs : Load(p)
    BY <2>1 DEF Load
  <2>2. CASE raced' = raced
    BY <2>2
  <2>3. raced' = raced \/ \E p \in Procs : Load(p)
    BY DEF Next, Proceeds, Start, Register, Enroll, Truncate, Write, CallFails, Exit, Killed,
           vars
  <2> QED
    BY <2>1, <2>2, <2>3
<1> USE <1>0 DEF TypeOK, EnrolledInv, Blank, Enrolled, Held, Goes, Working
<1>1. CASE \E p \in Procs, q \in Paths : Start(p, q)
  BY <1>1 DEF Start
<1>2. ASSUME NEW p \in Procs, Load(p) PROVE EnrolledInv'
  <2> DEFINE to == AfterLoad(path[p])
  <2>1. to \in {"off", "register", "enroll", "ready"}
    BY DEF AfterLoad
  <2>2. /\ to = "register" => Blank(path[p])
        /\ to = "enroll" => Blank(path[p]) /\ path[p] = "masque"
        /\ to = "ready" => Held(path[p]) /\ HasCredentials(path[p], file[path[p]])
    BY DEF AfterLoad, HasCredentials, Paths
  <2>3. to = "ready" => /\ KeyOf(path[p], file[path[p]]) # NoKey
                        /\ server[file[path[p]].dev] = KeyOf(path[p], file[path[p]])
    BY <2>2 DEF HasCredentials, KeyOf, Stored, Identities, Keys, Paths
  <2>4. pc' = [pc EXCEPT ![p] = to] /\ id' = [id EXCEPT ![p] = file[path[p]]]
        /\ UNCHANGED <<path, file, server>>
    BY <1>2 DEF Load
  <2>5. to \in Working => \A o \in Procs \ {p} : pc[o] \in Working => path[o] # path[p]
    BY <1>2 DEF Load
  <2> HIDE DEF to
  <2> QED
    BY <2>1, <2>2, <2>3, <2>4, <2>5
<1>3. ASSUME NEW p \in Procs, Register(p) PROVE EnrolledInv'
  <2>1. /\ \A o \in Procs : Has(o) => id[o].dev # made + 1
        /\ \A q \in Paths : Held(q) => file[q].dev # made + 1
    BY DEF DevicesInv, Has, Stored, Identities, Devs, Keys
  <2>2. CASE pc' = [pc EXCEPT ![p] = "off"] /\ id' = id
    BY <1>3, <2>1, <2>2 DEF Register, Has, Stored, Identities
  <2>3. CASE /\ pc' = [pc EXCEPT ![p] = AfterRegister(p)]
             /\ id' = [id EXCEPT ![p] = [dev |-> made + 1, wg |-> made + 1, mk |-> NoKey]]
    BY <1>3, <2>1, <2>3 DEF Register, AfterRegister, Has, HasCredentials, KeyOf, Paths, Stored,
                            Identities, Devs, Keys
  <2> QED
    BY <1>3, <2>2, <2>3 DEF Register
<1>4. ASSUME NEW p \in Procs, Enroll(p) PROVE EnrolledInv'
  <2> DEFINE d == id[p].dev
  <2>1. pc[p] = "enroll" /\ path[p] = "masque" /\ Blank("masque") /\ d \in Devs
    BY <1>4 DEF Enroll, Identities
  <2>2. server' = [server EXCEPT ![d] = made + 1] /\ UNCHANGED <<path, file>>
    BY <1>4 DEF Enroll
  <2>3. \A q \in Paths : Held(q) /\ KeyOf(q, file[q]) # NoKey => file[q].dev # d
    BY <2>1, NotIdentities DEF DevicesInv, Has, KeyOf, Paths
  <2>4. \A o \in Procs \ {p} : pc[o] \in {"save", "write"} => id[o].dev # d
    BY <2>1 DEF DevicesInv, Has
  <2>5. \A o \in Procs : pc[o] = "ready" => id[o].dev # d
    BY <2>1, NotIdentities DEF DevicesInv, Has, HasCredentials, Paths
  <2>6. \/ /\ pc' = [pc EXCEPT ![p] = "save"]
           /\ id' = [id EXCEPT ![p] = [id[p] EXCEPT !.mk = made + 1]]
        \/ pc' = [pc EXCEPT ![p] = "off"] /\ id' = id
    BY <1>4 DEF Enroll
  <2>7. \A o \in Procs : Has(o) => id[o].dev \in Devs
    BY DEF Has, Identities
  <2>8. \A q \in Paths : Held(q) => file[q].dev \in Devs
    BY DEF Stored, Identities
  <2> HIDE DEF d
  <2>9. CASE pc' = [pc EXCEPT ![p] = "off"] /\ id' = id
    BY <2>1, <2>2, <2>3, <2>4, <2>5, <2>7, <2>8, <2>9 DEF Has
  <2>10. CASE /\ pc' = [pc EXCEPT ![p] = "save"]
              /\ id' = [id EXCEPT ![p] = [id[p] EXCEPT !.mk = made + 1]]
    <3>1. id'[p].dev = d /\ id'[p].mk = made + 1 /\ made + 1 # NoKey
      BY <1>4, <2>10 DEF Enroll, Identities, d
    <3>2. \A o \in Procs \ {p} : id'[o] = id[o] /\ pc'[o] = pc[o]
      BY <2>10
    <3>3. server'[d] = made + 1
      BY <2>1, <2>2
    <3> QED
      BY <2>1, <2>2, <2>3, <2>4, <2>5, <2>7, <2>8, <2>10, <3>1, <3>2, <3>3
      DEF Has, HasCredentials, KeyOf
  <2> QED
    BY <2>6, <2>9, <2>10
<1>5. ASSUME NEW p \in Procs, CallFails(p) \/ Exit(p) \/ Killed(p) PROVE EnrolledInv'
  BY <1>5 DEF CallFails, Exit, Killed
<1>6. ASSUME NEW p \in Procs, Truncate(p) PROVE EnrolledInv'
  <2>1. /\ pc[p] = "save" /\ pc' = [pc EXCEPT ![p] = "write"]
        /\ file' = [file EXCEPT ![path[p]] = Torn] /\ UNCHANGED <<path, id, server>>
    BY <1>6 DEF Truncate
  <2>2. \A o \in Procs : pc[o] = "ready" => path[o] # path[p]
    BY <2>1, NotIdentities DEF HasCredentials
  <2>3. \A o \in Procs \ {p} : pc[o] \in Working => path[o] # path[p]
    BY <2>1
  <2> QED
    BY <2>1, <2>2, <2>3
<1>7. ASSUME NEW p \in Procs, Write(p) PROVE EnrolledInv'
  <2>1. /\ pc[p] = "write" /\ pc' = [pc EXCEPT ![p] = "ready"]
        /\ file' = [file EXCEPT ![path[p]] = id[p]] /\ UNCHANGED <<path, id, server>>
    BY <1>7 DEF Write
  <2>2. \A o \in Procs : pc[o] = "ready" => path[o] # path[p]
    BY <2>1, NotIdentities
  <2>3. \A o \in Procs \ {p} : pc[o] \in Working => path[o] # path[p]
    BY <2>1
  <2> QED
    BY <2>1, <2>2, <2>3
<1>8. CASE UNCHANGED vars
  BY <1>8 DEF vars
<1> QED
  BY <1>1, <1>2, <1>3, <1>4, <1>5, <1>6, <1>7, <1>8 DEF Next, Proceeds

LEMMA ProvisionAlways == Spec => []ProvisionInv
<1>1. Init => ProvisionInv
  <2> SUFFICES ASSUME Init PROVE ProvisionInv
    OBVIOUS
  <2>1. DevicesInv
    BY DEF Init, DevicesInv, Has, Held, Paths, OldIdentity, Absent, Torn
  <2>2. EnrolledInv
    BY DEF Init, EnrolledInv, Held, Paths, OldIdentity, Absent, Torn, KeyOf, Working
  <2> QED
    BY <2>1, <2>2, TypeInit DEF ProvisionInv
<1>2. ProvisionInv /\ [Next]_vars => ProvisionInv'
  BY TypeStep, DevicesStep, EnrolledStep DEF ProvisionInv
<1> QED
  BY <1>1, <1>2, PTL DEF Spec

(* Unless two processes provision one file at once, the credentials in a file  *)
(* are those the API has for the device, after every kill, lost answer and     *)
(* restart.                                                                  *)
THEOREM FilesAgree == Spec => []KeysMatch
<1>1. ProvisionInv => KeysMatch
  BY DEF ProvisionInv, EnrolledInv, KeysMatch
<1> QED
  BY <1>1, ProvisionAlways, PTL

(* Under the same condition a process connects only with credentials the API   *)
(* has.                                                                      *)
THEOREM ConnectsEnrolled == Spec => []ReadyIsEnrolled
<1>1. ProvisionInv => ReadyIsEnrolled
  BY DEF ProvisionInv, EnrolledInv, Enrolled, ReadyIsEnrolled
<1> QED
  BY <1>1, ProvisionAlways, PTL
=============================================================================
