----------------------------- MODULE Supervisor -----------------------------
(***************************************************************************)
(* The connection supervisors of aether (main.rs: run_masque and            *)
(* run_wireguard): how a gateway is chosen, checked, remembered in the      *)
(* lastconn file, used for a tunnel that serves SOCKS5, and replaced.       *)
(*                                                                         *)
(* A link is a gateway address with the obfuscation profile used on it.     *)
(* The network decides how far each link works: not at all, for the         *)
(* handshake only ("control"), or for traffic.  The process may be killed   *)
(* at any time; the lastconn file survives.  Delays are single steps.       *)
(***************************************************************************)
EXTENDS Naturals

CONSTANTS V4, V6,      \* gateway addresses of each family
          Profiles,    \* number of WireGuard profile candidates
          NoLink,      \* None for an Option of a link
          NoPeer,      \* AETHER_PEER not set
          BadPeer,     \* AETHER_PEER set to something that does not parse
          Protos,      \* what to run: MASQUE over "h3" or "h2", or "wg"
          Forceds,     \* the values AETHER_PEER may take
          Choices,     \* the families the user may choose (sets of addresses)
          DataCheck,   \* is data-plane validation on (no --no-data-check)
          Required,    \* DATA_PROBE_REQUIRED_SUCCESSES
          MaxEvents,   \* bound: network events
          MaxStarts    \* bound: process starts

Peers == V4 \cup V6
Links == [peer : Peers, prof : 1 .. Profiles]
Levels == {"dead", "control", "traffic"}

ASSUME SupervisorAssumption ==
    /\ Profiles \in Nat \ {0} /\ Required \in Nat \ {0} /\ DataCheck \in BOOLEAN
    /\ NoLink \notin Links /\ NoPeer \notin Peers /\ BadPeer \notin Peers /\ NoPeer # BadPeer
    /\ Protos \subseteq {"h3", "h2", "wg"} /\ Forceds \subseteq Peers \cup {NoPeer, BadPeer}
    /\ Choices \subseteq SUBSET Peers /\ MaxEvents \in Nat /\ MaxStarts \in Nat

VARIABLES
    proto,   \* the protocol and transport the user runs
    forced,  \* AETHER_PEER of the running process
    pc,      \* where the supervisor is
    file,    \* lastconn: the link load() would return, or NoLink
    quick,   \* quick_peer
    last,    \* last_good_peer
    link,    \* the link being checked or used
    k,       \* the profile candidate being tried
    scan,    \* the addresses a hunt may try (the variable ip)
    got,     \* validate_successes
    up,      \* how far each link works
    events,  \* network events so far
    starts,  \* process starts so far
    proven,  \* ghost: links that carried traffic since the last tunnel ended
    worked   \* ghost: links that ever carried traffic

userVars  == <<proto, forced>>
localVars == <<quick, last, link, k, scan, got>>
netVars   == <<up, events>>
ghostVars == <<proven, worked>>
vars == <<userVars, pc, file, localVars, netVars, starts, ghostVars>>

Pcs == {"down", "quick", "top", "retry", "pick", "test", "hunt", "chosen",
        "write", "tunnel", "serve", "delay"}

Init ==
    /\ proto \in Protos /\ forced = NoPeer
    /\ pc = "down" /\ file = NoLink
    /\ quick = NoLink /\ last = NoLink /\ link = NoLink /\ k = 1 /\ scan = V4
    /\ got = 0 /\ up \in [Links -> Levels] /\ events = 0 /\ starts = 0
    /\ proven = {} /\ worked = {}

(* wg_profile_candidates; MASQUE has the one profile of the environment. *)
Candidates == IF proto = "wg" THEN Profiles ELSE 1
Link(p, n) == [peer |-> p, prof |-> n]

-----------------------------------------------------------------------------
(* A check of a link (verify_masque, verify_h2, verify_endpoint) succeeds   *)
(* when the link carries the probes; without data check a completed         *)
(* handshake is enough.  It may also fail on a link that works.             *)

HandshakeOk(l) == up[l] # "dead"
DataPlaneOk(l) == up[l] = "traffic"
Passes(l) == IF DataCheck THEN DataPlaneOk(l) ELSE HandshakeOk(l)

Proves(l) ==
    LET S == IF DataPlaneOk(l) THEN {l} ELSE {} IN
    proven' = proven \cup S /\ worked' = worked \cup S

(* The families a scan will try: what the user chose, for whom settings are   *)
(* asked only if there is no forced peer.                                    *)
AsksFor(f, c) == IF f = NoPeer THEN c ELSE V4

(* A process starts: the user decides on the forced peer and the families,  *)
(* and whether a cached link is tried.                                      *)
Boot ==
    /\ pc = "down" /\ starts < MaxStarts
    /\ starts' = starts + 1
    /\ forced' \in Forceds
    /\ quick' = NoLink /\ last' = NoLink /\ k' = 1 /\ got' = 0
    /\ \/ forced' = NoPeer /\ file # NoLink /\ pc' = "quick" /\ link' = file
       \/ pc' = "top" /\ link' = NoLink
    /\ \E c \in Choices : scan' = AsksFor(forced', c)
    /\ proven' = {}
    /\ UNCHANGED <<proto, file, netVars, worked>>

(* The cached link works: it is used, and no scan settings are asked for; a   *)
(* later hunt scans IPv4, whatever the user chose.                           *)
QuickOk ==
    /\ pc = "quick" /\ Passes(link)
    /\ Proves(link)
    /\ quick' = link /\ scan' = V4 /\ pc' = "top"
    /\ UNCHANGED <<userVars, file, last, link, k, got, netVars, starts>>

QuickFails ==
    /\ pc = "quick"
    /\ pc' = "top"
    /\ UNCHANGED <<userVars, file, localVars, netVars, starts, ghostVars>>

-----------------------------------------------------------------------------
(* One round of the loop: choose a link. *)

Top ==
    /\ pc = "top"
    /\ \/ /\ quick # NoLink
          /\ link' = quick /\ quick' = NoLink /\ pc' = "chosen"
       \/ /\ quick = NoLink /\ last # NoLink
          /\ link' = last /\ pc' = "retry" /\ UNCHANGED quick
       \/ /\ quick = NoLink /\ last = NoLink
          /\ pc' = "pick" /\ UNCHANGED <<link, quick>>
    /\ UNCHANGED <<userVars, file, last, k, scan, got, netVars, starts, ghostVars>>

(* retrying last known-good gateway before rescanning *)
RetryUnchecked == pc = "retry" /\ UNCHANGED ghostVars
RetryChecked   == pc = "retry" /\ Passes(link) /\ Proves(link)

RetryOk ==
    /\ RetryChecked
    /\ pc' = "chosen"
    /\ UNCHANGED <<userVars, file, quick, last, link, k, scan, got, netVars, starts>>

RetryFails ==
    /\ pc = "retry"
    /\ pc' = "pick"
    /\ UNCHANGED <<userVars, file, localVars, netVars, starts, ghostVars>>

(* The forced peer, which run_masque uses untested and run_wireguard tests  *)
(* with each profile; or a hunt.                                            *)
Pick ==
    /\ pc = "pick"
    /\ k' = 1
    /\ \/ forced = BadPeer /\ pc' = "down" /\ UNCHANGED link
       \/ /\ forced \in Peers /\ proto # "wg"
          /\ link' = Link(forced, 1) /\ pc' = "chosen"
       \/ forced \in Peers /\ proto = "wg" /\ pc' = "test" /\ UNCHANGED link
       \/ forced = NoPeer /\ pc' = "hunt" /\ UNCHANGED link
    /\ UNCHANGED <<userVars, file, quick, last, scan, got, netVars, starts, ghostVars>>

Finds(p) ==
    /\ Passes(Link(p, k)) /\ Proves(Link(p, k))
    /\ link' = Link(p, k) /\ pc' = "chosen"
    /\ UNCHANGED <<userVars, file, quick, last, k, scan, got, netVars, starts>>

(* Nothing with this profile: the next one is tried. *)
Misses(after) ==
    /\ IF k < Candidates THEN k' = k + 1 /\ UNCHANGED pc ELSE pc' = after /\ UNCHANGED k
    /\ UNCHANGED <<userVars, file, quick, last, link, scan, got, netVars, starts, ghostVars>>

TestOk     == pc = "test" /\ Finds(forced)
TestFails  == pc = "test" /\ Misses("down")
HuntFinds  == pc = "hunt" /\ \E p \in scan : Finds(p)
HuntMisses == pc = "hunt" /\ Misses("delay")

-----------------------------------------------------------------------------
(* lastconn::save, which truncates and then writes, and may fail silently;  *)
(* a forced peer is not saved.                                              *)

SavesAlways == TRUE
Saves       == forced = NoPeer

Chosen ==
    /\ pc = "chosen"
    /\ last' = link /\ got' = 0
    /\ \/ Saves /\ pc' = "write" /\ file' = NoLink
       \/ pc' = "tunnel" /\ UNCHANGED file
    /\ UNCHANGED <<userVars, quick, link, k, scan, netVars, starts, ghostVars>>

Write ==
    /\ pc = "write"
    /\ pc' = "tunnel"
    /\ file' \in {link, NoLink}
    /\ UNCHANGED <<userVars, localVars, netVars, starts, ghostVars>>

-----------------------------------------------------------------------------
(* run_masque_tunnel, over HTTP/3 (quic.rs) or HTTP/2 (masque_h2.rs), and      *)
(* run_wireguard_tunnel.                                                     *)

ExposedEarly(n) == n >= 1
Exposed(n)      == n >= Required

(* A packet comes back through the tunnel (validate_successes); the last one *)
(* required exposes SOCKS5.                                                  *)
RoundTrip ==
    /\ pc = "tunnel" /\ proto # "wg" /\ DataCheck /\ DataPlaneOk(link)
    /\ got' = got + 1
    /\ IF Exposed(got + 1)
       THEN pc' = "serve" /\ Proves(link)
       ELSE UNCHANGED <<pc, ghostVars>>
    /\ UNCHANGED <<userVars, file, quick, last, link, k, scan, netVars, starts>>

(* Without data check MASQUE exposes SOCKS5 after the handshake; WireGuard  *)
(* does as soon as its socket is open.                                      *)
Expose ==
    /\ pc = "tunnel"
    /\ proto = "wg" \/ (~DataCheck /\ HandshakeOk(link))
    /\ pc' = "serve"
    /\ UNCHANGED <<userVars, file, localVars, netVars, starts, ghostVars>>

EndTunnel ==
    /\ pc' = "delay" /\ proven' = {}
    /\ UNCHANGED <<userVars, file, localVars, up, starts, worked>>


TimesOut ==
    \/ proto = "h3" /\ pc = "tunnel" /\ ~Passes(link)
    \/ proto = "h3" /\ pc = "serve" /\ ~HandshakeOk(link)
    \/ proto = "h2" /\ pc = "tunnel" /\ DataCheck /\ up[link] = "control"

TunnelTimesOut ==
    /\ TimesOut
    /\ EndTunnel
    /\ UNCHANGED events

(* Over HTTP/2 a dead link is noticed when the kernel gives TCP up, or when    *)
(* traffic of a client turns the loop after the deadline of a ping, and maybe *)
(* never: connect has no time-out, and an awaited pong disables the timer     *)
(* that would turn the loop.                                                 *)
H2Notices ==
    /\ proto = "h2" /\ pc \in {"tunnel", "serve"} /\ ~HandshakeOk(link)
    /\ EndTunnel
    /\ UNCHANGED events

(* A MASQUE connection is closed; a WireGuard tunnel ends when one of its     *)
(* tasks does, which only an error of its socket brings about.  Both are     *)
(* events of the network.                                                    *)
TunnelBreaks ==
    /\ pc \in {"tunnel", "serve"} /\ events < MaxEvents
    /\ EndTunnel
    /\ events' = events + 1

ConnectionCloses == proto # "wg" /\ TunnelBreaks
RecvTaskEnds     == proto = "wg" /\ TunnelBreaks

DelayOver ==
    /\ pc = "delay"
    /\ pc' = "top"
    /\ UNCHANGED <<userVars, file, localVars, netVars, starts, ghostVars>>

-----------------------------------------------------------------------------
(* The network changes, and the process is killed (external). *)

LinkChanges(l) ==
    /\ events < MaxEvents
    /\ events' = events + 1
    /\ up' \in {[up EXCEPT ![l] = v] : v \in Levels \ {up[l]}}
    /\ UNCHANGED <<userVars, pc, file, localVars, starts, ghostVars>>

Killed ==
    /\ pc # "down"
    /\ pc' = "down"
    /\ UNCHANGED <<userVars, file, localVars, netVars, starts, ghostVars>>

-----------------------------------------------------------------------------

Process ==
    \/ QuickOk \/ QuickFails \/ Top \/ RetryOk \/ RetryFails \/ Pick
    \/ TestOk \/ TestFails \/ HuntFinds \/ HuntMisses \/ Chosen \/ Write
    \/ RoundTrip \/ Expose \/ TunnelTimesOut \/ DelayOver

Next == Boot \/ Process \/ H2Notices \/ ConnectionCloses \/ RecvTaskEnds \/ Killed
        \/ \E l \in Links : LinkChanges(l)

Spec == Init /\ [][Next]_vars

(* The process runs, and a hunt that is repeated for ever comes across a    *)
(* gateway that works: each hunt samples every subnet anew.                 *)
FairSpec == Spec /\ WF_vars(Process) /\ SF_vars(HuntFinds)

-----------------------------------------------------------------------------
(* Properties. *)

(* Every variable keeps its type, and there is a link wherever one is used. *)
UsesLink == {"quick", "retry", "chosen", "write", "tunnel", "serve"}

TypeOK ==
    /\ proto \in Protos /\ forced \in Peers \cup {NoPeer, BadPeer}
    /\ pc \in Pcs /\ file \in Links \cup {NoLink}
    /\ quick \in Links \cup {NoLink} /\ last \in Links \cup {NoLink}
    /\ link \in Links \cup {NoLink}
    /\ k \in 1 .. Profiles /\ scan \in SUBSET Peers /\ got \in Nat
    /\ up \in [Links -> Levels] /\ events \in 0 .. MaxEvents /\ starts \in 0 .. MaxStarts
    /\ proven \subseteq Links /\ worked \subseteq Links
    /\ pc \in UsesLink => link \in Links
    /\ pc = "test" => forced \in Peers

(* A gateway is only trusted once it actually passes traffic: whatever path *)
(* chose it (cache, retry, force or hunt) and however often the tunnel was   *)
(* rebuilt, SOCKS5 is exposed only over a link that has carried traffic      *)
(* since the previous tunnel ended.                                          *)
FreshlyProven == DataCheck /\ pc = "serve" => link \in proven

(* The gateway offered as the last working one after a restart did work,    *)
(* whenever the process was killed.                                         *)
LastconnWorked == DataCheck /\ file # NoLink => file \in worked

(* The inductive strengthening of both: a link is proven on every path that *)
(* reaches its use, except that MASQUE takes a forced link untested.        *)
SupervisorInv ==
    /\ proven \subseteq worked
    /\ DataCheck /\ quick # NoLink => pc = "down" \/ (pc = "top" /\ quick \in proven)
    /\ DataCheck /\ pc \in {"chosen", "write", "tunnel"} /\ (proto = "wg" \/ forced = NoPeer)
          => link \in proven
    /\ pc = "write" => forced = NoPeer
    /\ FreshlyProven /\ LastconnWorked

(* Automatic reconnection: once the network settles, with every link dead   *)
(* or working, some working one within reach of the scan and no forced      *)
(* peer, the process ends up serving over a working link.  A tunnel may       *)
(* instead stay for ever on a gateway that has fallen silent: over WireGuard  *)
(* because no task of it ends, over HTTP/2 because nothing turns its loop or   *)
(* because connect never returns.                                            *)
Settled ==
    /\ pc # "down" /\ forced = NoPeer
    /\ \A l \in Links : up[l] # "control"
    /\ \E p \in scan : up[Link(p, 1)] = "traffic"

Serving == pc = "serve" /\ up[link] = "traffic"
Stuck ==
    /\ pc \in {"tunnel", "serve"} /\ up[link] = "dead"
    /\ proto = "h2" \/ (proto = "wg" /\ pc = "serve")

=============================================================================
