------------------------------ MODULE LanNode ------------------------------
(***************************************************************************)
(* The LAN node of core/src/lan.rs on one device: the lifecycle task that   *)
(* starts and drops the transport (listener and mDNS) as set_lan_active     *)
(* flips, discovery by mDNS and by relay snapshot, the reconciler that      *)
(* dials known peers, and the peer sessions, inbound and outbound.          *)
(*                                                                         *)
(* All tasks share one current_thread runtime, so they interleave at        *)
(* awaits; the host flips the flag and notifies from another thread, at     *)
(* any moment.  As in ClientWorker a notification reaches only the futures  *)
(* that exist: a session in "wait" or "mute" has one, a session in "arm" is *)
(* between two selects and has none.                                        *)
(***************************************************************************)
EXTENDS Integers, FiniteSets, Sequences

CONSTANTS
    Peers,      \* device ids of the group's other devices
    Dialled,    \* those this device dials: the smaller device ids
    Tasks,      \* bound: session tasks alive at a time
    MaxFlips,   \* bound: set_lan_active calls
    MaxEvents,  \* bound: mDNS events and relay snapshots
    MaxFaults   \* bound: failed dials, closed sessions, inbound connections

ASSUME LanAssumption ==
    /\ Dialled \subseteq Peers
    /\ IsFiniteSet(Tasks)
    /\ MaxFlips \in Nat
    /\ MaxEvents \in Nat
    /\ MaxFaults \in Nat

VARIABLES
    active,     \* lan_active
    host,       \* the host thread: ready, or between store and notify
    life,       \* where the lifecycle task is
    lifeWoken,  \* its Notified future was notified
    listening,  \* a TransportGuard exists: listener, mDNS daemon, browse
    port,       \* the advertised port is set
    events,     \* mDNS events not yet handled by the discover task
    known,      \* known_peers
    addrs,      \* peer_addrs
    outbound,   \* outbound_peers: keys being dialled or connected
    state,      \* state[t]: where session task t is
    key,        \* key[t]: its registry key
    woken,      \* woken[t]: its Notified future was notified
    registry,   \* peers: keys of handshaked sessions
    flips, seen, faults   \* calls, events and faults so far

lifeVars == <<life, lifeWoken, listening, port>>
mapVars  == <<known, addrs, outbound>>
taskVars == <<state, key, woken, registry>>
bounds   == <<flips, seen, faults>>
vars == <<active, host, lifeVars, events, mapVars, taskVars, bounds>>

Mdns(p)  == <<"mdns", p>>      \* the peer's mDNS instance name
Relay(p) == <<"relay", p>>     \* the relay: key namespace
In(t)    == <<"in", t>>        \* inbound:{addr}, one per connection

MdnsKeys  == {Mdns(p) : p \in Peers}
RelayKeys == {Relay(p) : p \in Peers}
Keys == MdnsKeys \cup RelayKeys
NoKey == <<>>

InSession == {"arm", "wait", "mute"}

TypeOK ==
    /\ active \in BOOLEAN
    /\ host \in {"ready", "notify"}
    /\ life \in {"up", "up_armed", "up_wait", "down", "down_armed", "down_wait", "start"}
    /\ lifeWoken \in BOOLEAN
    /\ listening \in BOOLEAN /\ port \in BOOLEAN
    /\ listening <=> life \in {"up", "up_armed", "up_wait"}
    /\ listening => port
    /\ events \in Seq({"resolved", "removed"} \X Peers)
    /\ known \subseteq {k \in Keys : k[2] \in Dialled}
    /\ known \subseteq addrs /\ addrs \subseteq Keys
    /\ outbound \subseteq Keys
    /\ state \in [Tasks -> {"free", "hello"} \cup InSession]
    /\ key \in [Tasks -> Keys \cup {In(t) : t \in Tasks} \cup {NoKey}]
    /\ woken \in [Tasks -> BOOLEAN]
    /\ registry \subseteq Keys \cup {In(t) : t \in Tasks}
    /\ flips \in 0..MaxFlips
    /\ seen \in 0..MaxEvents
    /\ faults \in 0..MaxFaults

\* spawn(): the first transport is up before it returns.  A host that switched
\* the LAN off before is in the state that a first Suspend leaves.
Init ==
    /\ active = TRUE
    /\ host = "ready"
    /\ life = "up"
    /\ lifeWoken = FALSE
    /\ listening = TRUE
    /\ port = TRUE
    /\ events = <<>>
    /\ known = {} /\ addrs = {} /\ outbound = {}
    /\ state = [t \in Tasks |-> "free"]
    /\ key = [t \in Tasks |-> NoKey]
    /\ woken = [t \in Tasks |-> FALSE]
    /\ registry = {}
    /\ flips = 0 /\ seen = 0 /\ faults = 0

-----------------------------------------------------------------------------
(* set_lan_active: the store, then notify_waiters *)

SetActive(enabled) ==
    /\ host = "ready"
    /\ flips < MaxFlips
    /\ flips' = flips + 1
    /\ active' = enabled
    /\ host' = "notify"
    /\ UNCHANGED <<lifeVars, events, mapVars, taskVars, seen, faults>>

NotifyMode ==
    /\ host = "notify"
    /\ host' = "ready"
    /\ lifeWoken' = (lifeWoken \/ life \in {"up_armed", "up_wait", "down_armed", "down_wait"})
    /\ woken' = [t \in Tasks |-> woken[t] \/ state[t] \in {"wait", "mute"}]
    /\ UNCHANGED <<active, life, listening, port, events, mapVars, state, key, registry, bounds>>

-----------------------------------------------------------------------------
(* The lifecycle task.  wait_until_flag creates its future, then reads the  *)
(* flag, then waits.                                                        *)

LifeArm ==
    /\ life \in {"up", "down"}
    /\ life' = IF life = "up" THEN "up_armed" ELSE "down_armed"
    /\ lifeWoken' = FALSE
    /\ UNCHANGED <<active, host, listening, port, events, mapVars, taskVars, bounds>>

\* Mutant of LifeCheckUp: the flag was read before, the future is created here.
LifeCheckUpLate ==
    /\ life = "up_armed"
    /\ life' = "up_wait"
    /\ lifeWoken' = FALSE
    /\ UNCHANGED <<active, host, listening, port, events, mapVars, taskVars, bounds>>

LifeCheckUp ==
    /\ life = "up_armed"
    /\ active
    /\ life' = "up_wait"
    /\ UNCHANGED <<active, host, lifeWoken, listening, port, events, mapVars, taskVars, bounds>>

\* Mutant of Suspend: the TransportGuard is not dropped.
SuspendKeepsTransport ==
    /\ life = "up_armed"
    /\ ~active
    /\ life' = "down"
    /\ port' = FALSE
    /\ known' = {} /\ addrs' = {} /\ outbound' = {}
    /\ UNCHANGED <<active, host, lifeWoken, listening, events, taskVars, bounds>>

\* The flag is off: the guard is dropped, the port and the maps are cleared.
\* Events the old discover task has not handled stay queued for it.
Suspend ==
    /\ life = "up_armed"
    /\ ~active
    /\ life' = "down"
    /\ listening' = FALSE
    /\ port' = FALSE
    /\ known' = {} /\ addrs' = {} /\ outbound' = {}
    /\ UNCHANGED <<active, host, lifeWoken, events, taskVars, bounds>>

LifeCheckDown ==
    /\ life = "down_armed"
    /\ life' = IF active THEN "start" ELSE "down_wait"
    /\ UNCHANGED <<active, host, lifeWoken, listening, port, events, mapVars, taskVars, bounds>>

LifeWake ==
    /\ life \in {"up_wait", "down_wait"}
    /\ lifeWoken
    /\ life' = IF life = "up_wait" THEN "up" ELSE "down"
    /\ UNCHANGED <<active, host, lifeWoken, listening, port, events, mapVars, taskVars, bounds>>

StartTransport ==
    /\ life = "start"
    /\ life' = "up"
    /\ listening' = TRUE
    /\ port' = TRUE
    /\ UNCHANGED <<active, host, lifeWoken, events, mapVars, taskVars, bounds>>

\* The bind fails, or mDNS does after the port was stored; retried after 1 s.
StartFails ==
    /\ life = "start"
    /\ faults < MaxFaults
    /\ faults' = faults + 1
    /\ life' = "down"
    /\ port' \in {port, TRUE}
    /\ UNCHANGED <<active, host, lifeWoken, listening, events, mapVars, taskVars, flips, seen>>

-----------------------------------------------------------------------------
(* Discovery *)

\* The browse forwarder queues an event (environment).
MdnsEvent(kind, p) ==
    /\ listening
    /\ seen < MaxEvents
    /\ seen' = seen + 1
    /\ events' = Append(events, <<kind, p>>)
    /\ UNCHANGED <<active, host, lifeVars, mapVars, taskVars, flips, faults>>

\* The discover task: addresses of every peer, the control link only for
\* those this device dials.
Discover ==
    /\ events # <<>>
    /\ LET p == Head(events)[2]
       IN  IF Head(events)[1] = "resolved"
           THEN /\ addrs' = addrs \cup {Mdns(p)}
                /\ known' = IF p \in Dialled THEN known \cup {Mdns(p)} ELSE known
           ELSE /\ addrs' = addrs \ {Mdns(p)}
                /\ known' = known \ {Mdns(p)}
    /\ events' = Tail(events)
    /\ UNCHANGED <<active, host, lifeVars, outbound, taskVars, bounds>>

\* ingest_relay_peers: a full snapshot of the relay: namespace.  Peers that
\* mDNS knows get no second control link.
IngestRelayPeers(S) ==
    /\ active
    /\ seen < MaxEvents
    /\ seen' = seen + 1
    /\ addrs' = (addrs \ RelayKeys) \cup {Relay(p) : p \in S}
    /\ known' = (known \ RelayKeys)
                    \cup {Relay(p) : p \in {q \in S \cap Dialled : Mdns(q) \notin known}}
    /\ UNCHANGED <<active, host, lifeVars, events, outbound, taskVars, flips, faults>>

-----------------------------------------------------------------------------
(* The reconciler and the session tasks *)

\* Mutant of Reconcile: a peer that is being dialled is dialled again.
ReconcileAgain(k, t) ==
    /\ active
    /\ k \in known
    /\ state[t] = "free"
    /\ outbound' = outbound \cup {k}
    /\ state' = [state EXCEPT ![t] = "hello"]
    /\ key' = [key EXCEPT ![t] = k]
    /\ UNCHANGED <<active, host, lifeVars, events, known, addrs, woken, registry, bounds>>

\* One known peer without a mark is marked and a task dials it.  The code
\* does so for all of them in one pass without an effective await.
Reconcile(k, t) ==
    /\ active
    /\ k \in known \ outbound
    /\ state[t] = "free"
    /\ outbound' = outbound \cup {k}
    /\ state' = [state EXCEPT ![t] = "hello"]
    /\ key' = [key EXCEPT ![t] = k]
    /\ UNCHANGED <<active, host, lifeVars, events, known, addrs, woken, registry, bounds>>

\* The accept loop hands a connection to a task while the flag is on.
AcceptPeer(t) ==
    /\ listening
    /\ active
    /\ faults < MaxFaults
    /\ faults' = faults + 1
    /\ state[t] = "free"
    /\ state' = [state EXCEPT ![t] = "hello"]
    /\ key' = [key EXCEPT ![t] = In(t)]
    /\ UNCHANGED <<active, host, lifeVars, events, mapVars, woken, registry, flips, seen>>

\* Mutant of TaskEnds: the mark of a task that ends is not given back.
TaskEndsMarked(t) ==
    /\ state' = [state EXCEPT ![t] = "free"]
    /\ key' = [key EXCEPT ![t] = NoKey]
    /\ woken' = [woken EXCEPT ![t] = FALSE]
    /\ UNCHANGED outbound

\* The task is over and gives its mark back.
TaskEnds(t) ==
    /\ state' = [state EXCEPT ![t] = "free"]
    /\ key' = [key EXCEPT ![t] = NoKey]
    /\ woken' = [woken EXCEPT ![t] = FALSE]
    /\ outbound' = outbound \ {key[t]}

\* Mutant of Unregister: the entry of a session that ended stays.
UnregisterNothing(t) == UNCHANGED registry

\* PeerSessionGuard is dropped.
Unregister(t) == registry' = registry \ {key[t]}

\* No candidate answers, the Hello fails or names another device, or the
\* connection turns out to carry a blob or a file.
HelloFails(t) ==
    /\ state[t] = "hello"
    /\ faults < MaxFaults
    /\ faults' = faults + 1
    /\ TaskEnds(t)
    /\ UNCHANGED <<active, host, lifeVars, events, known, addrs, registry, flips, seen>>

\* The handshake is done: the guard registers the session; a flag that went
\* off meanwhile ends it at once.
HelloDone(t) ==
    /\ state[t] = "hello"
    /\ IF active
       THEN /\ registry' = registry \cup {key[t]}
            /\ state' = [state EXCEPT ![t] = "arm"]
            /\ UNCHANGED <<key, woken, outbound>>
       ELSE Unregister(t) /\ TaskEnds(t)
    /\ UNCHANGED <<active, host, lifeVars, events, known, addrs, bounds>>

\* Mutant of SessionArm: the flag no longer guards the ping and clip branches.
SessionArmAlways(t) ==
    /\ state[t] = "arm"
    /\ state' = [state EXCEPT ![t] = "wait"]
    /\ UNCHANGED <<active, host, lifeVars, events, mapVars, key, woken, registry, bounds>>

\* The select is entered: pings and clips only take part if the flag is on.
SessionArm(t) ==
    /\ state[t] = "arm"
    /\ state' = [state EXCEPT ![t] = IF active THEN "wait" ELSE "mute"]
    /\ UNCHANGED <<active, host, lifeVars, events, mapVars, key, woken, registry, bounds>>

\* A ping is due (it ranks before the notification), or a clip goes out.
SessionWrite(t) ==
    /\ state[t] = "wait"
    /\ state' = [state EXCEPT ![t] = "arm"]
    /\ woken' = [woken EXCEPT ![t] = FALSE]
    /\ UNCHANGED <<active, host, lifeVars, events, mapVars, key, registry, bounds>>

\* lan_mode_notify
SessionNotified(t) ==
    /\ state[t] \in {"wait", "mute"}
    /\ woken[t]
    /\ IF active
       THEN /\ state' = [state EXCEPT ![t] = "arm"]
            /\ woken' = [woken EXCEPT ![t] = FALSE]
            /\ UNCHANGED <<key, registry, outbound>>
       ELSE Unregister(t) /\ TaskEnds(t)
    /\ UNCHANGED <<active, host, lifeVars, events, known, addrs, bounds>>

\* A frame of the peer: a clip, or the ping that keeps the idle deadline away.
SessionFrame(t) ==
    /\ state[t] \in {"wait", "mute"}
    /\ ~woken[t]
    /\ state' = [state EXCEPT ![t] = "arm"]
    /\ UNCHANGED <<active, host, lifeVars, events, mapVars, key, woken, registry, bounds>>

\* While the flag is off the peer gets neither pings nor clips: it closes after
\* its IDLE_TIMEOUT, or this side does if the peer is silent too.
SessionExpires(t) ==
    /\ state[t] = "mute"
    /\ Unregister(t)
    /\ TaskEnds(t)
    /\ UNCHANGED <<active, host, lifeVars, events, known, addrs, bounds>>

\* The peer closes, is silent for IDLE_TIMEOUT, or a read or write fails.
SessionCloses(t) ==
    /\ state[t] \in {"wait", "mute"}
    /\ faults < MaxFaults
    /\ faults' = faults + 1
    /\ Unregister(t)
    /\ TaskEnds(t)
    /\ UNCHANGED <<active, host, lifeVars, events, known, addrs, flips, seen>>

-----------------------------------------------------------------------------
Life ==
    \/ LifeArm \/ LifeCheckUp \/ Suspend \/ LifeCheckDown \/ LifeWake \/ StartTransport

Session(t) ==
    \/ HelloDone(t) \/ SessionArm(t) \/ SessionWrite(t)
    \/ SessionNotified(t) \/ SessionFrame(t) \/ SessionExpires(t)

Next ==
    \/ \E enabled \in BOOLEAN : SetActive(enabled)
    \/ NotifyMode
    \/ Life \/ StartFails
    \/ \E kind \in {"resolved", "removed"}, p \in Peers : MdnsEvent(kind, p)
    \/ Discover
    \/ \E S \in SUBSET Peers : IngestRelayPeers(S)
    \/ \E k \in Keys, t \in Tasks : Reconcile(k, t)
    \/ \E t \in Tasks : AcceptPeer(t) \/ HelloFails(t) \/ SessionCloses(t) \/ Session(t)

Spec == Init /\ [][Next]_vars

\* Every task is polled, the reconciler at least at every RECONNECT_INTERVAL,
\* and a host call that has begun is finished.  A handshake ends one way or
\* the other within its timeouts, and the peer's idle clock runs on whatever
\* frames it sends itself, hence strong fairness of SessionExpires.
Fairness ==
    /\ WF_vars(NotifyMode)
    /\ WF_vars(Life)
    /\ WF_vars(Discover)
    /\ \A k \in Keys : WF_vars(\E t \in Tasks : Reconcile(k, t))
    /\ \A t \in Tasks : WF_vars(Session(t)) /\ SF_vars(SessionExpires(t))

FairSpec == Spec /\ Fairness

-----------------------------------------------------------------------------
(* What the node promises *)

\* A key in outbound_peers always has a task behind it, so no leftover mark
\* keeps the reconciler from dialling a peer again, also across suspends.
MarkHasTask ==
    \A k \in outbound : \E t \in Tasks : state[t] # "free" /\ key[t] = k

\* No peer is shown that has no session: a registry entry goes with the last
\* session of its key, whichever order overlapping sessions end in.
NoGhostPeer ==
    \A k \in registry : \E t \in Tasks : state[t] \in InSession /\ key[t] = k

\* The transport follows the flag: a flip that lands anywhere in the lifecycle
\* task's wait is not lost.
TransportFollowsFlag ==
    /\ ~active ~> (~listening \/ active)
    /\ active ~> (listening \/ ~active)

\* A peer that stays known gets a session task, again after every lost session
\* and after every resume: no leftover mark and no lost wake-up keeps the
\* reconciler from it.  (The pool of tasks is a bound of the model.)
KnownIsDialled ==
    \A k \in Keys :
        (active /\ k \in known) ~>
            \/ \E t \in Tasks : state[t] # "free" /\ key[t] = k
            \/ k \notin known
            \/ ~active
            \/ \A t \in Tasks : state[t] # "free"

\* set_lan_active(false) ends every peer session although a session that is
\* writing misses the notification: what it stops sending makes the link idle.
SuspendEndsSessions ==
    \A t \in Tasks : (~active /\ state[t] \in InSession) ~> (state[t] \notin InSession \/ active)

\* The peer counter and the registry stay consistent (comment of
\* PeerSessionGuard) as long as no task outlives a suspend into a resume: then
\* two sessions may share a key, and only then.
CountMatchesRegistry ==
    flips < 2 =>
        Cardinality(registry) = Cardinality({t \in Tasks : state[t] \in InSession})
=============================================================================
