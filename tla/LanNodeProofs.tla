--------------------------- MODULE LanNodeProofs ---------------------------
(***************************************************************************)
(* Proofs about the LAN node, for any number of peers, session tasks, flag *)
(* flips, discovery events and faults: types, the marks of the reconciler, *)
(* the registry of sessions and its agreement with the peer counter.       *)
(***************************************************************************)
EXTENDS LanNode, FiniteSetTheorems, TLAPS

-----------------------------------------------------------------------------
(* Keys *)

\* The registry keys a session task can have.
TaskKeys == Keys \cup {In(t) : t \in Tasks}

\* The three name spaces of keys do not meet, and an inbound key names its task.
LEMMA KeyFacts ==
    /\ \A p \in Peers : /\ Mdns(p) \in MdnsKeys /\ Relay(p) \in RelayKeys
                        /\ Mdns(p)[2] = p /\ Relay(p)[2] = p
    /\ \A t \in Tasks : In(t) \in TaskKeys /\ In(t) \notin Keys
    /\ \A t, u : In(t) = In(u) => t = u
    /\ Keys = MdnsKeys \cup RelayKeys /\ Keys \subseteq TaskKeys
BY DEF Mdns, Relay, In, MdnsKeys, RelayKeys, Keys, TaskKeys

-----------------------------------------------------------------------------
(* Type correctness *)

\* A session task has a key until it ends, an inbound one the key of its own
\* connection: the types are inductive only together with this.
KeyInv == \A t \in Tasks : state[t] # "free" => key[t] \in Keys \cup {In(t)}

\* A task that ends is free, without key and without a notification.
LEMMA EndType ==
    ASSUME TypeOK, NEW t \in Tasks, TaskEnds(t)
    PROVE  /\ state' \in [Tasks -> {"free", "hello"} \cup InSession]
           /\ key' \in [Tasks -> Keys \cup {In(u) : u \in Tasks} \cup {NoKey}]
           /\ woken' \in [Tasks -> BOOLEAN]
           /\ outbound' \subseteq Keys
BY DEF TypeOK, TaskEnds

\* Every step of the host, the lifecycle task, discovery, the reconciler and
\* the sessions keeps the types.
LEMMA TypeStep ==
    ASSUME TypeOK, KeyInv, [Next]_vars
    PROVE  TypeOK'
<1> USE DEF TypeOK, lifeVars, mapVars, taskVars, bounds
<1>1. ASSUME NEW enabled \in BOOLEAN, SetActive(enabled)
      PROVE  TypeOK'
  BY <1>1, LanAssumption DEF SetActive
<1>2. CASE NotifyMode
  BY <1>2 DEF NotifyMode
<1>3. CASE LifeArm
  BY <1>3 DEF LifeArm
<1>4. CASE LifeCheckUp
  BY <1>4 DEF LifeCheckUp
<1>5. CASE Suspend
  BY <1>5 DEF Suspend
<1>6. CASE LifeCheckDown
  BY <1>6 DEF LifeCheckDown
<1>7. CASE LifeWake
  BY <1>7 DEF LifeWake
<1>8. CASE StartTransport
  BY <1>8 DEF StartTransport
<1>9. CASE StartFails
  <2>1. faults' \in 0..MaxFaults
    BY <1>9, LanAssumption DEF StartFails
  <2>2. life \notin {"up", "up_armed", "up_wait"} /\ life' \notin {"up", "up_armed", "up_wait"}
    BY <1>9 DEF StartFails
  <2>3. port' \in BOOLEAN
    BY <1>9, Zenon DEF StartFails
  <2> QED
    BY <1>9, <2>1, <2>2, <2>3, Zenon DEF StartFails
<1>10. ASSUME NEW kind \in {"resolved", "removed"}, NEW p \in Peers, MdnsEvent(kind, p)
       PROVE  TypeOK'
  <2>1. Append(events, <<kind, p>>) \in Seq({"resolved", "removed"} \X Peers)
    OBVIOUS
  <2>2. seen' \in 0..MaxEvents
    BY <1>10, LanAssumption DEF MdnsEvent
  <2> QED
    BY <1>10, <2>1, <2>2, Zenon DEF MdnsEvent
<1>11. CASE Discover
  <2> DEFINE p == Head(events)[2]
  <2>1. /\ Head(events) \in {"resolved", "removed"} \X Peers
        /\ Tail(events) \in Seq({"resolved", "removed"} \X Peers)
    BY <1>11 DEF Discover
  <2>2. p \in Peers
    BY <2>1
  <2>3. Mdns(p) \in Keys /\ Mdns(p)[2] = p
    BY <2>2, KeyFacts
  <2>4. /\ addrs' \subseteq Keys /\ known' \subseteq addrs'
        /\ known' \subseteq {k \in Keys : k[2] \in Dialled}
    BY <1>11, <2>3 DEF Discover
  <2> QED
    BY <1>11, <2>1, <2>4 DEF Discover
<1>12. ASSUME NEW S \in SUBSET Peers, IngestRelayPeers(S)
       PROVE  TypeOK'
  <2>1. \A p \in S : Relay(p) \in Keys /\ Relay(p)[2] = p
    BY KeyFacts
  <2>2. /\ addrs' \subseteq Keys /\ known' \subseteq addrs'
        /\ known' \subseteq {k \in Keys : k[2] \in Dialled}
    BY <1>12, <2>1 DEF IngestRelayPeers
  <2> QED
    BY <1>12, <2>2, LanAssumption DEF IngestRelayPeers
<1>13. ASSUME NEW k \in Keys, NEW t \in Tasks, Reconcile(k, t)
       PROVE  TypeOK'
  BY <1>13 DEF Reconcile
<1>14. ASSUME NEW t \in Tasks, AcceptPeer(t)
       PROVE  TypeOK'
  <2>1. faults' \in 0..MaxFaults
    BY <1>14, LanAssumption DEF AcceptPeer
  <2>2. /\ state' \in [Tasks -> {"free", "hello"} \cup InSession]
        /\ key' \in [Tasks -> Keys \cup {In(u) : u \in Tasks} \cup {NoKey}]
    BY <1>14 DEF AcceptPeer
  <2> QED
    BY <1>14, <2>1, <2>2, Zenon DEF AcceptPeer
<1>15. ASSUME NEW t \in Tasks, HelloFails(t)
       PROVE  TypeOK'
  BY <1>15, EndType, LanAssumption DEF HelloFails
<1>16. ASSUME NEW t \in Tasks, SessionCloses(t)
       PROVE  TypeOK'
  BY <1>16, EndType, LanAssumption DEF SessionCloses, Unregister
<1>17. ASSUME NEW t \in Tasks, HelloDone(t)
       PROVE  TypeOK'
  <2>1. key[t] \in Keys \cup {In(u) : u \in Tasks}
    BY <1>17 DEF HelloDone, KeyInv
  <2> QED
    BY SMTT(30), <1>17, <2>1, EndType DEF HelloDone, Unregister, InSession
<1>18. ASSUME NEW t \in Tasks, SessionArm(t)
       PROVE  TypeOK'
  BY <1>18 DEF SessionArm, InSession
<1>19. ASSUME NEW t \in Tasks, SessionWrite(t)
       PROVE  TypeOK'
  BY <1>19 DEF SessionWrite, InSession
<1>20. ASSUME NEW t \in Tasks, SessionNotified(t)
       PROVE  TypeOK'
  BY <1>20, EndType DEF SessionNotified, Unregister, InSession
<1>21. ASSUME NEW t \in Tasks, SessionFrame(t)
       PROVE  TypeOK'
  BY <1>21 DEF SessionFrame, InSession
<1>22. ASSUME NEW t \in Tasks, SessionExpires(t)
       PROVE  TypeOK'
  BY <1>22, EndType DEF SessionExpires, Unregister
<1>23. CASE UNCHANGED vars
  BY <1>23 DEF vars
<1> QED
  BY <1>1, <1>2, <1>3, <1>4, <1>5, <1>6, <1>7, <1>8, <1>9, <1>10, <1>11, <1>12, <1>13,
     <1>14, <1>15, <1>16, <1>17, <1>18, <1>19, <1>20, <1>21, <1>22, <1>23
     DEF Next, Life, Session

-----------------------------------------------------------------------------
(* What a step does to tasks, marks and registry.  The invariants below only *)
(* depend on this.                                                           *)

\* No task begins or ends, no session begins; the maps of marks and sessions stay.
Calm ==
    /\ UNCHANGED <<key, outbound, registry, active, flips>>
    /\ state' \in [Tasks -> {"free", "hello"} \cup InSession]
    /\ \A t \in Tasks : /\ state'[t] = "free" <=> state[t] = "free"
                        /\ state'[t] \in InSession <=> state[t] \in InSession

\* The flag is set.
Flip ==
    /\ flips' = flips + 1
    /\ UNCHANGED <<key, outbound, registry, state>>

\* The marks are cleared, which takes a flag that is off.
Clear ==
    /\ ~active
    /\ outbound' = {}
    /\ UNCHANGED <<key, registry, state, active, flips>>

\* Task t begins with key k, dialling or accepted.
Begin(t, k) ==
    /\ active /\ state[t] = "free"
    /\ \/ k \in Keys \ outbound /\ outbound' = outbound \cup {k}
       \/ k = In(t) /\ outbound' = outbound
    /\ state' = [state EXCEPT ![t] = "hello"]
    /\ key' = [key EXCEPT ![t] = k]
    /\ UNCHANGED <<registry, active, flips>>

\* Task t has shaken hands.
Greet(t) ==
    /\ state[t] = "hello"
    /\ registry' = registry \cup {key[t]}
    /\ state' = [state EXCEPT ![t] = "arm"]
    /\ UNCHANGED <<key, outbound, active, flips>>

\* Task t ends; without a handshake it may have nothing to take back.
End(t) ==
    /\ state[t] # "free"
    /\ TaskEnds(t)
    /\ registry' = registry \ {key[t]} \/ (state[t] = "hello" /\ registry' = registry)
    /\ UNCHANGED <<active, flips>>

\* A step that touches no task is calm.
LEMMA CalmStutter ==
    ASSUME TypeOK, UNCHANGED <<key, outbound, registry, active, flips, state>>
    PROVE  Calm
<1>1. state \in [Tasks -> {"free", "hello"} \cup InSession]
  BY DEF TypeOK
<1> QED
  BY <1>1 DEF Calm

\* A session task that goes on to another wait is calm.
LEMMA CalmSession ==
    ASSUME TypeOK, NEW t \in Tasks, state[t] \in InSession, NEW s \in InSession,
           state' = [state EXCEPT ![t] = s],
           UNCHANGED <<key, outbound, registry, active, flips>>
    PROVE  Calm
<1>1. state \in [Tasks -> {"free", "hello"} \cup InSession]
  BY DEF TypeOK
<1>2. state' \in [Tasks -> {"free", "hello"} \cup InSession]
  BY <1>1
<1>3. \A u \in Tasks : state'[u] = IF u = t THEN s ELSE state[u]
  BY <1>1
<1> QED
  BY <1>2, <1>3 DEF Calm, InSession

\* These are all the effects a step has.
LEMMA Effects ==
    ASSUME TypeOK, [Next]_vars
    PROVE  \/ Calm \/ Flip \/ Clear
           \/ \E t \in Tasks : \E k : Begin(t, k)
           \/ \E t \in Tasks : Greet(t) \/ End(t)
<1> USE DEF lifeVars, mapVars, taskVars, bounds
<1> DEFINE Done == \/ Calm \/ Flip \/ Clear
                   \/ \E t \in Tasks : \E k : Begin(t, k)
                   \/ \E t \in Tasks : Greet(t) \/ End(t)
<1>1. ASSUME NEW enabled \in BOOLEAN, SetActive(enabled)
      PROVE  Done
  BY <1>1 DEF SetActive, Flip
<1>2. CASE NotifyMode
  BY <1>2, CalmStutter DEF NotifyMode
<1>3. CASE Suspend
  BY <1>3 DEF Suspend, Clear
<1>4. CASE LifeArm \/ LifeCheckUp \/ LifeCheckDown \/ LifeWake \/ StartTransport \/ StartFails
  BY <1>4, CalmStutter
     DEF LifeArm, LifeCheckUp, LifeCheckDown, LifeWake, StartTransport, StartFails
<1>5. ASSUME NEW kind \in {"resolved", "removed"}, NEW p \in Peers, MdnsEvent(kind, p)
      PROVE  Done
  BY <1>5, CalmStutter DEF MdnsEvent
<1>6. CASE Discover
  BY <1>6, CalmStutter DEF Discover
<1>7. ASSUME NEW S \in SUBSET Peers, IngestRelayPeers(S)
      PROVE  Done
  BY <1>7, CalmStutter DEF IngestRelayPeers
<1>8. ASSUME NEW k \in Keys, NEW t \in Tasks, Reconcile(k, t)
      PROVE  Done
  <2>1. Begin(t, k)
    BY <1>8 DEF Reconcile, Begin
  <2> QED
    BY <2>1
<1>9. ASSUME NEW t \in Tasks, AcceptPeer(t)
      PROVE  Done
  <2>1. Begin(t, In(t))
    BY <1>9 DEF AcceptPeer, Begin
  <2> QED
    BY <2>1
<1>10. ASSUME NEW t \in Tasks, HelloFails(t)
       PROVE  Done
  <2>1. End(t)
    BY <1>10 DEF HelloFails, End
  <2> QED
    BY <2>1
<1>11. ASSUME NEW t \in Tasks, SessionCloses(t) \/ SessionExpires(t)
       PROVE  Done
  <2>1. End(t)
    BY <1>11 DEF SessionCloses, SessionExpires, End, Unregister
  <2> QED
    BY <2>1
<1>12. ASSUME NEW t \in Tasks, HelloDone(t)
       PROVE  Done
  <2>1. CASE active
    <3>1. Greet(t)
      BY <1>12, <2>1 DEF HelloDone, Greet
    <3> QED
      BY <3>1
  <2>2. CASE ~active
    <3>1. End(t)
      BY <1>12, <2>2 DEF HelloDone, End, Unregister
    <3> QED
      BY <3>1
  <2> QED
    BY <2>1, <2>2
<1>13. ASSUME NEW t \in Tasks, SessionArm(t) \/ SessionWrite(t) \/ SessionFrame(t)
       PROVE  Done
  <2>1. Calm
    BY <1>13, CalmSession DEF SessionArm, SessionWrite, SessionFrame, InSession
  <2> QED
    BY <2>1
<1>14. ASSUME NEW t \in Tasks, SessionNotified(t)
       PROVE  Done
  <2>1. CASE active
    <3>1. Calm
      BY <1>14, <2>1, CalmSession DEF SessionNotified, InSession
    <3> QED
      BY <3>1
  <2>2. CASE ~active
    <3>1. End(t)
      BY <1>14, <2>2 DEF SessionNotified, End, Unregister
    <3> QED
      BY <3>1
  <2> QED
    BY <2>1, <2>2
<1>15. CASE UNCHANGED vars
  BY <1>15, CalmStutter DEF vars
<1> QED
  BY <1>1, <1>2, <1>3, <1>4, <1>5, <1>6, <1>7, <1>8, <1>9, <1>10, <1>11, <1>12, <1>13,
     <1>14, <1>15 DEF Next, Life, Session

-----------------------------------------------------------------------------
(* The inductive invariant *)

\* Before the second flip no two tasks share a key: a key that is dialled is
\* marked as long as the flag has never been off, and once it is off no task
\* begins any more.  So every session has its own entry of the registry.
SoloInv ==
    /\ flips = 0 => active
    /\ flips < 2 =>
          /\ \A t, u \in Tasks : state[t] # "free" /\ state[u] # "free" /\ key[t] = key[u]
                                     => t = u
          /\ \A t \in Tasks : state[t] \in InSession => key[t] \in registry
          /\ active => \A t \in Tasks : state[t] # "free" => key[t] \in outbound \cup {In(t)}

IInv == TypeOK /\ KeyInv /\ MarkHasTask /\ NoGhostPeer /\ SoloInv

\* The facts of the type invariant that the effects of a step need.
TaskTypes ==
    /\ state \in [Tasks -> {"free", "hello"} \cup InSession]
    /\ key \in [Tasks -> Keys \cup {In(t) : t \in Tasks} \cup {NoKey}]
    /\ outbound \subseteq Keys
    /\ flips \in Nat

LEMMA TaskTypesHold == TypeOK => TaskTypes
BY LanAssumption DEF TypeOK, TaskTypes

\* Task t ends: it alone becomes free.
LEMMA EndFacts ==
    ASSUME TaskTypes, NEW t \in Tasks, TaskEnds(t)
    PROVE  /\ state'[t] = "free" /\ "free" \notin InSession
           /\ \A u \in Tasks : u # t => state'[u] = state[u] /\ key'[u] = key[u]
           /\ outbound' = outbound \ {key[t]}
BY DEF TaskTypes, TaskEnds, InSession

\* Task t begins: it alone changes, to a task without a session.
LEMMA BeginFacts ==
    ASSUME TaskTypes, NEW t \in Tasks, NEW k, Begin(t, k)
    PROVE  /\ state[t] = "free" /\ state'[t] = "hello" /\ key'[t] = k
           /\ "hello" \notin InSession /\ "free" \notin InSession
           /\ \A u \in Tasks : u # t => state'[u] = state[u] /\ key'[u] = key[u]
BY DEF TaskTypes, Begin, InSession

\* Task t greets: it alone changes, to a session.
LEMMA GreetFacts ==
    ASSUME TaskTypes, NEW t \in Tasks, Greet(t)
    PROVE  /\ state[t] = "hello" /\ state'[t] \in InSession /\ state'[t] # "free"
           /\ \A u \in Tasks : u # t => state'[u] = state[u]
BY DEF TaskTypes, Greet, InSession

\* A task keeps its key until it ends.
LEMMA KeyStep ==
    ASSUME TypeOK, KeyInv, [Next]_vars
    PROVE  KeyInv'
<1>1. TaskTypes
  BY TaskTypesHold
<1>2. CASE Calm \/ Flip \/ Clear
  BY <1>2 DEF KeyInv, Calm, Flip, Clear
<1>3. ASSUME NEW t \in Tasks, NEW k, Begin(t, k)
      PROVE  KeyInv'
  <2>1. k \in Keys \cup {In(t)}
    BY <1>3 DEF Begin
  <2> QED
    BY <1>1, <1>3, <2>1, BeginFacts DEF KeyInv
<1>4. ASSUME NEW t \in Tasks, Greet(t)
      PROVE  KeyInv'
  BY <1>1, <1>4, GreetFacts DEF KeyInv, Greet
<1>5. ASSUME NEW t \in Tasks, End(t)
      PROVE  KeyInv'
  BY <1>1, <1>5, EndFacts DEF KeyInv, End
<1> QED
  BY <1>2, <1>3, <1>4, <1>5, Effects

\* A mark goes with the task that set it, or with all marks.
LEMMA MarkStep ==
    ASSUME TypeOK, MarkHasTask, [Next]_vars
    PROVE  MarkHasTask'
<1>1. TaskTypes
  BY TaskTypesHold
<1>2. CASE Calm \/ Flip \/ Clear
  BY <1>2 DEF MarkHasTask, Calm, Flip, Clear
<1>3. ASSUME NEW t \in Tasks, NEW k, Begin(t, k)
      PROVE  MarkHasTask'
  <2> SUFFICES ASSUME NEW j \in outbound'
               PROVE  \E u \in Tasks : state'[u] # "free" /\ key'[u] = j
    BY DEF MarkHasTask
  <2>1. CASE j = k
    BY <1>1, <1>3, <2>1, BeginFacts
  <2>2. CASE j # k
    <3>1. j \in outbound
      BY <1>3, <2>2 DEF Begin
    <3>2. PICK u \in Tasks : state[u] # "free" /\ key[u] = j
      BY <3>1 DEF MarkHasTask
    <3> QED
      BY <1>1, <1>3, <3>2, BeginFacts
  <2> QED
    BY <2>1, <2>2
<1>4. ASSUME NEW t \in Tasks, Greet(t)
      PROVE  MarkHasTask'
  BY <1>1, <1>4, GreetFacts DEF MarkHasTask, Greet
<1>5. ASSUME NEW t \in Tasks, End(t)
      PROVE  MarkHasTask'
  BY <1>1, <1>5, EndFacts DEF MarkHasTask, End
<1> QED
  BY <1>2, <1>3, <1>4, <1>5, Effects

\* A registry entry goes at the latest with the last session of its key.
LEMMA GhostStep ==
    ASSUME TypeOK, NoGhostPeer, [Next]_vars
    PROVE  NoGhostPeer'
<1>1. TaskTypes
  BY TaskTypesHold
<1>2. CASE Calm \/ Flip \/ Clear
  BY <1>2 DEF NoGhostPeer, Calm, Flip, Clear
<1>3. ASSUME NEW t \in Tasks, NEW k, Begin(t, k)
      PROVE  NoGhostPeer'
  <2> SUFFICES ASSUME NEW j \in registry
               PROVE  \E u \in Tasks : state'[u] \in InSession /\ key'[u] = j
    BY <1>3 DEF NoGhostPeer, Begin
  <2>1. PICK u \in Tasks : state[u] \in InSession /\ key[u] = j
    BY DEF NoGhostPeer
  <2> QED
    BY <1>1, <1>3, <2>1, BeginFacts
<1>4. ASSUME NEW t \in Tasks, Greet(t)
      PROVE  NoGhostPeer'
  BY <1>1, <1>4, GreetFacts DEF NoGhostPeer, Greet
<1>5. ASSUME NEW t \in Tasks, End(t)
      PROVE  NoGhostPeer'
  <2> SUFFICES ASSUME NEW j \in registry'
               PROVE  \E u \in Tasks : state'[u] \in InSession /\ key'[u] = j
    BY DEF NoGhostPeer
  <2>1. PICK u \in Tasks : state[u] \in InSession /\ key[u] = j
    BY <1>5 DEF NoGhostPeer, End
  <2>2. u # t
    BY <1>5, <2>1 DEF End, InSession
  <2> QED
    BY <1>1, <1>5, <2>1, <2>2, EndFacts DEF End
<1> QED
  BY <1>2, <1>3, <1>4, <1>5, Effects

\* Until the second flip tasks do not share keys and sessions are registered.
LEMMA SoloStep ==
    ASSUME TypeOK, KeyInv, SoloInv, [Next]_vars
    PROVE  SoloInv'
<1>1. TaskTypes
  BY TaskTypesHold
<1>2. CASE Calm
  BY <1>2 DEF SoloInv, Calm
<1>3. CASE Flip
  <2>1. flips' # 0 /\ (flips' < 2 => flips = 0)
    BY <1>1, <1>3 DEF Flip, TaskTypes
  <2>2. flips' < 2 => flips < 2 /\ active
    BY <1>1, <2>1 DEF SoloInv, TaskTypes
  <2> QED
    BY <1>3, <2>1, <2>2 DEF SoloInv, Flip
<1>4. CASE Clear
  BY <1>4 DEF SoloInv, Clear
<1>5. ASSUME NEW t \in Tasks, NEW k, Begin(t, k)
      PROVE  SoloInv'
  <2>1. active /\ active' = active /\ flips' = flips /\ registry' = registry
    BY <1>5 DEF Begin
  <2> SUFFICES ASSUME flips < 2
               PROVE  /\ \A u \in Tasks : u # t /\ state[u] # "free" => key[u] # k
                      /\ \A u \in Tasks : state'[u] # "free" => key'[u] \in outbound' \cup {In(u)}
    BY <1>1, <1>5, <2>1, BeginFacts DEF SoloInv
  <2>2. \A u \in Tasks : state[u] # "free" => key[u] \in outbound \cup {In(u)}
    BY <2>1 DEF SoloInv
  <2>3. \A u \in Tasks : u # t /\ state[u] # "free" => key[u] # k
    <3>1. CASE k \in Keys \ outbound
      BY <2>2, <3>1, KeyFacts
    <3>2. CASE k = In(t)
      BY <1>1, <2>2, <3>2, KeyFacts DEF TaskTypes
    <3> QED
      BY <1>5, <3>1, <3>2 DEF Begin
  <2>4. outbound \subseteq outbound' /\ k \in outbound' \cup {In(t)}
    BY <1>5 DEF Begin
  <2> QED
    BY <1>1, <1>5, <2>2, <2>3, <2>4, BeginFacts
<1>6. ASSUME NEW t \in Tasks, Greet(t)
      PROVE  SoloInv'
  BY <1>1, <1>6, GreetFacts DEF SoloInv, Greet
<1>7. ASSUME NEW t \in Tasks, End(t)
      PROVE  SoloInv'
  <2>1. /\ active' = active /\ flips' = flips /\ state[t] # "free"
        /\ registry \ {key[t]} \subseteq registry'
    BY <1>7 DEF End
  <2> SUFFICES ASSUME flips < 2, NEW u \in Tasks, u # t, state[u] # "free"
               PROVE  /\ state[u] \in InSession => key[u] \in registry'
                      /\ active => key[u] \in outbound' \cup {In(u)}
    BY <1>1, <1>7, <2>1, EndFacts DEF SoloInv, End
  <2>2. key[u] # key[t]
    BY <2>1 DEF SoloInv
  <2> QED
    BY <1>1, <1>7, <2>1, <2>2, EndFacts DEF SoloInv, End
<1> QED
  BY <1>2, <1>3, <1>4, <1>5, <1>6, <1>7, Effects

\* The invariant holds at the start and every step keeps it.
LEMMA Inductive ==
    /\ Init => IInv
    /\ IInv /\ [Next]_vars => IInv'
<1>1. Init => TypeOK
  <2> SUFFICES ASSUME Init
               PROVE  TypeOK
    OBVIOUS
  <2>1. 0 \in 0..MaxFlips /\ 0 \in 0..MaxEvents /\ 0 \in 0..MaxFaults
    BY LanAssumption
  <2>2. events \in Seq({"resolved", "removed"} \X Peers)
    BY DEF Init
  <2>3. /\ state \in [Tasks -> {"free", "hello"} \cup InSession]
        /\ key \in [Tasks -> Keys \cup {In(t) : t \in Tasks} \cup {NoKey}]
        /\ woken \in [Tasks -> BOOLEAN]
    BY DEF Init
  <2> QED
    BY <2>1, <2>2, <2>3 DEF Init, TypeOK
<1>2. Init => KeyInv /\ MarkHasTask /\ NoGhostPeer /\ SoloInv
  BY DEF Init, KeyInv, MarkHasTask, NoGhostPeer, SoloInv, InSession
<1>3. IInv /\ [Next]_vars => IInv'
  BY TypeStep, KeyStep, MarkStep, GhostStep, SoloStep DEF IInv
<1> QED
  BY <1>1, <1>2, <1>3 DEF IInv

LEMMA IInvHolds == Spec => []IInv
BY Inductive, PTL DEF Spec

-----------------------------------------------------------------------------
(* What the node promises *)

\* Every state of the LAN node is well typed; in particular a transport exists
\* exactly while the lifecycle task is in its upper half, and it has a port.
THEOREM TypeCorrect == Spec => []TypeOK
<1>1. IInv => TypeOK
  BY DEF IInv
<1> QED
  BY <1>1, IInvHolds, PTL

\* outbound_peers holds no mark without a live task, whatever suspends and
\* resumes do in between: the reconciler is never kept from dialling a peer.
THEOREM MarkHasTaskHolds == Spec => []MarkHasTask
<1>1. IInv => MarkHasTask
  BY DEF IInv
<1> QED
  BY <1>1, IInvHolds, PTL

\* No peer is shown without a session, in whichever order overlapping sessions
\* of one key end.
THEOREM NoGhostPeerHolds == Spec => []NoGhostPeer
<1>1. IInv => NoGhostPeer
  BY DEF IInv
<1> QED
  BY <1>1, IInvHolds, PTL

\* Before the second flip, key is a bijection between sessions and registry.
LEMMA SameCount == IInv => CountMatchesRegistry
<1> SUFFICES ASSUME IInv, flips < 2
             PROVE  Cardinality(registry) = Cardinality({t \in Tasks : state[t] \in InSession})
  BY DEF CountMatchesRegistry
<1> DEFINE S == {t \in Tasks : state[t] \in InSession}
           f == [t \in S |-> key[t]]
<1>1. IsFiniteSet(S)
  BY LanAssumption, FS_Subset
<1>2. \A t, u \in S : key[t] = key[u] => t = u
  BY DEF IInv, SoloInv, InSession
<1>3. \A t \in S : key[t] \in registry
  BY DEF IInv, SoloInv
<1>4. \A k \in registry : \E t \in S : key[t] = k
  BY DEF IInv, NoGhostPeer
<1>5. f \in [S -> registry] /\ \A t \in S : f[t] = key[t]
  BY <1>3
<1> HIDE DEF f, S
<1>6. f \in Injection(S, registry)
  BY <1>2, <1>5 DEF Injection, IsInjective
<1>7. f \in Surjection(S, registry)
  BY <1>4, <1>5 DEF Surjection
<1>8. ExistsBijection(S, registry)
  BY <1>6, <1>7 DEF ExistsBijection, Bijection
<1> QED
  BY <1>1, <1>8, FS_Bijection DEF S

\* The peer counter agrees with the registry as long as no task outlives a
\* suspend into a resume.
THEOREM CountMatchesRegistryHolds == Spec => []CountMatchesRegistry
BY SameCount, IInvHolds, PTL
=============================================================================
