------------------------------ MODULE ClipSync ------------------------------
(***************************************************************************)
(* Clips end to end: the clients of core/src/client.rs around the relay of  *)
(* module Relay.  A device holds at most one relay session; it also sends   *)
(* every clip straight to its LAN peers, so a clip can reach a device as a  *)
(* Clip frame, in a Recent reply and over the LAN, and the receive-side     *)
(* DedupCache decides which arrival is given to the host.                   *)
(*                                                                         *)
(* Sessions come and go as ClientWorker describes; here only what they      *)
(* carry matters.  A clip is its dedup key, the pair (sender, ts).          *)
(***************************************************************************)
EXTENDS Relay

CONSTANTS
    LanPeers,       \* LanPeers[d]: devices with a LAN link to d
    DEDUP_CAP,      \* entries of a DedupCache
    DEDUP_TTL,      \* how long an entry rejects repeats
    MaxSessions,    \* bound: sessions per device
    MaxFetches      \* bound: fetch_recent() calls of the hosts

\* A device's relay session lives in the socket slot of the same name, and all
\* devices belong to one group.
ASSUME SyncAssumption ==
    /\ Conns = Devices
    /\ \E g \in Groups : Groups = {g}
    /\ Stamps = 1..MaxClips
    /\ LanPeers \in [Devices -> SUBSET Devices]
    /\ DEDUP_CAP \in Nat \ {0}
    /\ DEDUP_TTL \in Nat
    /\ MaxSessions \in Nat /\ MaxFetches \in Nat

VARIABLES
    up,         \* up[d]: frames of d in flight to the relay
    lan,        \* lan[d]: clips in flight to d on its LAN links
    batch,      \* batch[d]: clips of the frame d is in handle_server with, by their
                \* publication numbers and still to be looked at
    dedup,      \* dedup[d]: DedupCache entries, oldest first
    applied,    \* applied[d]: clips given to on_clip, with the time
    stamp,      \* clips sent so far; the last one's ts
    sessions,   \* sessions[d]: sessions begun so far
    fetches     \* fetch_recent() calls so far

clientVars == <<lan, batch, dedup, applied, stamp, sessions, fetches>>
syncVars == <<vars, up, clientVars>>

G == CHOOSE g \in Groups : TRUE

Key(clip) == [sender |-> clip.sender, ts |-> clip.ts]
Keys == [sender : Devices, ts : Stamps]
Entry == [key : Keys, at : Nat]

SyncTypeOK ==
    /\ TypeOK
    /\ up \in [Devices -> Seq([type : {"Join", "FetchRecent"}]
                                \cup [type : {"Publish"}, ts : Stamps])]
    /\ lan \in [Devices -> Seq(Keys)]
    /\ batch \in [Devices -> SUBSET Nat]
    /\ dedup \in [Devices -> Seq(Entry)]
    /\ \A d \in Devices : Len(dedup[d]) <= DEDUP_CAP
    /\ applied \in [Devices -> Seq(Entry)]
    /\ stamp \in 0..MaxClips
    /\ sessions \in [Devices -> 0..MaxSessions]
    /\ fetches \in 0..MaxFetches

SyncInit ==
    /\ Init
    /\ up = [d \in Devices |-> <<>>]
    /\ lan = [d \in Devices |-> <<>>]
    /\ batch = [d \in Devices |-> {}]
    /\ dedup = [d \in Devices |-> <<>>]
    /\ applied = [d \in Devices |-> <<>>]
    /\ stamp = 0
    /\ sessions = [d \in Devices |-> 0]
    /\ fetches = 0

-----------------------------------------------------------------------------
(* DedupCache::insert and its two callers *)

Stale(entry) == now - entry.at > DEDUP_TTL

\* Expired entries are popped from the front until one has not expired.
Popped(entries) ==
    CHOOSE n \in 0..Len(entries) :
        /\ \A i \in 1..n : Stale(entries[i])
        /\ n < Len(entries) => ~Stale(entries[n + 1])

Live(entries) == SubSeq(entries, Popped(entries) + 1, Len(entries))

Holds(entries, key) == \E i \in DOMAIN entries : entries[i].key = key

Room(entries) == IF Len(entries) = DEDUP_CAP THEN Tail(entries) ELSE entries

Now(key) == [key |-> key, at |-> now]

\* Mutant of Offer: the result of insert is ignored.
OfferRepeats(d, key) ==
    IF key.sender = d THEN UNCHANGED <<dedup, applied>>
    ELSE /\ dedup' = [dedup EXCEPT ![d] = Append(Room(Live(@)), Now(key))]
         /\ applied' = [applied EXCEPT ![d] = Append(@, Now(key))]

\* One arriving clip: own clips are skipped, repeats are rejected, the rest is
\* remembered and given to the host.
Offer(d, key) ==
    IF key.sender = d THEN UNCHANGED <<dedup, applied>>
    ELSE IF Holds(Live(dedup[d]), key)
    THEN dedup' = [dedup EXCEPT ![d] = Live(@)] /\ UNCHANGED applied
    ELSE /\ dedup' = [dedup EXCEPT ![d] = Append(Room(Live(@)), Now(key))]
         /\ applied' = [applied EXCEPT ![d] = Append(@, Now(key))]

\* Mutant of FrameClips: of a Recent reply only the newest clip is looked at.
FrameClipsNewest(frame) ==
    CASE frame.type = "Clip" -> {frame.n}
      [] frame.type = "Recent" -> {n \in frame.clips : \A m \in frame.clips : m <= n}
      [] OTHER -> {}

\* The clips of a frame; those of a Recent reply, which is oldest first, are
\* looked at in the order of their numbers.
FrameClips(frame) ==
    CASE frame.type = "Clip" -> {frame.n}
      [] frame.type = "Recent" -> frame.clips
      [] OTHER -> {}

-----------------------------------------------------------------------------
(* The clients.  The session and the LAN inbound task share one thread (a    *)
(* current-thread runtime), and handle_server does not await: while a device *)
(* is in it, nothing else of its client runs.                                *)

InHandler(d) == batch[d] # {}

\* A session opens: Join, then FetchRecent.
Connect(d) ==
    /\ ~InHandler(d)
    /\ sessions[d] < MaxSessions
    /\ Accept(d)
    /\ sessions' = [sessions EXCEPT ![d] = @ + 1]
    /\ up' = [up EXCEPT ![d] = <<[type |-> "Join"], [type |-> "FetchRecent"]>>]
    /\ UNCHANGED <<lan, batch, dedup, applied, stamp, fetches>>

\* Cmd::SendClip in a session: LAN broadcast first, then Publish.
SendClip(d) ==
    /\ open[d] /\ ~InHandler(d)
    /\ stamp < MaxClips
    /\ stamp' = stamp + 1
    /\ lan' = [p \in Devices |->
                  IF p \in LanPeers[d]
                  THEN Append(lan[p], [sender |-> d, ts |-> stamp + 1])
                  ELSE lan[p]]
    /\ up' = [up EXCEPT ![d] = Append(@, [type |-> "Publish", ts |-> stamp + 1])]
    /\ UNCHANGED <<vars, batch, dedup, applied, sessions, fetches>>

\* Cmd::FetchRecent in a session.
HostFetch(d) ==
    /\ open[d] /\ ~InHandler(d)
    /\ fetches < MaxFetches
    /\ fetches' = fetches + 1
    /\ up' = [up EXCEPT ![d] = Append(@, [type |-> "FetchRecent"])]
    /\ UNCHANGED <<vars, lan, batch, dedup, applied, stamp, sessions>>

\* The session task reads a frame and enters handle_server.
Receive(d) ==
    /\ ~InHandler(d)
    /\ Read(d)
    /\ batch' = [batch EXCEPT ![d] = FrameClips(Head(wire[d]))]
    /\ UNCHANGED <<up, lan, dedup, applied, stamp, sessions, fetches>>

\* handle_server: the clips of the frame one after the other, oldest first.
HandleNext(d) ==
    \E n \in batch[d] :
        /\ \A m \in batch[d] : n <= m
        /\ batch' = [batch EXCEPT ![d] = @ \ {n}]
        /\ Offer(d, Key(sent[G][n]))
        /\ UNCHANGED <<vars, up, lan, stamp, sessions, fetches>>

\* The LAN inbound task, in or out of a relay session.
LanReceive(d) ==
    /\ ~InHandler(d)
    /\ lan[d] # <<>>
    /\ lan' = [lan EXCEPT ![d] = Tail(@)]
    /\ Offer(d, Head(lan[d]))
    /\ UNCHANGED <<vars, up, batch, stamp, sessions, fetches>>

\* LAN delivery is lossy by design.
LanLose(d) ==
    /\ lan[d] # <<>>
    /\ lan' = [lan EXCEPT ![d] = Tail(@)]
    /\ UNCHANGED <<vars, up, batch, dedup, applied, stamp, sessions, fetches>>

\* The session ends, with whatever was in flight either way; a frame the client
\* has read is handled to its end.
Disconnect(d) ==
    /\ Close(d)
    /\ up' = [up EXCEPT ![d] = <<>>]
    /\ UNCHANGED clientVars

-----------------------------------------------------------------------------
(* The relay *)

Handle(d, frame) ==
    \/ frame.type = "Join" /\ Join(d, G, d)
    \/ frame.type = "FetchRecent" /\ FetchRecent(d, G)
    \/ frame.type = "Publish" /\ Publish(d, G, frame.ts)

RelayHandles(d) ==
    /\ up[d] # <<>>
    /\ Handle(d, Head(up[d]))
    /\ up' = [up EXCEPT ![d] = Tail(@)]
    /\ UNCHANGED clientVars

RelayForwards(d) ==
    /\ Forward(d) \/ SkipLagged(d)
    /\ UNCHANGED <<up, clientVars>>

SyncTick == Tick /\ UNCHANGED <<up, clientVars>>

SyncNext ==
    \/ SyncTick
    \/ \E d \in Devices :
          \/ Connect(d) \/ SendClip(d) \/ HostFetch(d) \/ Receive(d) \/ HandleNext(d)
          \/ LanReceive(d) \/ LanLose(d) \/ Disconnect(d)
          \/ RelayHandles(d) \/ RelayForwards(d)

SyncSpec == SyncInit /\ [][SyncNext]_syncVars

\* Sockets deliver and both ends keep serving them.
SyncFairness ==
    \A d \in Devices :
        /\ WF_syncVars(RelayHandles(d))
        /\ WF_syncVars(RelayForwards(d))
        /\ WF_syncVars(Receive(d)) /\ WF_syncVars(HandleNext(d))

FairSyncSpec == SyncSpec /\ SyncFairness

-----------------------------------------------------------------------------
(* What the devices see *)

\* However a clip arrives (Clip frame, Recent reply, LAN, again after a
\* reconnect), the host gets it a second time only after the dedup entry has
\* expired or DEDUP_CAP other clips have pushed it out.
NoDoubleApply ==
    \A d \in Devices : \A i, j \in DOMAIN applied[d] :
        i < j /\ applied[d][i].key = applied[d][j].key =>
            applied[d][j].at - applied[d][i].at > DEDUP_TTL \/ j - i > DEDUP_CAP

\* Publication n was given to the host of d.
Given(d, n) ==
    /\ n \in DOMAIN sent[G]
    /\ \E i \in DOMAIN applied[d] : applied[d][i].key = Key(sent[G][n])

\* Nothing is in flight to or from d.
Quiet(d) ==
    /\ open[d] /\ caught[d]
    /\ up[d] = <<>> /\ wire[d] = <<>> /\ lan[d] = <<>> /\ ~InHandler(d)
    /\ ~Pending(d)

\* A device whose session has nothing left in flight has been given every
\* unexpired clip of the others among the newest RECENT_CAP, whatever it
\* missed while offline and whichever path won.
QuietMeansCaughtUp ==
    \A d \in Devices : Quiet(d) =>
        \A n \in 1..Len(sent[G]) :
            Newest(G, n) /\ Unexpired(G, n) /\ sent[G][n].sender # d => Given(d, n)

\* A clip that is waiting on a device's broadcast channel is given to the
\* host, unless the session ends or newer clips push it out of reach.
EventuallyApplied ==
    \A d \in Devices, n \in 1..MaxClips :
        (open[d] /\ Pending(d) /\ n \in (rx[d].pos + 1)..Len(sent[G]) /\ sent[G][n].sender # d)
            ~> \/ Given(d, n)
               \/ ~open[d]
               \/ ~Newest(G, n)

\* The newest clip of the others is the last one given to the host, so it is
\* what stays on the OS clipboard (comment in handle_server on Recent).
NewestWins ==
    \A d \in Devices : Quiet(d) /\ applied[d] # <<>> =>
        LET others == {n \in 1..Len(sent[G]) : sent[G][n].sender # d}
            newest == CHOOSE n \in others : \A m \in others : m <= n
        IN  applied[d][Len(applied[d])].key = Key(sent[G][newest])
=============================================================================
