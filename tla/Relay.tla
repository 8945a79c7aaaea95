------------------------------- MODULE Relay -------------------------------
(***************************************************************************)
(* The clip path of the relay server: the per-group hub state of           *)
(* relay/src/hub.rs (recent cache and broadcast channel) and the per-socket *)
(* task handle_socket of relay/src/ws.rs that feeds and drains it.          *)
(*                                                                         *)
(* A clip is named by its group and by its publication number in that      *)
(* group; `sent[g]` is the history of the group's publications, so the     *)
(* broadcast channel is a cursor into it and the recent cache, a VecDeque  *)
(* filled at the back and emptied at the front, is a set of publication    *)
(* numbers read in increasing order.  The LanAdvertise half of the same    *)
(* task is module Rendezvous.                                              *)
(***************************************************************************)
EXTENDS Integers, FiniteSets, Sequences

CONSTANTS
    Conns,          \* WebSocket slots; a slot is reused after it closes
    Devices,        \* device ids
    Groups,         \* group ids
    Stamps,         \* the ts a sender gives a clip
    None,           \* Option::None
    RECENT_CAP,     \* clips kept for FetchRecent
    RECENT_TTL,     \* how long they are kept
    BROADCAST_CAP,  \* clips a broadcast channel retains for slow receivers
    WIRE_CAP,       \* frames a socket takes before a send on it blocks
    MaxClips,       \* bound: publications per group
    MaxNow          \* bound: clock

ASSUME CapAssumption ==
    /\ RECENT_CAP \in Nat \ {0}
    /\ BROADCAST_CAP \in Nat
    /\ RECENT_CAP <= BROADCAST_CAP

ASSUME BoundAssumption ==
    /\ RECENT_TTL \in Nat
    /\ WIRE_CAP \in Nat
    /\ MaxClips \in Nat
    /\ MaxNow \in Nat

ASSUME NoneAssumption == None \notin Devices /\ None \notin Groups

VARIABLES
    now,     \* Instant::now()
    sent,    \* sent[g]: every clip ever published to g, in order
    cache,   \* cache[g]: publication numbers in the recent cache
    open,    \* open[c]: the socket task of c is running
    group,   \* group[c]: the group c joined, or None
    device,  \* device[c]: the device id c joined with, or None
    rx,      \* rx[c]: the broadcast receiver of c (its channel and cursor)
    wire,    \* wire[c]: frames sent to the client and not yet read by it
    seen,    \* history: clips put on the wire of c since it last joined
    caught   \* history: c had a FetchRecent answered since it last joined

hubVars  == <<sent, cache>>
sockVars == <<open, group, device, rx>>
obsVars  == <<seen, caught>>
vars == <<now, hubVars, sockVars, wire, obsVars>>

Clip == [sender : Devices, ts : Stamps, at : Nat]
Receiver == [group : Groups \cup {None}, pos : Nat]
NoRx == [group |-> None, pos |-> 0]

Frame ==
    [type : {"Joined"}, group : Groups]
        \cup [type : {"Error"}]
        \cup [type : {"Clip"}, group : Groups, n : Nat]
        \cup [type : {"Recent"}, group : Groups, clips : SUBSET Nat]

TypeOK ==
    /\ now \in Nat
    /\ sent \in [Groups -> Seq(Clip)]
    /\ cache \in [Groups -> SUBSET Nat]
    /\ open \in [Conns -> BOOLEAN]
    /\ group \in [Conns -> Groups \cup {None}]
    /\ device \in [Conns -> Devices \cup {None}]
    /\ rx \in [Conns -> Receiver]
    /\ wire \in [Conns -> Seq(Frame)]
    /\ seen \in [Conns -> SUBSET Nat]
    /\ caught \in [Conns -> BOOLEAN]

Init ==
    /\ now = 0
    /\ sent = [g \in Groups |-> <<>>]
    /\ cache = [g \in Groups |-> {}]
    /\ open = [c \in Conns |-> FALSE]
    /\ group = [c \in Conns |-> None]
    /\ device = [c \in Conns |-> None]
    /\ rx = [c \in Conns |-> NoRx]
    /\ wire = [c \in Conns |-> <<>>]
    /\ seen = [c \in Conns |-> {}]
    /\ caught = [c \in Conns |-> FALSE]

-----------------------------------------------------------------------------
(* The hub *)

Unexpired(g, n) == now - sent[g][n].at < RECENT_TTL

\* cache.retain(...): both publish and recent prune before they look.
Retain(g) == {n \in cache[g] : Unexpired(g, n)}

\* pop_front: the oldest entry goes.
PopFront(S) == {n \in S : \E m \in S : m < n}

\* Mutant of PushBack: the length check before push_back is lost.
PushBackUnbounded(g) == Retain(g) \cup {Len(sent[g]) + 1}

\* The cache after one more clip was pushed at the back.
PushBack(g) ==
    LET kept == Retain(g)
        room == IF Cardinality(kept) = RECENT_CAP THEN PopFront(kept) ELSE kept
    IN  room \cup {Len(sent[g]) + 1}

-----------------------------------------------------------------------------
(* The socket task.  It handles one event at a time; while a send is        *)
(* blocked on a full socket it handles none.  The select is biased towards  *)
(* inbound frames: a frame is handled when it arrives, whatever is pending  *)
(* on the broadcast channel.                                                *)

Running(c) == open[c] /\ Len(wire[c]) <= WIRE_CAP

Send(c, frame) == wire' = [wire EXCEPT ![c] = Append(@, frame)]

Accept(c) ==
    /\ ~open[c]
    /\ open' = [open EXCEPT ![c] = TRUE]
    /\ UNCHANGED <<now, hubVars, group, device, rx, wire, obsVars>>

\* Join subscribes afresh: the new receiver starts at the channel's tail.
Join(c, g, d) ==
    /\ Running(c)
    /\ rx' = [rx EXCEPT ![c] = [group |-> g, pos |-> Len(sent[g])]]
    /\ device' = [device EXCEPT ![c] = d]
    /\ group' = [group EXCEPT ![c] = g]
    /\ Send(c, [type |-> "Joined", group |-> g])
    /\ seen' = [seen EXCEPT ![c] = {}]
    /\ caught' = [caught EXCEPT ![c] = FALSE]
    /\ UNCHANGED <<now, hubVars, open>>

Publish(c, g, ts) ==
    /\ Running(c)
    /\ device[c] # None
    /\ group[c] = g
    /\ Len(sent[g]) < MaxClips
    /\ cache' = [cache EXCEPT ![g] = PushBack(g)]
    /\ sent' = [sent EXCEPT ![g] = Append(@, [sender |-> device[c], ts |-> ts, at |-> now])]
    /\ UNCHANGED <<now, sockVars, wire, obsVars>>

FetchRecent(c, g) ==
    /\ Running(c)
    /\ group[c] = g
    /\ cache' = [cache EXCEPT ![g] = Retain(g)]
    /\ Send(c, [type |-> "Recent", group |-> g, clips |-> Retain(g)])
    /\ seen' = [seen EXCEPT ![c] = @ \cup Retain(g)]
    /\ caught' = [caught EXCEPT ![c] = TRUE]
    /\ UNCHANGED <<now, sent, sockVars>>

\* Publish before Join ("join first"), Publish or FetchRecent for a group the
\* socket did not join ("group mismatch"), or a frame that does not parse.
Refuse(c) ==
    /\ Running(c)
    /\ Send(c, [type |-> "Error"])
    /\ UNCHANGED <<now, hubVars, sockVars, obsVars>>

Pending(c) == rx[c].group # None /\ rx[c].pos < Len(sent[rx[c].group])

\* Mutant of Lagging: every pending receiver is taken to have lagged.
LaggingAtOnce(c) == Pending(c)

Lagging(c) == Len(sent[rx[c].group]) - rx[c].pos > BROADCAST_CAP

\* Mutant of Forward: the "don't echo to sender" check is lost.
ForwardEcho(c) ==
    /\ Running(c)
    /\ Pending(c)
    /\ ~Lagging(c)
    /\ rx' = [rx EXCEPT ![c].pos = @ + 1]
    /\ Send(c, [type |-> "Clip", group |-> rx[c].group, n |-> rx[c].pos + 1])
    /\ seen' = [seen EXCEPT ![c] = @ \cup {rx[c].pos + 1}]
    /\ UNCHANGED <<now, hubVars, open, group, device, caught>>

\* recv(): the next clip is forwarded unless this device sent it.
Forward(c) ==
    /\ Running(c)
    /\ Pending(c)
    /\ ~Lagging(c)
    /\ LET g == rx[c].group
           n == rx[c].pos + 1
       IN  /\ rx' = [rx EXCEPT ![c].pos = n]
           /\ IF sent[g][n].sender = device[c]
              THEN UNCHANGED <<wire, seen>>
              ELSE /\ Send(c, [type |-> "Clip", group |-> g, n |-> n])
                   /\ seen' = [seen EXCEPT ![c] = @ \cup {n}]
    /\ UNCHANGED <<now, hubVars, open, group, device, caught>>

\* Mutant of SkipLagged: a receiver that lagged subscribes again, at the tail.
SkipToTail(c) ==
    /\ Running(c)
    /\ Pending(c)
    /\ Lagging(c)
    /\ rx' = [rx EXCEPT ![c].pos = Len(sent[rx[c].group])]
    /\ UNCHANGED <<now, hubVars, open, group, device, wire, obsVars>>

\* recv() -> Err(Lagged): the cursor moves to the oldest clip retained, the
\* error is swallowed by .ok() and the loop goes on.
SkipLagged(c) ==
    /\ Running(c)
    /\ Pending(c)
    /\ Lagging(c)
    /\ rx' = [rx EXCEPT ![c].pos = Len(sent[rx[c].group]) - BROADCAST_CAP]
    /\ UNCHANGED <<now, hubVars, open, group, device, wire, obsVars>>

\* Idle timeout, close frame or broken socket: the task ends, its locals go.
Close(c) ==
    /\ open[c]
    /\ open' = [open EXCEPT ![c] = FALSE]
    /\ group' = [group EXCEPT ![c] = None]
    /\ device' = [device EXCEPT ![c] = None]
    /\ rx' = [rx EXCEPT ![c] = NoRx]
    /\ wire' = [wire EXCEPT ![c] = <<>>]
    /\ seen' = [seen EXCEPT ![c] = {}]
    /\ caught' = [caught EXCEPT ![c] = FALSE]
    /\ UNCHANGED <<now, hubVars>>

\* The client reads a frame (environment).
Read(c) ==
    /\ wire[c] # <<>>
    /\ wire' = [wire EXCEPT ![c] = Tail(@)]
    /\ UNCHANGED <<now, hubVars, sockVars, obsVars>>

Tick ==
    /\ now < MaxNow
    /\ now' = now + 1
    /\ UNCHANGED <<hubVars, sockVars, wire, obsVars>>

ConnStep(c) ==
    \/ Accept(c)
    \/ \E g \in Groups, d \in Devices : Join(c, g, d)
    \/ \E g \in Groups, ts \in Stamps : Publish(c, g, ts)
    \/ \E g \in Groups : FetchRecent(c, g)
    \/ Refuse(c)
    \/ Forward(c)
    \/ SkipLagged(c)
    \/ Close(c)
    \/ Read(c)

Next == Tick \/ \E c \in Conns : ConnStep(c)

Spec == Init /\ [][Next]_vars
-----------------------------------------------------------------------------
(* What the clip path promises *)

Newest(g, n) == n > Len(sent[g]) - RECENT_CAP

\* The recent cache is the newest end of the group's history: never more than
\* RECENT_CAP clips, no hole in it, and no unexpired clip among the newest
\* RECENT_CAP was dropped by the pruning or the pop_front of publish/recent.
CacheIsNewest ==
    \A g \in Groups :
        /\ Cardinality(cache[g]) <= RECENT_CAP
        /\ \A n \in cache[g] : n..Len(sent[g]) \subseteq cache[g]
        /\ \A n \in 1..Len(sent[g]) :
               Newest(g, n) /\ Unexpired(g, n) => n \in cache[g]

\* Join subscribes before FetchRecent is answered, so the two leave no gap: of
\* the newest RECENT_CAP clips of its group, a socket whose FetchRecent was
\* answered has been sent every unexpired clip of another device, or still has
\* it ahead of its broadcast cursor, lag of the channel included.
CatchUp ==
    \A c \in Conns : caught[c] =>
        LET g == group[c]
        IN  \A n \in 1..Len(sent[g]) :
                Newest(g, n) /\ Unexpired(g, n) =>
                    \/ n \in seen[c]
                    \/ n > rx[c].pos
                    \/ sent[g][n].sender = device[c]

\* Clip frames of the current subscription of c that it has not read yet.
Forwarded(c) ==
    {i \in DOMAIN wire[c] :
        /\ wire[c][i].type = "Clip"
        /\ \A j \in DOMAIN wire[c] : j > i => wire[c][j].type # "Joined"}

\* Within one subscription Clip frames follow publication order without
\* repetition, belong to the joined group and never echo the device's own
\* clips, also when the socket joined again under another group or device.
ForwardedClean ==
    \A c \in Conns : \A i \in Forwarded(c) :
        /\ wire[c][i].group = group[c]
        /\ sent[group[c]][wire[c][i].n].sender # device[c]
        /\ \A j \in Forwarded(c) : i < j => wire[c][i].n < wire[c][j].n
=============================================================================
