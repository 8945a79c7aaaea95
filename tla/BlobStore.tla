----------------------------- MODULE BlobStore -----------------------------
(***************************************************************************)
(* The relay's in-memory blob store (relay/src/blob.rs) under concurrent   *)
(* requests.  A request is a thread of the relay's runtime; one action is  *)
(* one access to the shared map or to the byte counter, so requests        *)
(* interleave exactly where the code can be preempted.                     *)
(*                                                                         *)
(* A key stands for (group, sha256) and for the only bytes that have that  *)
(* hash; Size gives their number.                                          *)
(***************************************************************************)
EXTENDS Integers, FiniteSets

CONSTANTS
    Threads,    \* requests that can be served at the same time
    Keys,
    Size,       \* bytes of each blob
    BUDGET,     \* budget_bytes
    TTL,
    MAX_BLOB,   \* max_blob_bytes
    WORD,       \* the counter wraps at WORD (2^64 in the code)
    MaxNow,     \* bound of the model: last instant of the clock
    None

ASSUME BlobAssumption ==
    /\ Size \in [Keys -> Nat]
    /\ BUDGET \in Nat /\ TTL \in Nat /\ MAX_BLOB \in Nat /\ MaxNow \in Nat
    /\ None \notin Keys /\ None \notin Nat
    /\ IsFiniteSet(Keys) /\ IsFiniteSet(Threads)

\* The counter is wide enough for the budget and for one blob of every request
\* besides: 64 bits against gigabytes.
ASSUME WordAssumption ==
    WORD \in Nat /\ BUDGET + Cardinality(Threads) * MAX_BLOB + MAX_BLOB < WORD

VARIABLES
    inner,      \* key -> inserted_at, or None
    total,      \* total_bytes
    now,
    req,        \* thread -> the request it serves
    putAt,      \* history: key -> when it was last inserted, or None
    puts,       \* history: key -> number of PUTs that have begun
    evicted,    \* history: keys removed to make room since they were inserted
    overlapped  \* history: a PUT left the eviction loop while another had left it
                \* and was not on the counter yet

storeVars == <<inner, total, now, req, putAt, puts, evicted, overlapped>>

Pcs == {"idle", "contains", "expired", "expire", "room", "oldest", "sub",
        "insert", "add", "get", "drop", "done"}
Results == {"none", "ok", "rejected", "found", "missing"}

\* todo: expired keys still to remove; gone: the entry taken out of the map
\* whose length is still to be subtracted; back: where remove() returns to.
Request == [pc : Pcs, key : Keys \cup {None}, todo : SUBSET Keys,
            gone : Keys \cup {None}, back : Pcs, res : Results]

Idle == [pc |-> "idle", key |-> None, todo |-> {}, gone |-> None,
         back |-> "idle", res |-> "none"]

StoreTypeOK ==
    /\ inner \in [Keys -> Nat \cup {None}]
    /\ total \in 0..(WORD - 1)
    /\ now \in Nat
    /\ req \in [Threads -> Request]
    /\ putAt \in [Keys -> Nat \cup {None}]
    /\ puts \in [Keys -> Nat]
    /\ evicted \subseteq Keys
    /\ overlapped \in BOOLEAN

StoreInit ==
    /\ inner = [k \in Keys |-> None]
    /\ total = 0
    /\ now = 0
    /\ req = [t \in Threads |-> Idle]
    /\ putAt = [k \in Keys |-> None]
    /\ puts = [k \in Keys |-> 0]
    /\ evicted = {}
    /\ overlapped = FALSE

-----------------------------------------------------------------------------
Present == {k \in Keys : inner[k] # None}
Expired(k) == inner[k] # None /\ now - inner[k] >= TTL
Oldest == {k \in Present : \A j \in Present : inner[k] <= inner[j]}

Goto(t, pc) == req' = [req EXCEPT ![t].pc = pc]
Finish(t, res) == req' = [req EXCEPT ![t].pc = "done", ![t].res = res]

\* A PUT or a GET reaches its handler.
PutArrives(t, k) ==
    /\ req[t].pc = "idle"
    /\ req' = [req EXCEPT ![t] = [Idle EXCEPT !.pc = "contains", !.key = k]]
    /\ puts' = [puts EXCEPT ![k] = @ + 1]
    /\ UNCHANGED <<inner, total, now, putAt, evicted, overlapped>>

GetArrives(t, k) ==
    /\ req[t].pc = "idle"
    /\ req' = [req EXCEPT ![t] = [Idle EXCEPT !.pc = "get", !.key = k]]
    /\ UNCHANGED <<inner, total, now, putAt, puts, evicted, overlapped>>

\* put: the checks.  An entry that is present is left as it is, expired or not.
PutChecks(t) ==
    /\ req[t].pc = "contains"
    /\ IF Size[req[t].key] > MAX_BLOB THEN Finish(t, "rejected")
       ELSE IF inner[req[t].key] # None THEN Finish(t, "ok")
       ELSE Goto(t, "expired")
    /\ UNCHANGED <<inner, total, now, putAt, puts, evicted, overlapped>>

\* remove(k): out of the map now, off the counter in a later step.
RemoveEntry(t, k, back) ==
    /\ inner' = [inner EXCEPT ![k] = None]
    /\ req' = [req EXCEPT ![t].pc = IF inner[k] # None THEN "sub" ELSE back,
                          ![t].gone = IF inner[k] # None THEN k ELSE None,
                          ![t].back = back,
                          ![t].todo = @ \ {k}]
    /\ UNCHANGED <<total, now, putAt, puts, overlapped>>

Subtract(t) ==
    /\ req[t].pc = "sub"
    /\ total' = (total - Size[req[t].gone]) % WORD
    /\ req' = [req EXCEPT ![t].pc = req[t].back, ![t].gone = None]
    /\ UNCHANGED <<inner, now, putAt, puts, evicted, overlapped>>

\* evict_until_room_for: a snapshot of the expired keys, removed one by one ...
CollectExpired(t) ==
    /\ req[t].pc = "expired"
    /\ req' = [req EXCEPT ![t].pc = "expire", ![t].todo = {k \in Keys : Expired(k)}]
    /\ UNCHANGED <<inner, total, now, putAt, puts, evicted, overlapped>>

RemoveExpired(t) ==
    /\ req[t].pc = "expire"
    /\ \/ /\ \E k \in req[t].todo : RemoveEntry(t, k, "expire")
          /\ UNCHANGED evicted
       \/ /\ req[t].todo = {}
          /\ Goto(t, "room")
          /\ UNCHANGED <<inner, total, now, putAt, puts, evicted, overlapped>>

\* ... then the oldest, while the counter says there is no room and the map
\* is not empty.
\* Mutant of NoRoom: the incoming blob is not counted.
NoRoomForNext(k) == total % WORD > BUDGET

NoRoom(k) == (total + Size[k]) % WORD > BUDGET

\* The loop is left, with or without room.
LeaveLoop(t) ==
    /\ Goto(t, "insert")
    /\ overlapped' = (overlapped \/ \E u \in Threads : req[u].pc \in {"insert", "add"})

CheckRoom(t) ==
    /\ req[t].pc = "room"
    /\ IF NoRoom(req[t].key) THEN Goto(t, "oldest") /\ UNCHANGED overlapped
                             ELSE LeaveLoop(t)
    /\ UNCHANGED <<inner, total, now, putAt, puts, evicted>>

\* Mutant of PickOldest: no break when the map is empty.
PickOldestNoBreak(t) ==
    /\ req[t].pc = "oldest"
    /\ req[t].todo = {}
    /\ \E k \in Oldest : req' = [req EXCEPT ![t].todo = {k}]
    /\ UNCHANGED <<inner, total, now, putAt, puts, evicted, overlapped>>

PickOldest(t) ==
    /\ req[t].pc = "oldest"
    /\ req[t].todo = {}
    /\ \/ /\ \E k \in Oldest : req' = [req EXCEPT ![t].todo = {k}]
          /\ UNCHANGED overlapped
       \/ Present = {} /\ LeaveLoop(t)
    /\ UNCHANGED <<inner, total, now, putAt, puts, evicted>>

EvictOldest(t) ==
    /\ req[t].pc = "oldest"
    /\ \E k \in req[t].todo :
          /\ RemoveEntry(t, k, "room")
          /\ evicted' = IF inner[k] # None THEN evicted \cup {k} ELSE evicted

\* Mutant of Insert: the counter grows although insert() replaced an entry.
InsertAlwaysAdds(t) ==
    /\ req[t].pc = "insert"
    /\ inner' = [inner EXCEPT ![req[t].key] = now]
    /\ putAt' = [putAt EXCEPT ![req[t].key] = now]
    /\ evicted' = evicted \ {req[t].key}
    /\ Goto(t, "add")
    /\ UNCHANGED <<total, now, puts, overlapped>>

\* The counter grows only if insert() replaced nothing.
Insert(t) ==
    /\ req[t].pc = "insert"
    /\ LET k == req[t].key IN
          /\ inner' = [inner EXCEPT ![k] = now]
          /\ putAt' = [putAt EXCEPT ![k] = now]
          /\ evicted' = evicted \ {k}
          /\ IF inner[k] = None THEN Goto(t, "add") ELSE Finish(t, "ok")
    /\ UNCHANGED <<total, now, puts, overlapped>>

Add(t) ==
    /\ req[t].pc = "add"
    /\ total' = (total + Size[req[t].key]) % WORD
    /\ Finish(t, "ok")
    /\ UNCHANGED <<inner, now, putAt, puts, evicted, overlapped>>

\* get: an expired entry is dropped, by key, after its guard is released.
Get(t) ==
    /\ req[t].pc = "get"
    /\ IF inner[req[t].key] = None THEN Finish(t, "missing")
       ELSE IF Expired(req[t].key)
            THEN req' = [req EXCEPT ![t].pc = "drop", ![t].res = "missing"]
       ELSE Finish(t, "found")
    /\ UNCHANGED <<inner, total, now, putAt, puts, evicted, overlapped>>

DropExpired(t) ==
    /\ req[t].pc = "drop"
    /\ RemoveEntry(t, req[t].key, "done")
    /\ UNCHANGED evicted

Serve(t) ==
    \/ PutChecks(t) \/ CollectExpired(t) \/ RemoveExpired(t) \/ CheckRoom(t)
    \/ PickOldest(t) \/ EvictOldest(t) \/ Subtract(t) \/ Insert(t) \/ Add(t)
    \/ Get(t) \/ DropExpired(t)

StoreTick ==
    /\ now < MaxNow
    /\ now' = now + 1
    /\ UNCHANGED <<inner, total, req, putAt, puts, evicted, overlapped>>

-----------------------------------------------------------------------------
(* What the store promises *)

\* The sum of f over S, counted and not folded: as many pairs <<x, i>> as x
\* has units.
SumOf(f, S) == Cardinality(UNION {{x} \X (1..f[x]) : x \in S})

Bytes(S) == SumOf(Size, S)

\* Taken out and still on the counter; put in and not yet on it.
Removed == SumOf([t \in Threads |-> IF req[t].pc = "sub" THEN Size[req[t].gone] ELSE 0], Threads)
Added   == SumOf([t \in Threads |-> IF req[t].pc = "add" THEN Size[req[t].key] ELSE 0], Threads)

\* The counter is the number of bytes in the map, but for the entries that a
\* request has inserted and not yet added, or removed and not yet subtracted;
\* with no request in between it is exact, whatever requests raced before.
CounterExact == total = (Bytes(Present) + Removed - Added) % WORD

\* The stored bytes stay under the budget (blob.rs, line 9), except that PUTs
\* which look for room at the same time do not see each other.
BudgetKept ==
    MAX_BLOB <= BUDGET /\ ~overlapped => Bytes(Present) <= BUDGET

\* A request that has begun is answered: the eviction loop ends although other
\* requests move the counter under it.
RequestEnds == \A t \in Threads : req[t].pc # "idle" ~> req[t].pc \in {"done", "idle"}
=============================================================================
