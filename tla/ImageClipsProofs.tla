-------------------------- MODULE ImageClipsProofs --------------------------
(***************************************************************************)
(* Proofs about image clips over the relay's blob store, for any number of *)
(* devices, images and repeated uploads, any sizes, budget and TTL: first  *)
(* that an announced image is stored, then that the byte counter is exact  *)
(* and the budget kept.                                                    *)
(***************************************************************************)
EXTENDS ImageClips, FiniteSetTheorems, TLAPS

-----------------------------------------------------------------------------
(* The inductive invariant *)

\* What the store does for the call a device is in.
PutPcs == {"contains", "expired", "expire", "room", "oldest", "insert", "add"}

Putting(d, k) == call[d].op \in {"send", "repeat"} /\ call[d].key = k

ServingInv ==
    \A d \in Devices :
        /\ call[d].op \in {"none", "lan"} => req[d] = Idle
        /\ call[d].op = "none" => call[d] = NoCall
        /\ call[d].op # "none" => call[d].key \in sent
        /\ call[d].op \in {"send", "repeat", "relay"} => req[d].key = call[d].key
        /\ req[d].pc \in PutPcs => call[d].op \in {"send", "repeat"}
        /\ req[d].pc \in {"get", "drop"} => call[d].op = "relay"
        /\ req[d].pc = "sub" =>
              /\ req[d].gone \in Keys
              /\ \/ req[d].back \in {"expire", "room"} /\ call[d].op \in {"send", "repeat"}
                 \/ req[d].back = "done" /\ call[d].op = "relay"

\* A PUT that has not inserted its blob yet.
BeforeInsert(d) ==
    \/ req[d].pc \in {"contains", "expired", "expire", "room", "oldest", "insert"}
    \/ req[d].pc = "sub" /\ req[d].back \in {"expire", "room"}

\* A thread is about to remove k because it saw it expired.
Condemned(d, k) ==
    \/ req[d].pc = "expire" /\ k \in req[d].todo
    \/ req[d].pc = "sub" /\ req[d].back = "expire" /\ k \in req[d].todo
    \/ req[d].pc = "drop" /\ k = req[d].key

Old(k) == putAt[k] # None /\ now - putAt[k] >= TTL

\* The life of a key that was PUT at most once.
OnceInv(k) ==
    /\ \A d \in Devices : Putting(d, k) => puts[k] >= 1
    /\ \A d, e \in Devices : Putting(d, k) /\ Putting(e, k) => d = e
    /\ \A d \in Devices : Putting(d, k) /\ BeforeInsert(d) =>
          putAt[k] = None /\ k \notin announced
    /\ \A d \in Devices :
          Putting(d, k) /\ (req[d].pc = "add" \/ (req[d].pc = "done" /\ req[d].res = "ok")) =>
             putAt[k] # None
    /\ puts[k] = 0 => putAt[k] = None /\ k \notin announced
    /\ inner[k] # None => inner[k] = putAt[k]
    /\ \A d \in Devices : Condemned(d, k) => Old(k)
    /\ putAt[k] # None /\ ~Old(k) /\ k \notin evicted => inner[k] # None
    /\ k \in announced => putAt[k] # None

TInv ==
    /\ StoreTypeOK
    /\ call \in [Devices -> Calls]
    /\ announced \subseteq sent /\ sent \subseteq Keys

SentInv == \A k \in Keys : k \in sent <=> puts[k] >= 1

IInv ==
    /\ TInv /\ ServingInv /\ SentInv
    /\ \A k \in Keys : puts[k] <= 1 => OnceInv(k)

-----------------------------------------------------------------------------
(* How a request moves *)

OthersWait(d) == \A e \in Devices : e # d => req'[e] = req[e]

LEMMA IdleIsRequest ==
    /\ Idle \in Request /\ Idle.pc = "idle" /\ Idle.res = "none"
    /\ \A pc \in Pcs, k \in Keys :
          LET r == [Idle EXCEPT !.pc = pc, !.key = k]
          IN  r \in Request /\ r.pc = pc /\ r.key = k
BY DEF Idle, Request, Pcs, Results

LEMMA GotoMoves ==
    ASSUME req \in [Devices -> Request], NEW d \in Devices, NEW pc \in Pcs, Goto(d, pc)
    PROVE  /\ req' \in [Devices -> Request] /\ OthersWait(d)
           /\ req'[d].pc = pc /\ req'[d].key = req[d].key /\ req'[d].todo = req[d].todo
           /\ req'[d].back = req[d].back /\ req'[d].gone = req[d].gone
           /\ req'[d].res = req[d].res
<1> DEFINE r == [req[d] EXCEPT !.pc = pc]
<1>1. req' = [req EXCEPT ![d] = r]
  BY DEF Goto
<1>2. r \in Request /\ r.pc = pc /\ r.key = req[d].key /\ r.todo = req[d].todo
      /\ r.back = req[d].back /\ r.gone = req[d].gone /\ r.res = req[d].res
  BY DEF Request
<1> HIDE DEF r
<1> QED
  BY <1>1, <1>2 DEF OthersWait, Devices

LEMMA FinishMoves ==
    ASSUME req \in [Devices -> Request], NEW d \in Devices, NEW res \in Results, Finish(d, res)
    PROVE  /\ req' \in [Devices -> Request] /\ OthersWait(d)
           /\ req'[d].pc = "done" /\ req'[d].key = req[d].key /\ req'[d].res = res
<1> DEFINE r == [req[d] EXCEPT !.pc = "done", !.res = res]
<1>1. req' = [req EXCEPT ![d] = r]
  BY DEF Finish
<1>2. r \in Request /\ r.pc = "done" /\ r.key = req[d].key /\ r.res = res
  BY DEF Request, Pcs
<1> HIDE DEF r
<1> QED
  BY <1>1, <1>2 DEF OthersWait, Devices

\* remove(k).
LEMMA RemoveMoves ==
    ASSUME req \in [Devices -> Request], inner \in [Keys -> Nat \cup {None}],
           NEW d \in Devices, NEW k \in Keys, NEW back \in Pcs, RemoveEntry(d, k, back)
    PROVE  /\ req' \in [Devices -> Request] /\ OthersWait(d)
           /\ req'[d].pc = IF inner[k] # None THEN "sub" ELSE back
           /\ inner[k] # None => req'[d].gone = k
           /\ req'[d].back = back /\ req'[d].todo = req[d].todo \ {k}
           /\ req'[d].key = req[d].key
           /\ inner' \in [Keys -> Nat \cup {None}] /\ inner'[k] = None
           /\ \A j \in Keys : j # k => inner'[j] = inner[j]
           /\ UNCHANGED <<total, now, putAt, puts, overlapped>>
<1> DEFINE pc == IF inner[k] # None THEN "sub" ELSE back
           gone == IF inner[k] # None THEN k ELSE None
<1>1. pc \in Pcs /\ gone \in Keys \cup {None}
  BY DEF Pcs
<1>2. /\ req' = [req EXCEPT ![d].pc = pc, ![d].gone = gone, ![d].back = back,
                            ![d].todo = @ \ {k}]
      /\ inner' = [inner EXCEPT ![k] = None]
      /\ UNCHANGED <<total, now, putAt, puts, overlapped>>
  BY DEF RemoveEntry
<1>3. (inner[k] # None => pc = "sub" /\ gone = k) /\ (inner[k] = None => pc = back)
  OBVIOUS
<1> HIDE DEF pc, gone
<1> DEFINE r == [req[d] EXCEPT !.pc = pc, !.gone = gone, !.back = back, !.todo = @ \ {k}]
<1>4. req' = [req EXCEPT ![d] = r]
  BY <1>2
<1>5. r \in Request /\ r.pc = pc /\ r.key = req[d].key /\ r.todo = req[d].todo \ {k}
      /\ r.back = back /\ r.gone = gone
  BY <1>1 DEF Request
<1> HIDE DEF r
<1>6. req' \in [Devices -> Request] /\ OthersWait(d) /\ req'[d] = r
  BY <1>4, <1>5 DEF OthersWait, Devices
<1>7. inner' \in [Keys -> Nat \cup {None}] /\ inner'[k] = None
      /\ \A j \in Keys : j # k => inner'[j] = inner[j]
  BY <1>2
<1> QED
  BY <1>2, <1>3, <1>5, <1>6, <1>7

\* A request is handed to the store.
LEMMA ArriveMoves ==
    ASSUME req \in [Devices -> Request], puts \in [Keys -> Nat],
           NEW d \in Devices, NEW k \in Keys
    PROVE  /\ PutArrives(d, k) =>
                 /\ req[d].pc = "idle"
                 /\ req' \in [Devices -> Request] /\ OthersWait(d)
                 /\ req'[d].pc = "contains" /\ req'[d].key = k
                 /\ puts' \in [Keys -> Nat] /\ puts'[k] = puts[k] + 1
                 /\ \A j \in Keys : j # k => puts'[j] = puts[j]
                 /\ UNCHANGED <<inner, total, now, putAt, evicted, overlapped>>
           /\ GetArrives(d, k) =>
                 /\ req[d].pc = "idle"
                 /\ req' \in [Devices -> Request] /\ OthersWait(d)
                 /\ req'[d].pc = "get" /\ req'[d].key = k
                 /\ UNCHANGED <<inner, total, now, putAt, puts, evicted, overlapped>>
<1>1. ASSUME NEW pc \in Pcs, req' = [req EXCEPT ![d] = [Idle EXCEPT !.pc = pc, !.key = k]]
      PROVE  /\ req' \in [Devices -> Request] /\ OthersWait(d)
             /\ req'[d].pc = pc /\ req'[d].key = k
  <2> DEFINE r == [Idle EXCEPT !.pc = pc, !.key = k]
  <2>1. r \in Request /\ r.pc = pc /\ r.key = k
    BY IdleIsRequest
  <2>2. req' = [req EXCEPT ![d] = r]
    BY <1>1
  <2> HIDE DEF r
  <2> QED
    BY <2>1, <2>2 DEF OthersWait, Devices
<1>2. ASSUME PutArrives(d, k)
      PROVE  /\ req[d].pc = "idle"
             /\ req' = [req EXCEPT ![d] = [Idle EXCEPT !.pc = "contains", !.key = k]]
             /\ puts' \in [Keys -> Nat] /\ puts'[k] = puts[k] + 1
             /\ \A j \in Keys : j # k => puts'[j] = puts[j]
             /\ UNCHANGED <<inner, total, now, putAt, evicted, overlapped>>
  BY <1>2 DEF PutArrives
<1>3. ASSUME GetArrives(d, k)
      PROVE  /\ req[d].pc = "idle"
             /\ req' = [req EXCEPT ![d] = [Idle EXCEPT !.pc = "get", !.key = k]]
             /\ UNCHANGED <<inner, total, now, putAt, puts, evicted, overlapped>>
  BY <1>3 DEF GetArrives
<1>4. "contains" \in Pcs /\ "get" \in Pcs
  BY DEF Pcs
<1> QED
  BY <1>1, <1>2, <1>3, <1>4

\* The snapshot of the expired keys, and the choice of the oldest one.
LEMMA TodoMoves ==
    ASSUME req \in [Devices -> Request], NEW d \in Devices, NEW k \in Keys,
           req' = [req EXCEPT ![d].todo = {k}]
    PROVE  /\ req' \in [Devices -> Request] /\ OthersWait(d)
           /\ req'[d].pc = req[d].pc /\ req'[d].key = req[d].key /\ req'[d].todo = {k}
<1> DEFINE r == [req[d] EXCEPT !.todo = {k}]
<1>1. req' = [req EXCEPT ![d] = r]
  OBVIOUS
<1>2. r \in Request /\ r.pc = req[d].pc /\ r.key = req[d].key /\ r.todo = {k}
  BY DEF Request
<1> HIDE DEF r
<1> QED
  BY <1>1, <1>2 DEF OthersWait, Devices

LEMMA CollectMoves ==
    ASSUME req \in [Devices -> Request], NEW d \in Devices, CollectExpired(d)
    PROVE  /\ req' \in [Devices -> Request] /\ OthersWait(d)
           /\ req'[d].pc = "expire" /\ req'[d].key = req[d].key
           /\ req'[d].todo = {k \in Keys : Expired(k)}
<1> DEFINE E == {k \in Keys : Expired(k)}
<1>1. req' = [req EXCEPT ![d].pc = "expire", ![d].todo = E] /\ E \subseteq Keys
  BY DEF CollectExpired
<1> HIDE DEF E
<1> DEFINE r == [req[d] EXCEPT !.pc = "expire", !.todo = E]
<1>2. req' = [req EXCEPT ![d] = r]
  BY <1>1
<1>3. r \in Request /\ r.pc = "expire" /\ r.key = req[d].key /\ r.todo = E
  BY <1>1 DEF Request, Pcs
<1> HIDE DEF r
<1>4. /\ req' \in [Devices -> Request] /\ OthersWait(d)
      /\ req'[d].pc = "expire" /\ req'[d].key = req[d].key /\ req'[d].todo = E
  BY <1>2, <1>3 DEF OthersWait, Devices
<1> QED
  BY <1>4 DEF E

\* The two ways a request goes on from a removal or a lookup.
LEMMA SubtractMoves ==
    ASSUME req \in [Devices -> Request], NEW d \in Devices, Subtract(d)
    PROVE  /\ req' \in [Devices -> Request] /\ OthersWait(d)
           /\ req'[d].pc = req[d].back /\ req'[d].key = req[d].key
           /\ req'[d].todo = req[d].todo
<1> DEFINE r == [req[d] EXCEPT !.pc = req[d].back, !.gone = None]
<1>1. req' = [req EXCEPT ![d] = r]
  BY DEF Subtract
<1>2. r \in Request /\ r.pc = req[d].back /\ r.key = req[d].key /\ r.todo = req[d].todo
  BY DEF Request
<1> HIDE DEF r
<1> QED
  BY <1>1, <1>2 DEF OthersWait, Devices

LEMMA DropMoves ==
    ASSUME req \in [Devices -> Request], NEW d \in Devices,
           req' = [req EXCEPT ![d].pc = "drop", ![d].res = "missing"]
    PROVE  /\ req' \in [Devices -> Request] /\ OthersWait(d)
           /\ req'[d].pc = "drop" /\ req'[d].key = req[d].key
<1> DEFINE r == [req[d] EXCEPT !.pc = "drop", !.res = "missing"]
<1>1. req' = [req EXCEPT ![d] = r]
  OBVIOUS
<1>2. r \in Request /\ r.pc = "drop" /\ r.key = req[d].key
  BY DEF Request, Pcs, Results
<1> HIDE DEF r
<1> QED
  BY <1>1, <1>2 DEF OthersWait, Devices

-----------------------------------------------------------------------------
(* Types, and what a request serves *)

LEMMA Stored ==
    StoreTypeOK =>
    /\ inner \in [Keys -> Nat \cup {None}] /\ putAt \in [Keys -> Nat \cup {None}]
    /\ req \in [Devices -> Request] /\ now \in Nat /\ puts \in [Keys -> Nat]
    /\ evicted \subseteq Keys /\ overlapped \in BOOLEAN
BY DEF StoreTypeOK, Devices

LEMMA StoredNext ==
    ASSUME inner' \in [Keys -> Nat \cup {None}], putAt' \in [Keys -> Nat \cup {None}],
           req' \in [Devices -> Request], now' \in Nat, puts' \in [Keys -> Nat],
           evicted' \subseteq Keys, overlapped' \in BOOLEAN, total' \in 0..(WORD - 1)
    PROVE  StoreTypeOK'
BY DEF StoreTypeOK, Devices

LEMMA WordFacts ==
    /\ WORD \in Nat \ {0} /\ Cardinality(Devices) \in Nat
    /\ BUDGET + Cardinality(Devices) * MAX_BLOB + MAX_BLOB < WORD
<1>1. Cardinality(Devices) \in Nat
  BY BlobAssumption, FS_CardinalityType DEF Devices
<1>2. \A c, m \in Nat : c * m \in Nat
  OBVIOUS
<1> QED
  BY <1>1, <1>2, BlobAssumption, WordAssumption DEF Devices

LEMMA Counted ==
    ASSUME StoreTypeOK, NEW k \in Keys
    PROVE  /\ (total + Size[k]) % WORD \in 0..(WORD - 1)
           /\ (total - Size[k]) % WORD \in 0..(WORD - 1)
<1>1. \A n \in Int, w \in Nat \ {0} : n % w \in 0..(w - 1)
  OBVIOUS
<1>2. total + Size[k] \in Int /\ total - Size[k] \in Int /\ WORD \in Nat \ {0}
  BY BlobAssumption, WordFacts DEF StoreTypeOK
<1> QED
  BY <1>1, <1>2

\* Where a request can go: an upload stays an upload and a download a download.
Uploads(d) ==
    \/ req[d].pc \in PutPcs \cup {"done"}
    \/ req[d].pc = "sub" /\ req[d].gone \in Keys /\ req[d].back \in {"expire", "room"}
Downloads(d) ==
    \/ req[d].pc \in {"get", "drop", "done"}
    \/ req[d].pc = "sub" /\ req[d].gone \in Keys /\ req[d].back = "done"

\* A step of the relay, and what it leaves alone.
LEMMA ServeMoves ==
    ASSUME TInv, ServingInv, NEW d \in Devices, Serve(d)
    PROVE  /\ StoreTypeOK' /\ OthersWait(d) /\ req'[d].key = req[d].key
           /\ \/ call[d].op \in {"send", "repeat"} /\ Uploads(d)'
              \/ call[d].op = "relay" /\ Downloads(d)'
           /\ req[d].key \in Keys
           /\ UNCHANGED <<now, puts>>
<1>1. /\ inner \in [Keys -> Nat \cup {None}] /\ putAt \in [Keys -> Nat \cup {None}]
      /\ req \in [Devices -> Request] /\ now \in Nat /\ puts \in [Keys -> Nat]
      /\ evicted \subseteq Keys /\ overlapped \in BOOLEAN /\ total \in 0..(WORD - 1)
  BY Stored DEF TInv, StoreTypeOK
<1>2. req[d].pc # "idle"
  BY DEF Serve, PutChecks, CollectExpired, RemoveExpired, CheckRoom, PickOldest, EvictOldest,
     Subtract, Insert, Add, Get, DropExpired
<1>3. call[d].op \in {"send", "repeat", "relay"} /\ req[d].key \in Keys
  <2>1. call[d].op \in {"none", "send", "repeat", "lan", "relay"}
    BY DEF TInv, Calls
  <2>2. call[d].op \notin {"none", "lan"}
    BY <1>2, IdleIsRequest DEF ServingInv
  <2> QED
    BY <2>1, <2>2 DEF ServingInv, TInv
<1>4. /\ req[d].pc \in PutPcs => call[d].op \in {"send", "repeat"}
      /\ req[d].pc \in {"get", "drop"} => call[d].op = "relay"
      /\ req[d].todo \subseteq Keys
  BY <1>1 DEF ServingInv, Request
<1>5. ASSUME req' \in [Devices -> Request],
             inner' \in [Keys -> Nat \cup {None}], putAt' \in [Keys -> Nat \cup {None}],
             evicted' \subseteq Keys, overlapped' \in BOOLEAN, total' \in 0..(WORD - 1),
             UNCHANGED <<now, puts>>
      PROVE  StoreTypeOK'
  BY <1>1, <1>5, StoredNext
<1>6. CASE PutChecks(d)
  <2>1. /\ UNCHANGED <<inner, total, now, putAt, puts, evicted, overlapped>>
        /\ req[d].pc = "contains"
        /\ Finish(d, "rejected") \/ Finish(d, "ok") \/ Goto(d, "expired")
    BY <1>6 DEF PutChecks
  <2>2. /\ req' \in [Devices -> Request] /\ OthersWait(d) /\ req'[d].key = req[d].key
        /\ req'[d].pc \in {"done", "expired"}
    BY <1>1, <2>1, FinishMoves, GotoMoves DEF Pcs, Results
  <2> QED
    BY <1>1, <1>3, <1>4, <1>5, <2>1, <2>2 DEF Uploads, PutPcs
<1>7. CASE CollectExpired(d)
  <2>1. /\ UNCHANGED <<inner, total, now, putAt, puts, evicted, overlapped>>
        /\ req[d].pc = "expired"
    BY <1>7 DEF CollectExpired
  <2>2. /\ req' \in [Devices -> Request] /\ OthersWait(d) /\ req'[d].key = req[d].key
        /\ req'[d].pc = "expire"
    BY <1>1, <1>7, CollectMoves
  <2> QED
    BY <1>1, <1>3, <1>4, <1>5, <2>1, <2>2 DEF Uploads, PutPcs
<1>8. CASE RemoveExpired(d)
  <2>1. req[d].pc = "expire" /\ evicted' = evicted
    BY <1>8 DEF RemoveExpired
  <2>2. ASSUME NEW k \in req[d].todo, RemoveEntry(d, k, "expire")
        PROVE  /\ req' \in [Devices -> Request] /\ OthersWait(d) /\ req'[d].key = req[d].key
               /\ \/ req'[d].pc = "expire"
                  \/ req'[d].pc = "sub" /\ req'[d].gone \in Keys /\ req'[d].back = "expire"
               /\ inner' \in [Keys -> Nat \cup {None}]
               /\ UNCHANGED <<total, now, putAt, puts, overlapped>>
    <3>1. k \in Keys /\ "expire" \in Pcs
      BY <1>4 DEF Pcs
    <3> QED
      BY <1>1, <2>2, <3>1, RemoveMoves
  <2>3. ASSUME Goto(d, "room"), UNCHANGED <<inner, total, now, putAt, puts, overlapped>>
        PROVE  req' \in [Devices -> Request] /\ OthersWait(d) /\ req'[d].key = req[d].key
               /\ req'[d].pc = "room"
    BY <1>1, <2>3, GotoMoves DEF Pcs
  <2>4. /\ req' \in [Devices -> Request] /\ OthersWait(d) /\ req'[d].key = req[d].key
        /\ \/ req'[d].pc \in {"expire", "room"}
           \/ req'[d].pc = "sub" /\ req'[d].gone \in Keys /\ req'[d].back = "expire"
        /\ inner' \in [Keys -> Nat \cup {None}]
        /\ UNCHANGED <<total, now, putAt, puts, overlapped>>
    BY <1>1, <1>8, <2>2, <2>3 DEF RemoveExpired
  <2> QED
    BY <1>1, <1>3, <1>4, <1>5, <2>1, <2>4 DEF Uploads, PutPcs
<1>9. CASE CheckRoom(d) \/ PickOldest(d)
  <2>1. /\ UNCHANGED <<inner, total, now, putAt, puts, evicted>>
        /\ req[d].pc \in {"room", "oldest"}
    BY <1>9 DEF CheckRoom, PickOldest
  <2>2. /\ req' \in [Devices -> Request] /\ OthersWait(d) /\ req'[d].key = req[d].key
        /\ req'[d].pc \in {"oldest", "insert"} /\ overlapped' \in BOOLEAN
    <3>1. CASE Goto(d, "oldest") /\ UNCHANGED overlapped
      BY <1>1, <3>1, GotoMoves DEF Pcs
    <3>2. CASE LeaveLoop(d)
      <4>1. overlapped' \in BOOLEAN
        BY <3>2 DEF LeaveLoop
      <4> QED
        BY <1>1, <3>2, <4>1, GotoMoves DEF Pcs, LeaveLoop
    <3>3. CASE /\ req[d].pc = "oldest" /\ UNCHANGED overlapped
               /\ \E k \in Oldest : req' = [req EXCEPT ![d].todo = {k}]
      <4>1. PICK k \in Keys : req' = [req EXCEPT ![d].todo = {k}]
        BY <3>3 DEF Oldest, Present
      <4> QED
        BY <1>1, <3>3, <4>1, TodoMoves
    <3> QED
      BY <1>9, <3>1, <3>2, <3>3 DEF CheckRoom, PickOldest
  <2> QED
    BY <1>1, <1>3, <1>4, <1>5, <2>1, <2>2 DEF Uploads, PutPcs
<1>10. CASE EvictOldest(d)
  <2>1. req[d].pc = "oldest"
    BY <1>10 DEF EvictOldest
  <2>2. PICK k \in Keys : /\ RemoveEntry(d, k, "room")
                          /\ evicted' = IF inner[k] # None THEN evicted \cup {k} ELSE evicted
    BY <1>4, <1>10 DEF EvictOldest
  <2>3. /\ req' \in [Devices -> Request] /\ OthersWait(d) /\ req'[d].key = req[d].key
        /\ \/ req'[d].pc = "room"
           \/ req'[d].pc = "sub" /\ req'[d].gone \in Keys /\ req'[d].back = "room"
        /\ inner' \in [Keys -> Nat \cup {None}]
        /\ UNCHANGED <<total, now, putAt, puts, overlapped>>
    BY <1>1, <2>2, RemoveMoves DEF Pcs
  <2>4. evicted' \subseteq Keys
    BY <1>1, <2>2
  <2> QED
    BY <1>1, <1>3, <1>4, <1>5, <2>1, <2>3, <2>4 DEF Uploads, PutPcs
<1>11. CASE Subtract(d)
  <2>1. /\ UNCHANGED <<inner, now, putAt, puts, evicted, overlapped>>
        /\ req[d].pc = "sub" /\ req[d].gone \in Keys
        /\ total' = (total - Size[req[d].gone]) % WORD
    BY <1>11 DEF Subtract, ServingInv
  <2>2. /\ \/ req[d].back \in {"expire", "room"} /\ call[d].op \in {"send", "repeat"}
           \/ req[d].back = "done" /\ call[d].op = "relay"
    BY <2>1 DEF ServingInv
  <2>3. /\ req' \in [Devices -> Request] /\ OthersWait(d) /\ req'[d].key = req[d].key
        /\ req'[d].pc = req[d].back
    BY <1>1, <1>11, SubtractMoves
  <2>4. total' \in 0..(WORD - 1)
    BY <2>1, Counted DEF TInv
  <2> QED
    BY <1>1, <1>3, <1>4, <1>5, <2>1, <2>2, <2>3, <2>4 DEF Uploads, Downloads, PutPcs
<1>12. CASE Insert(d)
  <2>1. /\ UNCHANGED <<total, now, puts, overlapped>> /\ req[d].pc = "insert"
        /\ inner' = [inner EXCEPT ![req[d].key] = now]
        /\ putAt' = [putAt EXCEPT ![req[d].key] = now]
        /\ evicted' = evicted \ {req[d].key}
        /\ Goto(d, "add") \/ Finish(d, "ok")
    BY <1>12 DEF Insert
  <2>2. /\ req' \in [Devices -> Request] /\ OthersWait(d) /\ req'[d].key = req[d].key
        /\ req'[d].pc \in {"add", "done"}
    BY <1>1, <2>1, GotoMoves, FinishMoves DEF Pcs, Results
  <2>3. inner' \in [Keys -> Nat \cup {None}] /\ putAt' \in [Keys -> Nat \cup {None}]
    BY <1>1, <2>1
  <2> QED
    BY <1>1, <1>3, <1>4, <1>5, <2>1, <2>2, <2>3 DEF Uploads, PutPcs
<1>13. CASE Add(d)
  <2>1. /\ UNCHANGED <<inner, now, putAt, puts, evicted, overlapped>> /\ req[d].pc = "add"
        /\ total' = (total + Size[req[d].key]) % WORD /\ Finish(d, "ok")
    BY <1>13 DEF Add
  <2>2. /\ req' \in [Devices -> Request] /\ OthersWait(d) /\ req'[d].key = req[d].key
        /\ req'[d].pc = "done"
    BY <1>1, <2>1, FinishMoves DEF Results
  <2>3. total' \in 0..(WORD - 1)
    BY <1>3, <2>1, Counted DEF TInv
  <2> QED
    BY <1>1, <1>3, <1>4, <1>5, <2>1, <2>2, <2>3 DEF Uploads, PutPcs
<1>14. CASE Get(d)
  <2>1. /\ UNCHANGED <<inner, total, now, putAt, puts, evicted, overlapped>>
        /\ req[d].pc = "get"
    BY <1>14 DEF Get
  <2>2. /\ req' \in [Devices -> Request] /\ OthersWait(d) /\ req'[d].key = req[d].key
        /\ req'[d].pc \in {"drop", "done"}
    BY <1>1, <1>14, FinishMoves, DropMoves DEF Get, Results
  <2> QED
    BY <1>1, <1>3, <1>4, <1>5, <2>1, <2>2 DEF Downloads, PutPcs
<1>15. CASE DropExpired(d)
  <2>1. req[d].pc = "drop" /\ evicted' = evicted /\ RemoveEntry(d, req[d].key, "done")
    BY <1>15 DEF DropExpired
  <2>2. /\ req' \in [Devices -> Request] /\ OthersWait(d) /\ req'[d].key = req[d].key
        /\ \/ req'[d].pc = "done"
           \/ req'[d].pc = "sub" /\ req'[d].gone \in Keys /\ req'[d].back = "done"
        /\ inner' \in [Keys -> Nat \cup {None}]
        /\ UNCHANGED <<total, now, putAt, puts, overlapped>>
    BY <1>1, <1>3, <2>1, RemoveMoves DEF Pcs
  <2> QED
    BY <1>1, <1>3, <1>4, <1>5, <2>1, <2>2 DEF Downloads, PutPcs
<1> QED
  BY <1>6, <1>7, <1>8, <1>9, <1>10, <1>11, <1>12, <1>13, <1>14, <1>15 DEF Serve

\* The types, the calls and the keys in use, in every step.
LEMMA CallRecords ==
    ASSUME call \in [Devices -> Calls], NEW d \in Devices
    PROVE  /\ NoCall \in Calls /\ NoCall.op = "none"
           /\ \A op \in {"none", "send", "repeat", "lan", "relay"}, k \in Keys, P \in SUBSET Devices :
                 LET c == [op |-> op, key |-> k, peers |-> P]
                 IN  c \in Calls /\ c.op = op /\ c.key = k
           /\ \A P \in SUBSET Devices :
                 LET c == [call[d] EXCEPT !.peers = P]
                 IN  c \in Calls /\ c.op = call[d].op /\ c.key = call[d].key
           /\ LET c == [call[d] EXCEPT !.op = "relay"]
              IN  c \in Calls /\ c.op = "relay" /\ c.key = call[d].key
BY DEF Calls, NoCall

OthersCall(d) == \A e \in Devices : e # d => call'[e] = call[e]

\* A device whose call and request fit each other.
Fits(d) ==
    /\ call[d].op \in {"none", "lan"} => req[d] = Idle
    /\ call[d].op = "none" => call[d] = NoCall
    /\ call[d].op # "none" => call[d].key \in sent
    /\ call[d].op \in {"send", "repeat", "relay"} => req[d].key = call[d].key
    /\ req[d].pc \in PutPcs => call[d].op \in {"send", "repeat"}
    /\ req[d].pc \in {"get", "drop"} => call[d].op = "relay"
    /\ req[d].pc = "sub" =>
          /\ req[d].gone \in Keys
          /\ \/ req[d].back \in {"expire", "room"} /\ call[d].op \in {"send", "repeat"}
             \/ req[d].back = "done" /\ call[d].op = "relay"

LEMMA ServingKept ==
    ASSUME ServingInv, NEW d \in Devices, OthersWait(d), OthersCall(d), sent \subseteq sent', Fits(d)'
    PROVE  ServingInv'
<1>1. ASSUME NEW e \in Devices, e # d
      PROVE  Fits(e)'
  BY ZenonT(60), <1>1 DEF ServingInv, OthersWait, OthersCall, Fits
<1>2. \A e \in Devices : Fits(e)'
  BY <1>1
<1> QED
  BY <1>2, Zenon DEF ServingInv, Fits

LEMMA TypesKept ==
    ASSUME StoreTypeOK', call' \in [Devices -> Calls], announced' \subseteq sent',
           sent' \subseteq Keys
    PROVE  TInv'
BY DEF TInv

\* How a device's call changes while the store does not.
LEMMA SendStep ==
    ASSUME TInv, ServingInv, SentInv, NEW d \in Devices, NEW k \in Keys,
           SendImage(d, k) \/ Repeat(d, k)
    PROVE  /\ TInv' /\ ServingInv' /\ SentInv'
           /\ OthersWait(d) /\ OthersCall(d) /\ PutArrives(d, k) /\ announced' = announced
           /\ call[d] = NoCall /\ call'[d].key = k /\ call'[d].op \in {"send", "repeat"}
           /\ req'[d].pc = "contains"
           /\ SendImage(d, k) => k \notin sent
           /\ Repeat(d, k) => k \in sent
<1> USE DEF TInv
<1>1. req \in [Devices -> Request] /\ puts \in [Keys -> Nat]
  BY Stored
<1>2. /\ PutArrives(d, k) /\ call[d] = NoCall /\ announced' = announced
  BY DEF SendImage, Repeat
<1>3. PICK op \in {"send", "repeat"} :
         call' = [call EXCEPT ![d] = [op |-> op, key |-> k, peers |-> {}]]
  BY DEF SendImage, Repeat
<1>4. /\ k \in sent' /\ sent' = sent \cup {k}
      /\ SendImage(d, k) => k \notin sent
      /\ Repeat(d, k) => k \in sent
  BY DEF SendImage, Repeat
<1>5. /\ call' \in [Devices -> Calls] /\ OthersCall(d)
      /\ call'[d].op = op /\ call'[d].key = k
  <2> DEFINE c == [op |-> op, key |-> k, peers |-> {}]
  <2>1. c \in Calls /\ c.op = op /\ c.key = k
    BY CallRecords
  <2>2. call' = [call EXCEPT ![d] = c]
    BY <1>3
  <2> HIDE DEF c
  <2> QED
    BY <2>1, <2>2 DEF OthersCall
<1>6. /\ req' \in [Devices -> Request] /\ OthersWait(d)
      /\ req'[d].pc = "contains" /\ req'[d].key = k
      /\ puts' \in [Keys -> Nat] /\ puts'[k] = puts[k] + 1
      /\ \A j \in Keys : j # k => puts'[j] = puts[j]
      /\ UNCHANGED <<inner, total, now, putAt, evicted, overlapped>>
  BY <1>1, <1>2, ArriveMoves
<1>7. StoreTypeOK'
  BY <1>6, Stored, StoredNext DEF StoreTypeOK
<1>8. TInv'
  BY <1>2, <1>4, <1>5, <1>7, TypesKept
<1>9. ServingInv'
  <2>1. Fits(d)'
    BY <1>4, <1>5, <1>6 DEF Fits, PutPcs
  <2> QED
    BY <1>4, <1>5, <1>6, <2>1, ServingKept
<1>10. SentInv'
  <2>1. ASSUME NEW j \in Keys
        PROVE  j \in sent' <=> puts'[j] >= 1
    <3>1. (j \in sent <=> puts[j] >= 1) /\ puts[j] \in Nat
      BY <1>1 DEF SentInv
    <3>2. CASE j = k
      BY <1>4, <1>6, <3>1, <3>2
    <3>3. CASE j # k
      BY <1>4, <1>6, <3>1, <3>3
    <3> QED
      BY <3>2, <3>3
  <2> QED
    BY <2>1 DEF SentInv
<1> QED
  BY <1>2, <1>4, <1>5, <1>6, <1>8, <1>9, <1>10

LEMMA ReturnStep ==
    ASSUME TInv, ServingInv, NEW d \in Devices, Returns(d), announced' \subseteq sent
    PROVE  /\ TInv' /\ ServingInv'
           /\ OthersWait(d) /\ OthersCall(d) /\ call'[d].op = "none" /\ req'[d] = Idle
           /\ UNCHANGED <<inner, now, putAt, puts, evicted, sent>>
<1> USE DEF TInv
<1>1. req \in [Devices -> Request]
  BY Stored
<1>2. /\ call' = [call EXCEPT ![d] = NoCall] /\ req' = [req EXCEPT ![d] = Idle]
      /\ UNCHANGED <<inner, total, now, putAt, puts, evicted, overlapped, sent>>
  BY DEF Returns
<1>3. /\ call' \in [Devices -> Calls] /\ OthersCall(d) /\ call'[d] = NoCall
  BY <1>2, CallRecords DEF OthersCall
<1>4. req' \in [Devices -> Request] /\ OthersWait(d) /\ req'[d] = Idle
  BY <1>1, <1>2, IdleIsRequest DEF OthersWait
<1>5. StoreTypeOK'
  BY <1>2, <1>4, Stored, StoredNext DEF StoreTypeOK
<1>6. TInv'
  BY <1>2, <1>3, <1>5, TypesKept
<1>7. ServingInv'
  <2>1. Fits(d)'
    BY <1>3, <1>4, CallRecords, IdleIsRequest DEF Fits, PutPcs
  <2> QED
    BY <1>2, <1>3, <1>4, <2>1, ServingKept
<1> QED
  BY <1>2, <1>3, <1>4, <1>6, <1>7, CallRecords

\* A fetch before it reaches the relay.
LEMMA FetchStep ==
    ASSUME TInv, ServingInv, NEW d \in Devices,
           \/ \E k \in Keys : FetchImage(d, k)
           \/ \E p \in Devices : FetchLanHit(d, p) \/ FetchLanMiss(d, p)
    PROVE  /\ TInv' /\ ServingInv'
           /\ OthersCall(d) /\ call'[d].op \in {"none", "lan"}
           /\ UNCHANGED <<storeVars, sent, announced>>
<1> USE DEF TInv
<1>1. UNCHANGED <<inner, total, now, req, putAt, puts, evicted, overlapped, sent, announced>>
  BY DEF FetchImage, FetchLanHit, FetchLanMiss, storeVars
<1>2. /\ call' \in [Devices -> Calls] /\ OthersCall(d)
      /\ call'[d] = NoCall \/ (call'[d].op = "lan" /\ call'[d].key \in sent)
      /\ call[d].op \in {"none", "lan"}
  <2>1. ASSUME NEW k \in Keys, FetchImage(d, k)
        PROVE  /\ call' \in [Devices -> Calls] /\ OthersCall(d)
               /\ call'[d].op = "lan" /\ call'[d].key \in sent /\ call[d].op = "none"
    <3>1. /\ call[d] = NoCall /\ k \in sent
          /\ call' = [call EXCEPT ![d] = [op |-> "lan", key |-> k, peers |-> LanPeers[d]]]
      BY <2>1 DEF FetchImage
    <3> DEFINE c == [op |-> "lan", key |-> k, peers |-> LanPeers[d]]
    <3>2. c \in Calls /\ c.op = "lan" /\ c.key = k
      BY ImageAssumption, CallRecords
    <3>3. call' = [call EXCEPT ![d] = c]
      BY <3>1
    <3> HIDE DEF c
    <3>4. call' \in [Devices -> Calls] /\ OthersCall(d) /\ call'[d] = c
      BY <3>2, <3>3 DEF OthersCall
    <3>5. call[d].op = "none"
      BY <3>1, CallRecords
    <3> QED
      BY <3>1, <3>2, <3>4, <3>5
  <2>2. ASSUME NEW p \in Devices, FetchLanHit(d, p)
        PROVE  /\ call' \in [Devices -> Calls] /\ OthersCall(d)
               /\ call'[d] = NoCall /\ call[d].op = "lan"
    BY <2>2, CallRecords DEF FetchLanHit, OthersCall
  <2>3. ASSUME NEW p \in Devices, FetchLanMiss(d, p)
        PROVE  /\ call' \in [Devices -> Calls] /\ OthersCall(d)
               /\ call'[d].op = "lan" /\ call'[d].key \in sent /\ call[d].op = "lan"
    <3>1. call[d].op = "lan" /\ call' = [call EXCEPT ![d].peers = @ \ {p}]
      BY <2>3 DEF FetchLanMiss
    <3>2. PICK P \in SUBSET Devices : P = call[d].peers \ {p}
      BY DEF Calls
    <3> DEFINE c == [call[d] EXCEPT !.peers = P]
    <3>3. c \in Calls /\ c.op = call[d].op /\ c.key = call[d].key
      BY ZenonT(60), CallRecords
    <3>4. call' = [call EXCEPT ![d] = c]
      BY <3>1, <3>2
    <3> HIDE DEF c
    <3> QED
      BY <3>1, <3>3, <3>4 DEF OthersCall, ServingInv
  <2> QED
    BY <2>1, <2>2, <2>3
<1>3. req[d] = Idle
  BY <1>2 DEF ServingInv
<1>4. StoreTypeOK'
  BY <1>1 DEF StoreTypeOK
<1>5. TInv'
  BY <1>1, <1>2, <1>4, TypesKept
<1>6. ServingInv'
  <2>1. Fits(d)'
    BY <1>1, <1>2, <1>3, CallRecords, IdleIsRequest DEF Fits, PutPcs
  <2>2. OthersWait(d)
    BY <1>1 DEF OthersWait
  <2> QED
    BY <1>1, <1>2, <2>1, <2>2, ServingKept
<1> QED
  BY <1>1, <1>2, <1>5, <1>6, CallRecords DEF storeVars

LEMMA RelayFetchStep ==
    ASSUME TInv, ServingInv, NEW d \in Devices, FetchRelay(d)
    PROVE  /\ TInv' /\ ServingInv'
           /\ OthersWait(d) /\ OthersCall(d) /\ call'[d].op = "relay" /\ req'[d].pc = "get"
           /\ UNCHANGED <<inner, now, putAt, puts, evicted, sent, announced>>
<1> USE DEF TInv
<1>1. req \in [Devices -> Request] /\ puts \in [Keys -> Nat]
  BY Stored
<1>2. /\ call[d].op = "lan" /\ GetArrives(d, call[d].key) /\ UNCHANGED <<sent, announced>>
      /\ call' = [call EXCEPT ![d].op = "relay"] /\ call[d].key \in sent
  BY DEF FetchRelay, ServingInv
<1>3. /\ call' \in [Devices -> Calls] /\ OthersCall(d)
      /\ call'[d].op = "relay" /\ call'[d].key = call[d].key
  <2> DEFINE c == [call[d] EXCEPT !.op = "relay"]
  <2>1. c \in Calls /\ c.op = "relay" /\ c.key = call[d].key
    BY CallRecords
  <2>2. call' = [call EXCEPT ![d] = c]
    BY <1>2
  <2> HIDE DEF c
  <2> QED
    BY <2>1, <2>2 DEF OthersCall
<1>4. /\ req' \in [Devices -> Request] /\ OthersWait(d)
      /\ req'[d].pc = "get" /\ req'[d].key = call[d].key
      /\ UNCHANGED <<inner, total, now, putAt, puts, evicted, overlapped>>
  BY <1>1, <1>2, ArriveMoves
<1>5. StoreTypeOK'
  BY <1>4, Stored, StoredNext DEF StoreTypeOK
<1>6. TInv'
  BY <1>2, <1>3, <1>5, TypesKept
<1>7. ServingInv'
  <2>1. Fits(d)'
    BY <1>2, <1>3, <1>4 DEF Fits, PutPcs
  <2> QED
    BY <1>2, <1>3, <1>4, <2>1, ServingKept
<1> QED
  BY <1>2, <1>3, <1>4, <1>6, <1>7

LEMMA RelayStep ==
    ASSUME TInv, ServingInv, NEW d \in Devices, RelayServes(d)
    PROVE  TInv' /\ ServingInv'
<1> USE DEF TInv
<1>1. UNCHANGED <<call, sent, announced>> /\ Serve(d)
  BY DEF RelayServes, clientVars
<1>2. /\ StoreTypeOK' /\ OthersWait(d) /\ req'[d].key = req[d].key
      /\ \/ call[d].op \in {"send", "repeat"} /\ Uploads(d)'
         \/ call[d].op = "relay" /\ Downloads(d)'
  BY <1>1, ServeMoves
<1>3. TInv'
  BY <1>1, <1>2, TypesKept
<1>4. Fits(d)'
  BY <1>1, <1>2 DEF Fits, ServingInv, Uploads, Downloads, PutPcs
<1> QED
  BY <1>1, <1>2, <1>3, <1>4, ServingKept DEF OthersCall

-----------------------------------------------------------------------------
(* The life of a key *)

Answered(d) == req[d].pc = "done" /\ req[d].res = "ok"

\* A step of one request that does not insert this key.
LEMMA OnceKept ==
    ASSUME TInv, NEW k \in Keys, NEW d \in Devices, OnceInv(k), OthersWait(d),
           UNCHANGED <<call, announced, now, puts>>, putAt'[k] = putAt[k],
           Putting(d, k) /\ BeforeInsert(d)' => BeforeInsert(d),
           Putting(d, k) /\ (req'[d].pc = "add" \/ Answered(d)') => putAt[k] # None,
           Condemned(d, k)' => Old(k),
           k \in evicted => k \in evicted',
           \/ inner'[k] = inner[k]
           \/ inner'[k] = None /\ (Old(k) \/ k \in evicted' \/ inner[k] = None)
    PROVE  OnceInv(k)'
<1>1. Old(k)' <=> Old(k)
  BY DEF Old
<1>2. ASSUME NEW e \in Devices
      PROVE  Putting(e, k)' <=> Putting(e, k)
  BY DEF Putting
<1>3. ASSUME NEW e \in Devices, Putting(e, k), BeforeInsert(e)'
      PROVE  putAt'[k] = None /\ k \notin announced'
  <2>1. BeforeInsert(e)
    BY <1>3 DEF OthersWait, BeforeInsert
  <2> QED
    BY <1>3, <2>1 DEF OnceInv
<1>4. ASSUME NEW e \in Devices, Putting(e, k), req'[e].pc = "add" \/ Answered(e)'
      PROVE  putAt'[k] # None
  <2>1. CASE e = d
    BY <1>4, <2>1
  <2>2. CASE e # d
    BY <1>4, <2>2 DEF OthersWait, OnceInv, Answered
  <2> QED
    BY <2>1, <2>2
<1>5. ASSUME NEW e \in Devices, Condemned(e, k)'
      PROVE  Old(k)
  <2>1. CASE e = d
    BY <1>5, <2>1
  <2>2. CASE e # d
    BY <1>5, <2>2 DEF OthersWait, OnceInv, Condemned
  <2> QED
    BY <2>1, <2>2
<1>6. inner'[k] # None => inner'[k] = putAt'[k]
  BY DEF OnceInv
<1>7. putAt'[k] # None /\ ~Old(k) /\ k \notin evicted' => inner'[k] # None
  BY DEF OnceInv
<1> QED
  BY <1>1, <1>2, <1>3, <1>4, <1>5, <1>6, <1>7 DEF OnceInv, Answered

\* The step that inserts it.
LEMMA OnceInserted ==
    ASSUME TInv, ServingInv, NEW d \in Devices, NEW k \in Keys, OnceInv(k), req[d].key = k,
           Insert(d), UNCHANGED clientVars
    PROVE  OnceInv(k)'
<1>1. /\ inner \in [Keys -> Nat \cup {None}] /\ putAt \in [Keys -> Nat \cup {None}]
      /\ req \in [Devices -> Request] /\ now \in Nat
  BY Stored DEF TInv
<1>2. req[d].pc = "insert" /\ (Goto(d, "add") \/ Finish(d, "ok"))
  BY DEF Insert
<1>3. /\ OthersWait(d) /\ req'[d].pc \in {"add", "done"} /\ req'[d].key = k
  BY <1>1, <1>2, GotoMoves, FinishMoves DEF Pcs, Results
<1>4. /\ inner'[k] = now /\ putAt'[k] = now /\ now # None /\ k \notin evicted'
      /\ UNCHANGED <<now, puts, call, announced>>
  BY <1>1, BlobAssumption DEF Insert, clientVars
<1>5. Putting(d, k) /\ BeforeInsert(d)
  BY <1>2 DEF ServingInv, Putting, PutPcs, BeforeInsert
<1>6. putAt[k] = None /\ k \notin announced
  BY <1>5 DEF OnceInv
<1>8. ASSUME NEW e \in Devices, Putting(e, k)'
      PROVE  e = d
  BY <1>4, <1>5, <1>8 DEF OnceInv, Putting
<1>9. ~BeforeInsert(d)'
  BY <1>3 DEF BeforeInsert
<1>10. ASSUME NEW e \in Devices
       PROVE  ~Condemned(e, k)'
  <2>1. ~Condemned(e, k)
    BY <1>6 DEF OnceInv, Old
  <2>2. CASE e = d
    BY <1>3, <2>2 DEF Condemned
  <2>3. CASE e # d
    BY <1>3, <2>1, <2>3 DEF Condemned, OthersWait
  <2> QED
    BY <2>2, <2>3
<1>11. \A e \in Devices : Putting(e, k)' => puts'[k] >= 1
  BY <1>4 DEF OnceInv, Putting
<1>12. puts'[k] # 0
  BY <1>4, <1>5 DEF OnceInv
<1> QED
  BY <1>4, <1>6, <1>8, <1>9, <1>10, <1>11, <1>12 DEF OnceInv

\* What a device does on its own side.
LEMMA OnceElsewhere ==
    ASSUME TInv, NEW k \in Keys, NEW d \in Devices, OnceInv(k), OthersWait(d), OthersCall(d),
           UNCHANGED <<inner, now, putAt, evicted>>, puts'[k] = puts[k],
           ~Putting(d, k)', ~Condemned(d, k)',
           k \in announced' => k \in announced
    PROVE  OnceInv(k)'
<1>1. ASSUME NEW e \in Devices, Putting(e, k)'
      PROVE  e # d /\ Putting(e, k) /\ req'[e] = req[e]
  BY <1>1 DEF OthersWait, OthersCall, Putting
<1>2. ASSUME NEW e \in Devices, Condemned(e, k)'
      PROVE  Old(k)'
  <2>1. e # d /\ Condemned(e, k)
    BY <1>2 DEF OthersWait, Condemned
  <2> QED
    BY <2>1 DEF OnceInv, Old
<1>3. ASSUME NEW e \in Devices, Putting(e, k)'
      PROVE  /\ puts'[k] >= 1
             /\ BeforeInsert(e)' => putAt'[k] = None /\ k \notin announced'
             /\ req'[e].pc = "add" \/ (req'[e].pc = "done" /\ req'[e].res = "ok") =>
                   putAt'[k] # None
  <2>1. e # d /\ Putting(e, k) /\ req'[e] = req[e]
    BY <1>1, <1>3
  <2> QED
    BY <2>1 DEF OnceInv, BeforeInsert
<1>4. \A e, f \in Devices : Putting(e, k)' /\ Putting(f, k)' => e = f
  BY <1>1 DEF OnceInv
<1>5. /\ puts'[k] = 0 => putAt'[k] = None /\ k \notin announced'
      /\ inner'[k] # None => inner'[k] = putAt'[k]
      /\ putAt'[k] # None /\ ~Old(k)' /\ k \notin evicted' => inner'[k] # None
      /\ k \in announced' => putAt'[k] # None
  BY DEF OnceInv, Old
<1> QED
  BY <1>2, <1>3, <1>4, <1>5 DEF OnceInv

\* A step of the relay keeps it.
LEMMA OnceServed ==
    ASSUME TInv, ServingInv, NEW d \in Devices, NEW k \in Keys, OnceInv(k), RelayServes(d)
    PROVE  OnceInv(k)'
<1>1. /\ inner \in [Keys -> Nat \cup {None}] /\ putAt \in [Keys -> Nat \cup {None}]
      /\ req \in [Devices -> Request] /\ now \in Nat
      /\ req[d].todo \subseteq Keys
  BY Stored DEF TInv, Request
<1>2. /\ UNCHANGED <<call, announced, now, puts>> /\ Serve(d) /\ OthersWait(d)
      /\ req[d].key \in Keys
  <2>1. Serve(d) /\ UNCHANGED <<call, announced>>
    BY DEF RelayServes, clientVars
  <2> QED
    BY <2>1, ServeMoves
<1>3. Putting(d, k) => req[d].key = k
  BY DEF Putting, ServingInv
<1>4. inner[k] # None /\ now - inner[k] >= TTL => Old(k)
  BY DEF OnceInv, Old
<1>5. ASSUME putAt'[k] = putAt[k],
             Putting(d, k) /\ BeforeInsert(d)' => BeforeInsert(d),
             Putting(d, k) /\ (req'[d].pc = "add" \/ Answered(d)') => putAt[k] # None,
             Condemned(d, k)' => Old(k),
             k \in evicted => k \in evicted',
             \/ inner'[k] = inner[k]
             \/ inner'[k] = None /\ (Old(k) \/ k \in evicted' \/ inner[k] = None)
      PROVE  OnceInv(k)'
  BY <1>2, <1>5, OnceKept
<1>6. CASE PutChecks(d)
  <2>1. /\ UNCHANGED <<inner, putAt, evicted>> /\ req[d].pc = "contains"
        /\ \/ Finish(d, "rejected")
           \/ inner[req[d].key] # None /\ Finish(d, "ok")
           \/ Goto(d, "expired")
    BY <1>6 DEF PutChecks
  <2>2. ~Condemned(d, k)' /\ BeforeInsert(d) /\ req'[d].pc # "add"
    BY <1>1, <2>1, FinishMoves, GotoMoves DEF Condemned, BeforeInsert, Pcs, Results
  <2>3. ASSUME Putting(d, k), Answered(d)'
        PROVE  FALSE
    <3>1. inner[k] # None
      BY <1>1, <1>3, <2>1, <2>3, FinishMoves, GotoMoves DEF Answered, Pcs, Results
    <3> QED
      BY <2>2, <2>3, <3>1 DEF OnceInv
  <2> QED
    BY <1>5, <2>1, <2>2, <2>3
<1>7. CASE CollectExpired(d)
  <2>1. /\ UNCHANGED <<inner, putAt, evicted>> /\ req[d].pc = "expired"
        /\ req'[d].pc = "expire" /\ req'[d].todo = {j \in Keys : Expired(j)}
    BY <1>1, <1>7, CollectMoves DEF CollectExpired
  <2>2. Condemned(d, k)' => Old(k)
    BY <1>4, <2>1 DEF Condemned, Expired
  <2>3. BeforeInsert(d) /\ ~Answered(d)' /\ req'[d].pc # "add"
    BY <2>1 DEF BeforeInsert, Answered
  <2> QED
    BY <1>5, <2>1, <2>2, <2>3
<1>8. CASE RemoveExpired(d)
  <2>1. req[d].pc = "expire" /\ BeforeInsert(d) /\ evicted' = evicted
    BY <1>8 DEF RemoveExpired, BeforeInsert
  <2>2. ASSUME NEW j \in req[d].todo, RemoveEntry(d, j, "expire")
        PROVE  OnceInv(k)'
    <3>1. j \in Keys /\ "expire" \in Pcs
      BY <1>1 DEF Pcs
    <3>2. /\ req'[d].pc \in {"sub", "expire"} /\ req'[d].todo \subseteq req[d].todo
          /\ putAt' = putAt /\ inner'[j] = None /\ (k # j => inner'[k] = inner[k])
      BY <1>1, <2>2, <3>1, RemoveMoves
    <3>3. Condemned(d, k)' => Old(k)
      BY <2>1, <3>2 DEF Condemned, OnceInv
    <3>4. k = j => Old(k)
      BY <2>1 DEF Condemned, OnceInv
    <3>5. ~Answered(d)' /\ req'[d].pc # "add"
      BY <3>2 DEF Answered
    <3> QED
      BY <1>5, <2>1, <3>2, <3>3, <3>4, <3>5
  <2>3. ASSUME Goto(d, "room"), UNCHANGED <<inner, putAt>>
        PROVE  OnceInv(k)'
    <3>1. req'[d].pc = "room"
      BY <1>1, <2>3, GotoMoves DEF Pcs
    <3>2. ~Condemned(d, k)' /\ ~Answered(d)' /\ req'[d].pc # "add"
      BY <3>1 DEF Condemned, Answered
    <3> QED
      BY <1>5, <2>1, <2>3, <3>2
  <2> QED
    BY <1>8, <2>2, <2>3 DEF RemoveExpired
<1>9. CASE CheckRoom(d) \/ PickOldest(d)
  <2>1. UNCHANGED <<inner, putAt, evicted>> /\ req[d].pc \in {"room", "oldest"}
    BY <1>9 DEF CheckRoom, PickOldest
  <2>2. req'[d].pc \in {"oldest", "insert"}
    <3>1. CASE Goto(d, "oldest")
      BY <1>1, <3>1, GotoMoves DEF Pcs
    <3>2. CASE LeaveLoop(d)
      BY <1>1, <3>2, GotoMoves DEF Pcs, LeaveLoop
    <3>3. CASE req[d].pc = "oldest" /\ \E j \in Oldest : req' = [req EXCEPT ![d].todo = {j}]
      <4>1. PICK j \in Keys : req' = [req EXCEPT ![d].todo = {j}]
        BY <3>3 DEF Oldest, Present
      <4> QED
        BY <1>1, <3>3, <4>1, TodoMoves
    <3> QED
      BY <1>9, <3>1, <3>2, <3>3 DEF CheckRoom, PickOldest
  <2>3. BeforeInsert(d) /\ ~Condemned(d, k)' /\ ~Answered(d)' /\ req'[d].pc # "add"
    BY <2>1, <2>2 DEF BeforeInsert, Condemned, Answered
  <2> QED
    BY <1>5, <2>1, <2>3
<1>10. CASE EvictOldest(d)
  <2>1. req[d].pc = "oldest" /\ BeforeInsert(d)
    BY <1>10 DEF EvictOldest, BeforeInsert
  <2>2. PICK j \in Keys : /\ RemoveEntry(d, j, "room")
                          /\ evicted' = IF inner[j] # None THEN evicted \cup {j} ELSE evicted
    BY <1>1, <1>10 DEF EvictOldest
  <2>3. /\ req'[d].pc = "room" \/ (req'[d].pc = "sub" /\ req'[d].back = "room")
        /\ putAt' = putAt /\ inner'[j] = None /\ (k # j => inner'[k] = inner[k])
    BY <1>1, <2>2, RemoveMoves DEF Pcs
  <2>4. ~Condemned(d, k)' /\ ~Answered(d)' /\ req'[d].pc # "add"
    BY <2>3 DEF Condemned, Answered
  <2>5. (k \in evicted => k \in evicted') /\ (k = j => k \in evicted' \/ inner[k] = None)
    BY <2>2
  <2> QED
    BY <1>5, <2>1, <2>3, <2>4, <2>5
<1>11. CASE Subtract(d)
  <2>1. UNCHANGED <<inner, putAt, evicted>> /\ req[d].pc = "sub"
    BY <1>11 DEF Subtract
  <2>2. req'[d].pc = req[d].back /\ req'[d].todo = req[d].todo
    BY <1>1, <1>11, SubtractMoves
  <2>3. /\ \/ req[d].back \in {"expire", "room"} /\ call[d].op \in {"send", "repeat"}
           \/ req[d].back = "done" /\ call[d].op = "relay"
    BY <2>1 DEF ServingInv
  <2>4. Condemned(d, k)' => Old(k)
    BY <2>1, <2>2, <2>3 DEF Condemned, OnceInv
  <2>5. Putting(d, k) => BeforeInsert(d) /\ ~Answered(d)' /\ req'[d].pc # "add"
    BY <2>1, <2>2, <2>3 DEF Putting, BeforeInsert, Answered
  <2> QED
    BY <1>5, <2>1, <2>4, <2>5
<1>12. CASE Insert(d)
  <2>1. CASE req[d].key = k
    BY <1>12, <2>1, OnceInserted DEF RelayServes
  <2>2. CASE req[d].key # k
    <3>1. /\ inner'[k] = inner[k] /\ putAt'[k] = putAt[k] /\ (k \in evicted => k \in evicted')
          /\ Goto(d, "add") \/ Finish(d, "ok")
      BY <1>1, <1>12, <2>2 DEF Insert
    <3>2. req'[d].pc \in {"add", "done"}
      BY <1>1, <3>1, GotoMoves, FinishMoves DEF Pcs, Results
    <3>3. ~Putting(d, k) /\ ~Condemned(d, k)'
      BY <1>3, <2>2, <3>2 DEF Condemned
    <3> QED
      BY <1>5, <3>1, <3>3
  <2> QED
    BY <2>1, <2>2
<1>13. CASE Add(d)
  <2>1. UNCHANGED <<inner, putAt, evicted>> /\ req[d].pc = "add" /\ Finish(d, "ok")
    BY <1>13 DEF Add
  <2>2. req'[d].pc = "done"
    BY <1>1, <2>1, FinishMoves DEF Results
  <2>3. ~Condemned(d, k)' /\ ~BeforeInsert(d)'
    BY <2>2 DEF Condemned, BeforeInsert
  <2>4. Putting(d, k) => putAt[k] # None
    BY <2>1 DEF OnceInv
  <2> QED
    BY <1>5, <2>1, <2>3, <2>4
<1>14. CASE Get(d)
  <2>1. UNCHANGED <<inner, putAt, evicted>> /\ req[d].pc = "get"
    BY <1>14 DEF Get
  <2>2. \/ req'[d].pc = "done"
        \/ req'[d].pc = "drop" /\ req'[d].key = req[d].key /\ Expired(req[d].key)
    BY <1>1, <1>14, FinishMoves, DropMoves DEF Get, Results
  <2>3. ~Putting(d, k)
    BY <2>1 DEF ServingInv, Putting
  <2>4. Condemned(d, k)' => Old(k)
    BY <1>4, <2>2 DEF Condemned, Expired
  <2> QED
    BY <1>5, <2>1, <2>3, <2>4
<1>15. CASE DropExpired(d)
  <2>1. req[d].pc = "drop" /\ evicted' = evicted /\ RemoveEntry(d, req[d].key, "done")
    BY <1>15 DEF DropExpired
  <2>2. /\ req'[d].pc = "done" \/ (req'[d].pc = "sub" /\ req'[d].back = "done")
        /\ putAt' = putAt /\ inner'[req[d].key] = None
        /\ k # req[d].key => inner'[k] = inner[k]
    BY <1>1, <1>2, <2>1, RemoveMoves DEF Pcs
  <2>3. ~Condemned(d, k)'
    BY <2>2 DEF Condemned
  <2>4. ~Putting(d, k)
    BY <2>1 DEF ServingInv, Putting
  <2>5. k = req[d].key => Old(k)
    BY <2>1 DEF Condemned, OnceInv
  <2> QED
    BY <1>5, <2>1, <2>2, <2>3, <2>4, <2>5
<1> QED
  BY <1>2, <1>6, <1>7, <1>8, <1>9, <1>10, <1>11, <1>12, <1>13, <1>14, <1>15 DEF Serve

\* A step of a device keeps it; a second PUT ends it.
LEMMA OnceCalled ==
    ASSUME IInv, NEW d \in Devices, NEW k \in Keys, puts'[k] <= 1,
           \/ \E j \in Keys : SendImage(d, j) \/ Repeat(d, j) \/ FetchImage(d, j)
           \/ \E p \in Devices : FetchLanHit(d, p) \/ FetchLanMiss(d, p)
           \/ Uploaded(d) \/ UploadFails(d) \/ FetchRelay(d) \/ FetchDone(d)
    PROVE  OnceInv(k)'
<1> USE DEF IInv
<1>1. puts \in [Keys -> Nat] /\ req \in [Devices -> Request]
  BY Stored DEF TInv
<1>2. CASE Uploaded(d) \/ UploadFails(d) \/ FetchDone(d)
  <2>1. Returns(d) /\ announced' \subseteq sent
    BY <1>2 DEF Uploaded, UploadFails, FetchDone, ServingInv, TInv
  <2>2. /\ OthersWait(d) /\ OthersCall(d) /\ call'[d].op = "none" /\ req'[d] = Idle
        /\ UNCHANGED <<inner, now, putAt, puts, evicted, sent>>
    BY <2>1, ReturnStep
  <2>3. OnceInv(k)
    BY <2>2
  <2>4. ~Putting(d, k)' /\ ~Condemned(d, k)'
    BY <2>2, IdleIsRequest DEF Putting, Condemned
  <2>5. CASE k \in announced' => k \in announced
    BY <2>2, <2>3, <2>4, <2>5, OnceElsewhere
  <2>6. CASE k \in announced' /\ k \notin announced
    <3>1. call[d].op = "send" /\ call[d].key = k /\ Answered(d)
      BY <1>2, <2>6 DEF Uploaded, UploadFails, FetchDone, Answered
    <3>2. putAt[k] # None /\ puts[k] >= 1
      BY <2>3, <3>1 DEF OnceInv, Putting, Answered
    <3>3. ASSUME NEW e \in Devices
          PROVE  ~Putting(e, k)'
      <4>1. CASE e = d
        BY <2>4, <4>1
      <4>2. CASE e # d
        BY <2>2, <2>3, <3>1, <4>2 DEF OnceInv, Putting, OthersCall
      <4> QED
        BY <4>1, <4>2
    <3>4. ASSUME NEW e \in Devices, Condemned(e, k)'
          PROVE  Old(k)'
      <4>1. e # d /\ Condemned(e, k)
        BY <2>2, <2>4, <3>4 DEF OthersWait, Condemned
      <4> QED
        BY <2>2, <2>3, <4>1 DEF OnceInv, Old
    <3>5. /\ puts'[k] # 0 /\ (k \in announced' => putAt'[k] # None)
          /\ inner'[k] # None => inner'[k] = putAt'[k]
          /\ putAt'[k] # None /\ ~Old(k)' /\ k \notin evicted' => inner'[k] # None
      BY <1>1, <2>2, <2>3, <3>2 DEF OnceInv, Old
    <3> QED
      BY <3>3, <3>4, <3>5 DEF OnceInv
  <2> QED
    BY <2>5, <2>6
<1>3. CASE FetchRelay(d)
  <2>1. /\ OthersWait(d) /\ OthersCall(d) /\ call'[d].op = "relay" /\ req'[d].pc = "get"
        /\ UNCHANGED <<inner, now, putAt, puts, evicted, sent, announced>>
    BY <1>3, RelayFetchStep
  <2>2. OnceInv(k) /\ ~Putting(d, k)' /\ ~Condemned(d, k)'
    BY <2>1 DEF Putting, Condemned
  <2> QED
    BY <2>1, <2>2, OnceElsewhere
<1>4. CASE \/ \E j \in Keys : FetchImage(d, j)
           \/ \E p \in Devices : FetchLanHit(d, p) \/ FetchLanMiss(d, p)
  <2>1. /\ OthersCall(d) /\ call'[d].op \in {"none", "lan"} /\ ServingInv'
        /\ UNCHANGED <<storeVars, sent, announced>>
    BY <1>4, FetchStep
  <2>2. /\ UNCHANGED <<inner, now, putAt, puts, evicted>> /\ OthersWait(d)
        /\ req'[d] = Idle
    BY <2>1 DEF storeVars, OthersWait, ServingInv
  <2>3. OnceInv(k) /\ ~Putting(d, k)' /\ ~Condemned(d, k)'
    BY <2>1, <2>2, IdleIsRequest DEF Putting, Condemned
  <2> QED
    BY <2>1, <2>2, <2>3, OnceElsewhere
<1>5. ASSUME NEW j \in Keys, SendImage(d, j) \/ Repeat(d, j)
      PROVE  OnceInv(k)'
  <2>1. /\ OthersWait(d) /\ OthersCall(d) /\ PutArrives(d, j) /\ announced' = announced
        /\ call[d] = NoCall /\ call'[d].key = j /\ call'[d].op \in {"send", "repeat"}
        /\ req'[d].pc = "contains"
        /\ SendImage(d, j) => j \notin sent
        /\ Repeat(d, j) => j \in sent
    BY <1>5, SendStep
  <2>2. /\ puts'[j] = puts[j] + 1 /\ \A i \in Keys : i # j => puts'[i] = puts[i]
        /\ UNCHANGED <<inner, now, putAt, evicted>>
    BY <1>1, <2>1, ArriveMoves
  <2>3. ~Condemned(d, k)'
    BY <2>1 DEF Condemned
  <2>4. CASE k # j
    <3>1. OnceInv(k) /\ ~Putting(d, k)'
      BY <2>1, <2>2, <2>4 DEF Putting
    <3> QED
      BY <2>1, <2>2, <2>3, <2>4, <3>1, OnceElsewhere
  <2>5. CASE k = j
    <3>1. puts[k] = 0
      BY <1>1, <2>2, <2>5
    <3>2. OnceInv(k) /\ puts'[k] = 1
      BY <1>1, <2>2, <2>5, <3>1
    <3>3. \A e \in Devices : ~Putting(e, k)
      BY <3>1, <3>2 DEF OnceInv
    <3>4. putAt[k] = None /\ k \notin announced /\ inner[k] = None
      BY <3>1, <3>2 DEF OnceInv
    <3>5. ASSUME NEW e \in Devices, Putting(e, k)'
          PROVE  e = d
      BY <2>1, <3>3, <3>5 DEF Putting, OthersCall
    <3>6. ASSUME NEW e \in Devices
          PROVE  ~Condemned(e, k)'
      <4>1. ~Condemned(e, k)
        BY <3>2, <3>4 DEF OnceInv, Old
      <4> QED
        BY <2>1, <2>3, <4>1 DEF OthersWait, Condemned
    <3>7. /\ putAt'[k] = None /\ k \notin announced' /\ inner'[k] = None
          /\ req'[d].pc # "add" /\ req'[d].pc # "done"
      BY <2>1, <2>2, <3>4
    <3> QED
      BY <3>2, <3>5, <3>6, <3>7 DEF OnceInv
  <2> QED
    BY <2>4, <2>5
<1> QED
  BY <1>2, <1>3, <1>4, <1>5

-----------------------------------------------------------------------------
(* The theorem *)

LEMMA Initially == ImageInit => IInv
<1> SUFFICES ASSUME ImageInit
             PROVE  IInv
  OBVIOUS
<1>1. /\ inner = [k \in Keys |-> None] /\ total = 0 /\ now = 0
      /\ req = [d \in Devices |-> Idle] /\ putAt = [k \in Keys |-> None]
      /\ puts = [k \in Keys |-> 0] /\ evicted = {} /\ overlapped = FALSE
      /\ call = [d \in Devices |-> NoCall] /\ sent = {} /\ announced = {}
  BY DEF ImageInit, StoreInit, Devices
<1>2. StoreTypeOK
  <2>1. req \in [Devices -> Request]
    BY <1>1, IdleIsRequest
  <2>2. total \in 0..(WORD - 1)
    BY <1>1, WordFacts
  <2> QED
    BY <1>1, <2>1, <2>2 DEF StoreTypeOK, Devices
<1>3. TInv
  <2>1. NoCall \in Calls
    BY DEF NoCall, Calls
  <2> QED
    BY <1>1, <1>2, <2>1 DEF TInv
<1>4. ServingInv
  BY <1>1, IdleIsRequest DEF ServingInv, NoCall, PutPcs
<1>5. SentInv
  BY <1>1 DEF SentInv
<1>6. ASSUME NEW k \in Keys
      PROVE  OnceInv(k)
  <2>1. \A d \in Devices : ~Putting(d, k) /\ ~Condemned(d, k)
    BY <1>1, IdleIsRequest DEF Putting, Condemned, NoCall
  <2> QED
    BY <1>1, <2>1 DEF OnceInv
<1> QED
  BY <1>3, <1>4, <1>5, <1>6 DEF IInv

LEMMA Inductive == IInv /\ [ImageNext]_imageVars => IInv'
<1> SUFFICES ASSUME IInv, [ImageNext]_imageVars
             PROVE  IInv'
  OBVIOUS
<1> USE DEF IInv
<1>1. puts \in [Keys -> Nat] /\ now \in Nat
  BY Stored DEF TInv
<1>2. CASE StoreTick /\ UNCHANGED clientVars
  <2>1. /\ now' = now + 1
        /\ UNCHANGED <<inner, total, req, putAt, puts, evicted, overlapped>>
        /\ UNCHANGED <<call, sent, announced>>
    BY <1>2 DEF StoreTick, clientVars
  <2>2. TInv'
    BY <1>1, <2>1, Stored, StoredNext DEF TInv, StoreTypeOK
  <2>3. ServingInv' /\ SentInv'
    BY <2>1 DEF ServingInv, SentInv
  <2>4. ASSUME NEW k \in Keys, puts'[k] <= 1
        PROVE  OnceInv(k)'
    <3>1. OnceInv(k)
      BY <2>1, <2>4
    <3>2. Old(k) => Old(k)'
      <4>1. putAt[k] \in Nat \cup {None}
        BY Stored DEF TInv
      <4> QED
        BY <1>1, <2>1, <4>1, BlobAssumption DEF Old
    <3>3. \A d \in Devices : /\ Putting(d, k)' <=> Putting(d, k)
                             /\ BeforeInsert(d)' <=> BeforeInsert(d)
                             /\ Condemned(d, k)' <=> Condemned(d, k)
      BY <2>1 DEF Putting, BeforeInsert, Condemned
    <3> QED
      BY <2>1, <3>1, <3>2, <3>3 DEF OnceInv
  <2> QED
    BY <2>2, <2>3, <2>4
<1>3. ASSUME NEW d \in Devices, RelayServes(d)
      PROVE  IInv'
  <2>1. TInv' /\ ServingInv'
    BY <1>3, RelayStep
  <2>2. UNCHANGED <<puts, sent>>
    BY <1>3, ServeMoves DEF RelayServes, clientVars
  <2>3. SentInv'
    BY <2>2 DEF SentInv
  <2>4. ASSUME NEW k \in Keys, puts'[k] <= 1
        PROVE  OnceInv(k)'
    BY <1>3, <2>2, <2>4, OnceServed
  <2> QED
    BY <2>1, <2>3, <2>4
<1>4. ASSUME NEW d \in Devices,
             \/ \E j \in Keys : SendImage(d, j) \/ Repeat(d, j) \/ FetchImage(d, j)
             \/ \E p \in Devices : FetchLanHit(d, p) \/ FetchLanMiss(d, p)
             \/ Uploaded(d) \/ UploadFails(d) \/ FetchRelay(d) \/ FetchDone(d)
      PROVE  IInv'
  <2>1. CASE Uploaded(d) \/ UploadFails(d) \/ FetchDone(d)
    <3>1. Returns(d) /\ announced' \subseteq sent
      BY <2>1 DEF Uploaded, UploadFails, FetchDone, ServingInv, TInv
    <3>2. TInv' /\ ServingInv' /\ UNCHANGED <<puts, sent>>
      BY <3>1, ReturnStep
    <3>3. SentInv'
      BY <3>2 DEF SentInv
    <3> QED
      BY <1>4, <3>2, <3>3, OnceCalled
  <2>2. CASE FetchRelay(d)
    <3>1. TInv' /\ ServingInv' /\ UNCHANGED <<puts, sent>>
      BY <2>2, RelayFetchStep
    <3>2. SentInv'
      BY <3>1 DEF SentInv
    <3> QED
      BY <1>4, <3>1, <3>2, OnceCalled
  <2>3. CASE \/ \E j \in Keys : FetchImage(d, j)
             \/ \E p \in Devices : FetchLanHit(d, p) \/ FetchLanMiss(d, p)
    <3>1. TInv' /\ ServingInv' /\ UNCHANGED <<puts, sent>>
      BY <2>3, FetchStep DEF storeVars
    <3>2. SentInv'
      BY <3>1 DEF SentInv
    <3> QED
      BY <1>4, <3>1, <3>2, OnceCalled
  <2>4. ASSUME NEW j \in Keys, SendImage(d, j) \/ Repeat(d, j)
        PROVE  IInv'
    <3>1. TInv' /\ ServingInv' /\ SentInv'
      BY <2>4, SendStep
    <3> QED
      BY <1>4, <3>1, OnceCalled
  <2> QED
    BY <1>4, <2>1, <2>2, <2>3, <2>4
<1>5. CASE UNCHANGED imageVars
  <2>1. UNCHANGED <<inner, total, now, req, putAt, puts, evicted, overlapped, call, sent, announced>>
    BY <1>5 DEF imageVars, storeVars
  <2>2. TInv'
    BY <2>1 DEF TInv, StoreTypeOK
  <2>3. ServingInv' /\ SentInv'
    BY <2>1 DEF ServingInv, SentInv
  <2>4. ASSUME NEW k \in Keys
        PROVE  OnceInv(k)' <=> OnceInv(k)
    BY <2>1 DEF OnceInv, Putting, BeforeInsert, Condemned, Old
  <2> QED
    BY <2>1, <2>2, <2>3, <2>4
<1> QED
  BY <1>2, <1>3, <1>4, <1>5 DEF ImageNext

\* send_image announces an image only when its upload has been answered, and no
\* removal of what has expired takes a blob that has not: whatever else the
\* store serves, the announced image is there until it is too old or evicted.
THEOREM AnnouncedIsStoredHolds == ImageSpec => []AnnouncedIsStored
<1>1. IInv => AnnouncedIsStored
  <2> SUFFICES ASSUME IInv, NEW k \in announced, puts[k] = 1,
                      putAt[k] = None \/ now - putAt[k] < TTL, k \notin evicted
               PROVE  inner[k] # None
    BY DEF AnnouncedIsStored
  <2>1. k \in Keys
    BY DEF IInv, TInv
  <2>2. OnceInv(k)
    BY <2>1 DEF IInv
  <2>3. now \in Nat /\ putAt[k] \in Nat \cup {None} /\ TTL \in Nat
    BY <2>1, Stored, BlobAssumption DEF IInv, TInv
  <2>4. putAt[k] # None /\ ~Old(k)
    BY <2>2, <2>3 DEF OnceInv, Old
  <2> QED
    BY <2>2, <2>4 DEF OnceInv
<1>2. ImageSpec => []IInv
  BY Initially, Inductive, PTL DEF ImageSpec
<1> QED
  BY <1>1, <1>2, PTL

-----------------------------------------------------------------------------
(* Sums and the counter's arithmetic *)

Units(f, S) == UNION {{x} \X (1..f[x]) : x \in S}

LEMMA UnitsFinite ==
    ASSUME NEW S, IsFiniteSet(S), NEW f, \A x \in S : f[x] \in Nat
    PROVE  IsFiniteSet(Units(f, S))
<1> DEFINE g == [x \in S |-> {x} \X (1..f[x])]
           T == {g[x] : x \in S}
<1>1. g \in Surjection(S, T)
  BY DEF Surjection
<1>2. IsFiniteSet(T)
  BY <1>1, FS_Surjection
<1>3. ASSUME NEW x \in S
      PROVE  IsFiniteSet({x} \X (1..f[x]))
  <2>1. IsFiniteSet({x})
    BY FS_Singleton
  <2>2. 1 \in Int /\ f[x] \in Int
    OBVIOUS
  <2>3. IsFiniteSet(1..f[x])
    BY <2>2, FS_Interval
  <2> QED
    BY <2>1, <2>3, FS_Product
<1>4. Units(f, S) = UNION T
  BY DEF Units
<1>5. \A t \in T : IsFiniteSet(t)
  BY <1>3
<1> HIDE DEF T
<1> QED
  BY <1>2, <1>4, <1>5, FS_UNION

\* A sum over one element more.
LEMMA SumGrows ==
    ASSUME NEW S, IsFiniteSet(S), NEW x, x \notin S, NEW f, NEW g,
           \A y \in S : f[y] \in Nat /\ g[y] = f[y], g[x] \in Nat
    PROVE  /\ SumOf(f, S) \in Nat
           /\ SumOf(g, S \cup {x}) = SumOf(f, S) + g[x]
<1> DEFINE U == Units(f, S)
           V == {x} \X (1..g[x])
<1>1. IsFiniteSet(U) /\ Cardinality(U) \in Nat /\ SumOf(f, S) = Cardinality(U)
  BY UnitsFinite, FS_CardinalityType DEF SumOf, Units
<1>2. IsFiniteSet(V) /\ Cardinality(V) = g[x]
  <2>1. IsFiniteSet({x}) /\ Cardinality({x}) = 1
    BY FS_Singleton
  <2>2. IsFiniteSet(1..g[x]) /\ Cardinality(1..g[x]) = g[x]
    BY SMTT(30), FS_Interval
  <2>3. IsFiniteSet(V) /\ Cardinality(V) = Cardinality({x}) * Cardinality(1..g[x])
    BY <2>1, <2>2, FS_Product
  <2> QED
    BY <2>1, <2>2, <2>3
<1>3. U \cap V = {}
  BY DEF Units
<1>4. Units(g, S \cup {x}) = U \cup V
  <2>1. ASSUME NEW y \in S
        PROVE  {y} \X (1..g[y]) = {y} \X (1..f[y])
    OBVIOUS
  <2>2. {{y} \X (1..g[y]) : y \in S \cup {x}} = {{y} \X (1..f[y]) : y \in S} \cup {V}
    BY <2>1
  <2> QED
    BY <2>2 DEF Units
<1>5. SumOf(g, S \cup {x}) = Cardinality(U \cup V)
  BY <1>4 DEF SumOf, Units
<1> HIDE DEF U, V
<1>6. Cardinality(U \cup V) = Cardinality(U) + Cardinality(V) - Cardinality(U \cap V)
  BY <1>1, <1>2, FS_Union
<1>7. Cardinality(U \cap V) = 0
  BY <1>3, FS_EmptySet
<1> QED
  BY <1>1, <1>2, <1>5, <1>6, <1>7

\* A sum depends on the values in S only.
LEMMA SumSame ==
    ASSUME NEW S, IsFiniteSet(S), NEW f, NEW g, \A y \in S : f[y] \in Nat /\ g[y] = f[y]
    PROVE  SumOf(f, S) \in Nat /\ SumOf(g, S) = SumOf(f, S)
<1>1. SumOf(f, S) \in Nat
  BY UnitsFinite, FS_CardinalityType DEF SumOf, Units
<1>2. {{y} \X (1..g[y]) : y \in S} = {{y} \X (1..f[y]) : y \in S}
  OBVIOUS
<1> QED
  BY <1>1, <1>2 DEF SumOf

LEMMA SumEmpty == \A f : SumOf(f, {}) = 0
BY FS_EmptySet DEF SumOf

\* As many as there are elements, times the largest.
LEMMA SumBound ==
    ASSUME NEW T, IsFiniteSet(T), NEW S \in SUBSET T, NEW f, NEW m \in Nat,
           \A x \in S : f[x] \in Nat /\ f[x] <= m
    PROVE  SumOf(f, S) <= Cardinality(T) * m
<1> DEFINE B == T \X (1..m)
<1>1. IsFiniteSet(1..m) /\ Cardinality(1..m) = m
  BY FS_Interval
<1>2. IsFiniteSet(B) /\ Cardinality(B) = Cardinality(T) * m
  BY <1>1, FS_Product
<1>3. Units(f, S) \subseteq B
  <2>1. ASSUME NEW x \in S
        PROVE  {x} \X (1..f[x]) \subseteq B
    OBVIOUS
  <2> QED
    BY <2>1 DEF Units
<1> HIDE DEF B
<1>4. Cardinality(Units(f, S)) <= Cardinality(B)
  BY <1>2, <1>3, FS_Subset
<1> QED
  BY <1>2, <1>4 DEF SumOf, Units

\* Reducing modulo w before adding or subtracting changes nothing.
LEMMA OneRest ==
    ASSUME NEW p \in Int, NEW q \in Int, NEW w \in Nat \ {0},
           NEW r \in 0..(w - 1), NEW s \in 0..(w - 1), p * w + r = q * w + s
    PROVE  r = s
<1> DEFINE d == p - q
<1>1. d \in Int /\ d * w = s - r
  BY SMT
<1> HIDE DEF d
<1>2. ~(d >= 1)
  <2> SUFFICES ASSUME d >= 1
               PROVE  FALSE
    OBVIOUS
  <2>1. (d - 1) * w >= 0 /\ (d - 1) * w = d * w - w
    BY <1>1
  <2> QED
    BY <1>1, <2>1
<1>3. ~(d <= -1)
  <2> SUFFICES ASSUME d <= -1
               PROVE  FALSE
    OBVIOUS
  <2>1. (-1 - d) * w >= 0 /\ (-1 - d) * w = -w - d * w
    BY <1>1
  <2> QED
    BY <1>1, <2>1
<1> QED
  BY <1>1, <1>2, <1>3

LEMMA RestOfRest ==
    ASSUME NEW x \in Int, NEW s \in Int, NEW w \in Nat \ {0}
    PROVE  ((x % w) + s) % w = (x + s) % w
<1> DEFINE y == (x % w) + s
           z == x + s
           p == (x \div w) + (y \div w)
           q == z \div w
<1>1. x = w * (x \div w) + (x % w) /\ x \div w \in Int /\ x % w \in 0..(w - 1)
  OBVIOUS
<1>2. y \in Int /\ z \in Int
  BY <1>1
<1>3. y = w * (y \div w) + (y % w) /\ y \div w \in Int /\ y % w \in 0..(w - 1)
  BY <1>2
<1>4. z = w * q + (z % w) /\ q \in Int /\ z % w \in 0..(w - 1)
  BY <1>2
<1>5. p \in Int /\ p * w = w * (x \div w) + w * (y \div w)
  BY <1>1, <1>3
<1>6. p * w + (y % w) = q * w + (z % w)
  BY <1>1, <1>3, <1>4, <1>5
<1> HIDE DEF y, z, p, q
<1> QED
  BY <1>3, <1>4, <1>5, <1>6, OneRest DEF y, z

LEMMA SmallRest ==
    ASSUME NEW x \in Nat, NEW w \in Nat \ {0}, x < w
    PROVE  x % w = x
OBVIOUS

LEMMA SumMonotone ==
    ASSUME NEW T, IsFiniteSet(T), NEW S \in SUBSET T, NEW f, \A x \in T : f[x] \in Nat
    PROVE  SumOf(f, S) \in Nat /\ SumOf(f, T) \in Nat /\ SumOf(f, S) <= SumOf(f, T)
<1>1. IsFiniteSet(S)
  BY FS_Subset
<1>2. IsFiniteSet(Units(f, T)) /\ IsFiniteSet(Units(f, S))
  BY <1>1, UnitsFinite
<1>3. Units(f, S) \subseteq Units(f, T)
  BY DEF Units
<1>4. Cardinality(Units(f, S)) <= Cardinality(Units(f, T))
  BY <1>2, <1>3, FS_Subset
<1> QED
  BY <1>2, <1>4, FS_CardinalityType DEF SumOf, Units

\* One term changes.
LEMMA SumChanges ==
    ASSUME NEW D, IsFiniteSet(D), NEW d \in D, NEW f \in [D -> Nat], NEW g \in [D -> Nat],
           \A e \in D : e # d => g[e] = f[e]
    PROVE  /\ SumOf(f, D) \in Nat /\ SumOf(g, D) \in Nat
           /\ SumOf(g, D) + f[d] = SumOf(f, D) + g[d]
<1> DEFINE A == D \ {d}
<1>1. IsFiniteSet(A) /\ D = A \cup {d} /\ d \notin A
  BY FS_Subset
<1>2. (\A e \in A : f[e] \in Nat /\ g[e] = f[e]) /\ f[d] \in Nat /\ g[d] \in Nat
  OBVIOUS
<1> HIDE DEF A
<1>3. SumOf(f, A) \in Nat /\ SumOf(f, A \cup {d}) = SumOf(f, A) + f[d]
  BY <1>1, <1>2, SumGrows
<1>4. SumOf(g, A \cup {d}) = SumOf(f, A) + g[d]
  BY <1>1, <1>2, SumGrows
<1> QED
  BY <1>1, <1>2, <1>3, <1>4

-----------------------------------------------------------------------------
(* What a step does to the map and to the counter *)

\* A PUT whose blob was found small enough.
Admitted(d) ==
    \/ req[d].pc \in PutPcs \ {"contains"}
    \/ req[d].pc = "sub" /\ req[d].back \in {"expire", "room"}

\* A PUT that will insert, or has not counted what it inserted.
Landing(d) == req[d].pc \in {"insert", "add"}

\* Neither map nor counter: among these steps, leaving the eviction loop.
Calm(d) ==
    /\ req[d].pc \notin {"sub", "add"} /\ req'[d].pc \notin {"sub", "add"}
    /\ Present' = Present /\ total' = total
    /\ Admitted(d)' => Admitted(d) \/ Size[req[d].key] <= MAX_BLOB
    /\ \/ req'[d].pc # "insert" /\ overlapped' = overlapped
       \/ /\ Admitted(d) /\ req'[d].pc = "insert"
          /\ overlapped' = (overlapped \/ \E u \in Devices : Landing(u))
          /\ ~NoRoom(req[d].key) \/ Present = {}

TakesOut(d) ==
    \E k \in Present :
       /\ Present' = Present \ {k} /\ UNCHANGED <<total, overlapped>>
       /\ req[d].pc \notin {"sub", "add"} /\ req'[d].pc = "sub" /\ req'[d].gone = k
       /\ Admitted(d)' => Admitted(d)

Subtracts(d) ==
    /\ Present' = Present /\ total' = (total - Size[req[d].gone]) % WORD
    /\ req[d].pc = "sub" /\ req'[d].pc \notin {"sub", "add", "insert"}
    /\ Admitted(d)' => Admitted(d)
    /\ UNCHANGED overlapped

PutsIn(d) ==
    /\ req[d].key \notin Present /\ Present' = Present \cup {req[d].key}
    /\ UNCHANGED <<total, overlapped>>
    /\ req[d].pc = "insert" /\ req'[d].pc = "add"

Adds(d) ==
    /\ Present' = Present /\ total' = (total + Size[req[d].key]) % WORD
    /\ req[d].pc = "add" /\ req'[d].pc = "done"
    /\ UNCHANGED overlapped

Counts(d) ==
    /\ OthersWait(d)
    /\ Admitted(d)' => req'[d].key = req[d].key
    /\ Calm(d) \/ TakesOut(d) \/ Subtracts(d) \/ PutsIn(d) \/ Adds(d)

\* remove(k), by whichever request.
LEMMA RemoveCounts ==
    ASSUME TInv, NEW d \in Devices, NEW k \in Keys, NEW back \in {"expire", "room", "done"},
           RemoveEntry(d, k, back), req[d].pc \in {"expire", "oldest", "drop"},
           back # "done" => req[d].pc # "drop"
    PROVE  Counts(d)
<1>1. inner \in [Keys -> Nat \cup {None}] /\ req \in [Devices -> Request] /\ back \in Pcs
  BY Stored DEF TInv, Pcs
<1>2. /\ OthersWait(d)
      /\ req'[d].pc = IF inner[k] # None THEN "sub" ELSE back
      /\ inner[k] # None => req'[d].gone = k
      /\ req'[d].back = back /\ req'[d].key = req[d].key
      /\ inner'[k] = None
      /\ \A j \in Keys : j # k => inner'[j] = inner[j]
      /\ UNCHANGED <<total, overlapped>>
  BY <1>1, RemoveMoves
<1>3. CASE inner[k] # None
  <2>1. k \in Present /\ Present' = Present \ {k}
    BY <1>2, <1>3 DEF Present
  <2> QED
    BY <1>2, <1>3, <2>1 DEF Counts, TakesOut, Admitted, PutPcs
<1>4. CASE inner[k] = None
  <2>1. Present' = Present
    BY <1>2, <1>4 DEF Present
  <2> QED
    BY <1>2, <1>4, <2>1 DEF Counts, Calm, Admitted, PutPcs
<1> QED
  BY <1>3, <1>4

LEMMA ServeCounts ==
    ASSUME TInv, ServingInv, NEW d \in Devices, Serve(d)
    PROVE  Counts(d)
<1>1. /\ inner \in [Keys -> Nat \cup {None}] /\ req \in [Devices -> Request]
      /\ now \in Nat /\ None \notin Nat
  BY Stored, BlobAssumption DEF TInv
<1>2. /\ OthersWait(d) /\ req'[d].key = req[d].key /\ req[d].key \in Keys
      /\ req[d].todo \subseteq Keys
  BY <1>1, ServeMoves DEF Request
<1>3. CASE PutChecks(d)
  <2>1. /\ UNCHANGED <<inner, total, overlapped>> /\ req[d].pc = "contains"
        /\ \/ Finish(d, "rejected") \/ Finish(d, "ok")
           \/ Goto(d, "expired") /\ ~(Size[req[d].key] > MAX_BLOB)
    BY <1>3 DEF PutChecks
  <2>2. \/ req'[d].pc = "done"
        \/ req'[d].pc = "expired" /\ ~(Size[req[d].key] > MAX_BLOB)
    BY <1>1, <2>1, FinishMoves, GotoMoves DEF Pcs, Results
  <2>3. Present' = Present
    BY <2>1 DEF Present
  <2>4. Size[req[d].key] \in Nat /\ MAX_BLOB \in Nat
    BY <1>2, BlobAssumption
  <2> QED
    BY <1>2, <2>1, <2>2, <2>3, <2>4 DEF Counts, Calm, Admitted, PutPcs
<1>4. CASE CollectExpired(d)
  <2>1. UNCHANGED <<inner, total, overlapped>> /\ req[d].pc = "expired"
    BY <1>4 DEF CollectExpired
  <2>2. req'[d].pc = "expire"
    BY <1>1, <1>4, CollectMoves
  <2>3. Present' = Present
    BY <2>1 DEF Present
  <2> QED
    BY <1>2, <2>1, <2>2, <2>3 DEF Counts, Calm, Admitted, PutPcs
<1>5. CASE RemoveExpired(d)
  <2>1. req[d].pc = "expire"
    BY <1>5 DEF RemoveExpired
  <2>2. CASE \E k \in req[d].todo : RemoveEntry(d, k, "expire")
    BY <1>2, <2>1, <2>2, RemoveCounts
  <2>3. CASE Goto(d, "room") /\ UNCHANGED <<inner, total, overlapped>>
    <3>1. req'[d].pc = "room"
      BY <1>1, <2>3, GotoMoves DEF Pcs
    <3>2. Present' = Present
      BY <2>3 DEF Present
    <3> QED
      BY <1>2, <2>1, <2>3, <3>1, <3>2 DEF Counts, Calm, Admitted, PutPcs
  <2> QED
    BY <1>5, <2>2, <2>3 DEF RemoveExpired
<1>6. CASE CheckRoom(d) \/ PickOldest(d)
  <2>1. /\ UNCHANGED <<inner, total>> /\ req[d].pc \in {"room", "oldest"}
    BY <1>6 DEF CheckRoom, PickOldest
  <2>2. Present' = Present
    BY <2>1 DEF Present
  <2>3. CASE UNCHANGED overlapped /\ req'[d].pc = "oldest"
    BY <1>2, <2>1, <2>2, <2>3 DEF Counts, Calm, Admitted, PutPcs
  <2>4. CASE LeaveLoop(d) /\ (~NoRoom(req[d].key) \/ Present = {})
    <3>1. req'[d].pc = "insert"
      BY <1>1, <2>4, GotoMoves DEF LeaveLoop, Pcs
    <3>2. overlapped' = (overlapped \/ \E u \in Devices : Landing(u))
      BY <2>4 DEF LeaveLoop, Devices, Landing
    <3> QED
      BY <1>2, <2>1, <2>2, <2>4, <3>1, <3>2 DEF Counts, Calm, Admitted, PutPcs
  <2>5. CASE CheckRoom(d)
    <3>1. CASE NoRoom(req[d].key)
      <4>1. Goto(d, "oldest") /\ UNCHANGED overlapped
        BY <2>5, <3>1 DEF CheckRoom
      <4>2. req'[d].pc = "oldest"
        BY <1>1, <4>1, GotoMoves DEF Pcs
      <4> QED
        BY <2>3, <4>1, <4>2
    <3>2. CASE ~NoRoom(req[d].key)
      BY <2>4, <2>5, <3>2 DEF CheckRoom
    <3> QED
      BY <3>1, <3>2
  <2>6. CASE PickOldest(d)
    <3>1. CASE \E k \in Oldest : req' = [req EXCEPT ![d].todo = {k}]
      <4>1. PICK k \in Keys : req' = [req EXCEPT ![d].todo = {k}]
        BY <3>1 DEF Oldest, Present
      <4>2. req'[d].pc = "oldest" /\ req[d].pc = "oldest"
        BY <1>1, <2>6, <4>1, TodoMoves DEF PickOldest
      <4>3. UNCHANGED overlapped \/ LeaveLoop(d)
        BY <2>6 DEF PickOldest
      <4>4. ~LeaveLoop(d)
        BY <1>1, <4>2, GotoMoves DEF LeaveLoop, Pcs
      <4> QED
        BY <2>3, <4>2, <4>3, <4>4
    <3>2. CASE Present = {} /\ LeaveLoop(d)
      BY <2>4, <3>2
    <3> QED
      BY <2>6, <3>1, <3>2 DEF PickOldest
  <2> QED
    BY <1>6, <2>5, <2>6
<1>7. CASE EvictOldest(d)
  <2>1. req[d].pc = "oldest" /\ \E k \in req[d].todo : RemoveEntry(d, k, "room")
    BY <1>7 DEF EvictOldest
  <2> QED
    BY <1>2, <2>1, RemoveCounts
<1>8. CASE Subtract(d)
  <2>1. /\ UNCHANGED <<inner, overlapped>> /\ req[d].pc = "sub"
        /\ total' = (total - Size[req[d].gone]) % WORD
    BY <1>8 DEF Subtract
  <2>2. req'[d].pc = req[d].back /\ req[d].back \in {"expire", "room", "done"}
    BY <1>1, <1>8, <2>1, SubtractMoves DEF ServingInv
  <2>3. Present' = Present
    BY <2>1 DEF Present
  <2> QED
    BY <1>2, <2>1, <2>2, <2>3 DEF Counts, Subtracts, Admitted, PutPcs
<1>9. CASE Insert(d)
  <2> DEFINE k == req[d].key
  <2>1. /\ UNCHANGED <<total, overlapped>> /\ req[d].pc = "insert"
        /\ inner' = [inner EXCEPT ![k] = now]
        /\ inner[k] = None => Goto(d, "add")
        /\ inner[k] # None => Finish(d, "ok")
    BY <1>9 DEF Insert
  <2>2. Present' = Present \cup {k}
    BY <1>1, <1>2, <2>1 DEF Present
  <2>3. CASE inner[k] = None
    <3>1. req'[d].pc = "add" /\ k \notin Present
      BY <1>1, <2>1, <2>3, GotoMoves DEF Pcs, Present
    <3> QED
      BY <1>2, <2>1, <2>2, <3>1 DEF Counts, PutsIn
  <2>4. CASE inner[k] # None
    <3>1. req'[d].pc = "done" /\ Present' = Present
      BY <1>1, <1>2, <2>1, <2>2, <2>4, FinishMoves DEF Results, Present
    <3> QED
      BY <1>2, <2>1, <3>1 DEF Counts, Calm, Admitted, PutPcs
  <2> QED
    BY <2>3, <2>4
<1>10. CASE Add(d)
  <2>1. /\ UNCHANGED <<inner, overlapped>> /\ req[d].pc = "add"
        /\ total' = (total + Size[req[d].key]) % WORD /\ Finish(d, "ok")
    BY <1>10 DEF Add
  <2>2. req'[d].pc = "done"
    BY <1>1, <2>1, FinishMoves DEF Results
  <2>3. Present' = Present
    BY <2>1 DEF Present
  <2> QED
    BY <1>2, <2>1, <2>2, <2>3 DEF Counts, Adds, Admitted, PutPcs
<1>11. CASE Get(d)
  <2>1. UNCHANGED <<inner, total, overlapped>> /\ req[d].pc = "get"
    BY <1>11 DEF Get
  <2>2. req'[d].pc \in {"drop", "done"}
    BY <1>1, <1>11, FinishMoves, DropMoves DEF Get, Results
  <2>3. Present' = Present
    BY <2>1 DEF Present
  <2> QED
    BY <1>2, <2>1, <2>2, <2>3 DEF Counts, Calm, Admitted, PutPcs
<1>12. CASE DropExpired(d)
  <2>1. req[d].pc = "drop" /\ RemoveEntry(d, req[d].key, "done")
    BY <1>12 DEF DropExpired
  <2> QED
    BY <1>2, <2>1, RemoveCounts
<1> QED
  BY <1>3, <1>4, <1>5, <1>6, <1>7, <1>8, <1>9, <1>10, <1>11, <1>12 DEF Serve

\* Every other step is calm, or leaves the store and its requests alone.
LEMMA StepCounts ==
    ASSUME IInv, ImageNext
    PROVE  \/ \E d \in Devices : Counts(d)
           \/ UNCHANGED <<inner, req, total, overlapped>>
<1> USE DEF IInv, TInv
<1>1. req \in [Devices -> Request] /\ puts \in [Keys -> Nat]
  BY Stored
<1>2. CASE StoreTick
  BY <1>2 DEF StoreTick
<1>3. ASSUME NEW d \in Devices, RelayServes(d)
      PROVE  Counts(d)
  BY <1>3, ServeCounts DEF RelayServes
<1>4. ASSUME NEW d \in Devices, OthersWait(d), UNCHANGED <<inner, total, overlapped>>,
             req[d].pc \in {"idle", "contains", "done"},
             req'[d].pc \in {"idle", "contains", "get"}
      PROVE  Counts(d)
  <2>1. Present' = Present
    BY <1>4 DEF Present
  <2> QED
    BY <1>4, <2>1 DEF Counts, Calm, Admitted, PutPcs
<1>5. ASSUME NEW d \in Devices, Uploaded(d) \/ UploadFails(d) \/ FetchDone(d)
      PROVE  Counts(d)
  <2>1. Returns(d) /\ req[d].pc \in {"contains", "done"}
    BY <1>5 DEF Uploaded, UploadFails, FetchDone
  <2>2. UNCHANGED <<inner, total, overlapped>> /\ req' = [req EXCEPT ![d] = Idle]
    BY <2>1 DEF Returns
  <2>3. OthersWait(d) /\ req'[d].pc = "idle"
    BY <1>1, <2>2, IdleIsRequest DEF OthersWait
  <2> QED
    BY <1>4, <2>1, <2>2, <2>3
<1>6. ASSUME NEW d \in Devices, FetchRelay(d)
      PROVE  Counts(d)
  <2>1. GetArrives(d, call[d].key) /\ call[d].key \in Keys
    BY <1>6 DEF FetchRelay, ServingInv
  <2>2. /\ req[d].pc = "idle" /\ req'[d].pc = "get" /\ OthersWait(d)
        /\ UNCHANGED <<inner, total, overlapped>>
    BY <1>1, <2>1, ArriveMoves
  <2> QED
    BY <1>4, <2>2
<1>7. ASSUME NEW d \in Devices, NEW k \in Keys, SendImage(d, k) \/ Repeat(d, k)
      PROVE  Counts(d)
  <2>1. PutArrives(d, k)
    BY <1>7 DEF SendImage, Repeat
  <2>2. /\ req[d].pc = "idle" /\ req'[d].pc = "contains" /\ OthersWait(d)
        /\ UNCHANGED <<inner, total, overlapped>>
    BY <1>1, <2>1, ArriveMoves
  <2> QED
    BY <1>4, <2>2
<1>8. ASSUME NEW d \in Devices,
             \/ \E k \in Keys : FetchImage(d, k)
             \/ \E p \in Devices : FetchLanHit(d, p) \/ FetchLanMiss(d, p)
      PROVE  UNCHANGED <<inner, req, total, overlapped>>
  BY <1>8 DEF FetchImage, FetchLanHit, FetchLanMiss, storeVars
<1> QED
  BY <1>2, <1>3, <1>5, <1>6, <1>7, <1>8 DEF ImageNext

-----------------------------------------------------------------------------
(* The counter *)

\* The keys a request works on are keys.
KeysInUse ==
    \A d \in Devices :
       /\ req[d].pc = "sub" => req[d].gone \in Keys
       /\ req[d].pc \in PutPcs => req[d].key \in Keys
       /\ Admitted(d) => req[d].key \in Keys

LEMMA UsesKeys == TInv /\ ServingInv => KeysInUse
<1> SUFFICES ASSUME TInv, ServingInv, NEW d \in Devices
             PROVE  /\ req[d].pc = "sub" => req[d].gone \in Keys
                    /\ req[d].pc \in PutPcs => req[d].key \in Keys
                    /\ Admitted(d) => req[d].key \in Keys
  BY DEF KeysInUse
<1>1. call[d].op \in {"send", "repeat", "relay"} => req[d].key \in Keys
  BY DEF ServingInv, TInv
<1> QED
  BY <1>1 DEF ServingInv, Admitted

Owes(t)   == IF req[t].pc = "sub" THEN Size[req[t].gone] ELSE 0
Misses(t) == IF req[t].pc = "add" THEN Size[req[t].key] ELSE 0

LEMMA RemovedMoves ==
    ASSUME KeysInUse, KeysInUse', NEW d \in Devices, OthersWait(d)
    PROVE  /\ Removed \in Nat /\ Removed' \in Nat /\ Owes(d) \in Nat /\ Owes(d)' \in Nat
           /\ Removed' + Owes(d) = Removed + Owes(d)'
<1> DEFINE f == [t \in Devices |-> Owes(t)]
           g == [t \in Devices |-> Owes(t)']
<1>1. IsFiniteSet(Devices)
  BY BlobAssumption DEF Devices
<1>2. f \in [Devices -> Nat] /\ g \in [Devices -> Nat]
  BY BlobAssumption DEF Owes, KeysInUse, PutPcs
<1>3. \A e \in Devices : e # d => g[e] = f[e]
  BY DEF OthersWait, Owes
<1>4. Removed = SumOf(f, Devices) /\ Removed' = SumOf(g, Devices)
  BY DEF Removed, Owes, Devices
<1>5. f[d] = Owes(d) /\ g[d] = Owes(d)'
  OBVIOUS
<1> HIDE DEF f, g
<1>6. /\ SumOf(f, Devices) \in Nat /\ SumOf(g, Devices) \in Nat
      /\ SumOf(g, Devices) + f[d] = SumOf(f, Devices) + g[d]
  BY <1>1, <1>2, <1>3, SumChanges
<1>7. f[d] \in Nat /\ g[d] \in Nat
  BY <1>2
<1> QED
  BY <1>4, <1>5, <1>6, <1>7

LEMMA AddedMoves ==
    ASSUME KeysInUse, KeysInUse', NEW d \in Devices, OthersWait(d)
    PROVE  /\ Added \in Nat /\ Added' \in Nat /\ Misses(d) \in Nat /\ Misses(d)' \in Nat
           /\ Added' + Misses(d) = Added + Misses(d)'
<1> DEFINE f == [t \in Devices |-> Misses(t)]
           g == [t \in Devices |-> Misses(t)']
<1>1. IsFiniteSet(Devices)
  BY BlobAssumption DEF Devices
<1>2. f \in [Devices -> Nat] /\ g \in [Devices -> Nat]
  BY BlobAssumption DEF Misses, KeysInUse, PutPcs
<1>3. \A e \in Devices : e # d => g[e] = f[e]
  BY DEF OthersWait, Misses
<1>4. Added = SumOf(f, Devices) /\ Added' = SumOf(g, Devices)
  BY DEF Added, Misses, Devices
<1>5. f[d] = Misses(d) /\ g[d] = Misses(d)'
  OBVIOUS
<1> HIDE DEF f, g
<1>6. /\ SumOf(f, Devices) \in Nat /\ SumOf(g, Devices) \in Nat
      /\ SumOf(g, Devices) + f[d] = SumOf(f, Devices) + g[d]
  BY <1>1, <1>2, <1>3, SumChanges
<1>7. f[d] \in Nat /\ g[d] \in Nat
  BY <1>2
<1> QED
  BY <1>4, <1>5, <1>6, <1>7

LEMMA BytesMove ==
    ASSUME NEW S \in SUBSET Keys, NEW k \in Keys
    PROVE  /\ Bytes(S) \in Nat /\ Size[k] \in Nat
           /\ k \notin S => Bytes(S \cup {k}) = Bytes(S) + Size[k]
           /\ k \in S => Bytes(S) = Bytes(S \ {k}) + Size[k] /\ Bytes(S \ {k}) \in Nat
<1>1. Size \in [Keys -> Nat] /\ IsFiniteSet(Keys)
  BY BlobAssumption
<1>2. ASSUME NEW T \in SUBSET Keys, k \notin T
      PROVE  Bytes(T) \in Nat /\ Bytes(T \cup {k}) = Bytes(T) + Size[k]
  <2>1. IsFiniteSet(T) /\ \A y \in T : Size[y] \in Nat
    BY <1>1, FS_Subset
  <2> QED
    BY <1>1, <1>2, <2>1, SumGrows DEF Bytes
<1>3. CASE k \in S
  <2>1. (S \ {k}) \cup {k} = S /\ S \ {k} \in SUBSET Keys
    BY <1>3
  <2>2. Bytes(S \ {k}) \in Nat /\ Bytes((S \ {k}) \cup {k}) = Bytes(S \ {k}) + Size[k]
    BY <1>2, <2>1
  <2> QED
    BY <1>1, <1>3, <2>1, <2>2
<1>4. CASE k \notin S
  BY <1>1, <1>2, <1>4
<1> QED
  BY <1>3, <1>4

\* Whoever takes a blob out, puts one in or brings the counter up to date.
LEMMA NoBytes == Bytes({}) = 0
BY SumEmpty DEF Bytes

LEMMA CounterKept ==
    ASSUME CounterExact, KeysInUse, KeysInUse', NEW d \in Devices, Counts(d)
    PROVE  CounterExact'
<1> DEFINE b  == Bytes(Present)
           bb == Bytes(Present')
           r  == Removed
           rr == Removed'
           a  == Added
           aa == Added'
           o  == Owes(d)
           oo == Owes(d)'
           m  == Misses(d)
           mm == Misses(d)'
<1>1. Present \in SUBSET Keys /\ WORD \in Nat \ {0} /\ Size \in [Keys -> Nat] /\ OthersWait(d)
  BY WordFacts, BlobAssumption DEF Present, Counts
<1>2. b \in Nat
  <2>1. CASE Present = {}
    BY <2>1, NoBytes
  <2>2. CASE Present # {}
    BY <1>1, <2>2, BytesMove
  <2> QED
    BY <2>1, <2>2
<1>3. /\ r \in Nat /\ rr \in Nat /\ a \in Nat /\ aa \in Nat
      /\ o \in Nat /\ oo \in Nat /\ m \in Nat /\ mm \in Nat
      /\ rr + o = r + oo /\ aa + m = a + mm
  BY <1>1, RemovedMoves, AddedMoves
<1>4. total = (b + r - a) % WORD /\ (CounterExact' <=> total' = (bb + rr - aa) % WORD)
  BY DEF CounterExact, Bytes
<1> HIDE DEF b, bb, r, rr, a, aa, o, oo, m, mm
<1>5. ASSUME NEW s \in Int
      PROVE  (total + s) % WORD = (b + r - a + s) % WORD
  <2> DEFINE X == b + r - a
  <2>1. X \in Int /\ total = X % WORD
    BY <1>2, <1>3, <1>4
  <2> HIDE DEF X
  <2>2. (total + s) % WORD = (X + s) % WORD
    BY <1>1, <2>1, RestOfRest
  <2> QED
    BY <2>2 DEF X
<1>6. CASE Calm(d)
  <2>1. Present' = Present /\ total' = total /\ o = 0 /\ oo = 0 /\ m = 0 /\ mm = 0
    BY <1>6 DEF Calm, Owes, Misses, o, oo, m, mm
  <2>2. rr = r /\ aa = a
    BY <1>3, <2>1
  <2>3. bb = b
    BY <2>1 DEF b, bb
  <2> QED
    BY <1>4, <2>1, <2>2, <2>3
<1>7. CASE TakesOut(d)
  <2>1. PICK k \in Present :
           /\ Present' = Present \ {k} /\ total' = total
           /\ req[d].pc \notin {"sub", "add"} /\ req'[d].pc = "sub" /\ req'[d].gone = k
    BY <1>7 DEF TakesOut
  <2>2. PICK s \in Nat : s = Size[k]
    BY <1>1
  <2>3. o = 0 /\ oo = s /\ m = 0 /\ mm = 0
    BY <2>1, <2>2 DEF Owes, Misses, o, oo, m, mm
  <2>4. b = bb + s /\ bb \in Nat
    BY <1>1, <2>1, <2>2, BytesMove DEF b, bb
  <2>5. bb + rr - aa = b + r - a
    BY <1>2, <1>3, <2>3, <2>4
  <2> QED
    BY <1>4, <2>1, <2>5
<1>8. CASE Subtracts(d)
  <2>1. /\ Present' = Present /\ total' = (total - Size[req[d].gone]) % WORD
        /\ req[d].pc = "sub" /\ req'[d].pc \notin {"sub", "add"}
    BY <1>8 DEF Subtracts
  <2>2. PICK s \in Nat : s = Size[req[d].gone]
    BY <1>1, <2>1 DEF KeysInUse
  <2>3. o = s /\ oo = 0 /\ m = 0 /\ mm = 0
    BY <2>1, <2>2 DEF Owes, Misses, o, oo, m, mm
  <2>4. bb = b
    BY <2>1 DEF b, bb
  <2>5. bb + rr - aa = b + r - a + (-s)
    BY <1>2, <1>3, <2>2, <2>3, <2>4
  <2>6. total' = (total + (-s)) % WORD
    <3>1. \A t \in Int : t - s = t + (-s)
      OBVIOUS
    <3>2. \A z \in Int : z % WORD \in Int
      BY <1>1
    <3>3. b + r - a \in Int
      BY <1>2, <1>3
    <3>4. total \in Int
      BY <1>4, <3>2, <3>3
    <3> QED
      BY <2>1, <2>2, <3>1, <3>4
  <2>7. (total + (-s)) % WORD = (b + r - a + (-s)) % WORD
    BY <1>5
  <2> QED
    BY <1>4, <2>5, <2>6, <2>7
<1>9. CASE PutsIn(d)
  <2>1. /\ req[d].key \notin Present /\ Present' = Present \cup {req[d].key} /\ total' = total
        /\ req[d].pc = "insert" /\ req'[d].pc = "add" /\ req'[d].key = req[d].key
    BY <1>9 DEF PutsIn, Counts, Admitted, PutPcs
  <2>2. req[d].key \in Keys
    BY <2>1 DEF KeysInUse, PutPcs
  <2>3. PICK s \in Nat : s = Size[req[d].key]
    BY <1>1, <2>2
  <2>4. o = 0 /\ oo = 0 /\ m = 0 /\ mm = s
    BY <2>1, <2>3 DEF Owes, Misses, o, oo, m, mm
  <2>5. bb = b + s
    BY <1>1, <2>1, <2>2, <2>3, BytesMove DEF b, bb
  <2>6. bb + rr - aa = b + r - a
    BY <1>2, <1>3, <2>4, <2>5
  <2> QED
    BY <1>4, <2>1, <2>6
<1>10. CASE Adds(d)
  <2>1. /\ Present' = Present /\ total' = (total + Size[req[d].key]) % WORD
        /\ req[d].pc = "add" /\ req'[d].pc \notin {"sub", "add"}
    BY <1>10 DEF Adds
  <2>2. PICK s \in Nat : s = Size[req[d].key]
    BY <1>1, <2>1 DEF KeysInUse, PutPcs
  <2>3. o = 0 /\ oo = 0 /\ m = s /\ mm = 0
    BY <2>1, <2>2 DEF Owes, Misses, o, oo, m, mm
  <2>4. bb = b
    BY <2>1 DEF b, bb
  <2>5. bb + rr - aa = b + r - a + s
    BY <1>2, <1>3, <2>2, <2>3, <2>4
  <2>6. total' = (b + r - a + s) % WORD
    BY <1>5, <2>1, <2>2
  <2> QED
    BY <1>4, <2>5, <2>6
<1> QED
  BY <1>6, <1>7, <1>8, <1>9, <1>10 DEF Counts

-----------------------------------------------------------------------------
(* The budget *)

\* What is stored, on its way in or on its way out is never larger than a blob
\* may be.
SmallInv ==
    /\ \A k \in Present : Size[k] <= MAX_BLOB
    /\ \A d \in Devices : req[d].pc = "sub" => Size[req[d].gone] <= MAX_BLOB
    /\ \A d \in Devices : Admitted(d) => Size[req[d].key] <= MAX_BLOB

\* As long as no two PUTs have left the eviction loop together, the one that
\* has may insert its blob.
RoomInv ==
    MAX_BLOB <= BUDGET /\ ~overlapped =>
        /\ Bytes(Present) <= BUDGET
        /\ \A d, e \in Devices : Landing(d) /\ Landing(e) => d = e
        /\ \A d \in Devices :
              req[d].pc = "insert" => Bytes(Present \cup {req[d].key}) <= BUDGET

LEMMA SmallKept ==
    ASSUME SmallInv, NEW d \in Devices, Counts(d)
    PROVE  SmallInv'
<1>1. /\ OthersWait(d)
      /\ Admitted(d)' => req'[d].key = req[d].key
  BY DEF Counts
<1>2. ASSUME NEW k \in Present'
      PROVE  Size[k] <= MAX_BLOB
  <2>1. k \in Present \/ (req[d].pc = "insert" /\ k = req[d].key)
    BY <1>2 DEF Counts, Calm, TakesOut, Subtracts, PutsIn, Adds
  <2> QED
    BY <2>1 DEF SmallInv, Admitted, PutPcs
<1>3. req'[d].pc = "sub" => Size[req'[d].gone] <= MAX_BLOB
  <2> SUFFICES ASSUME req'[d].pc = "sub"
               PROVE  Size[req'[d].gone] <= MAX_BLOB
    OBVIOUS
  <2>1. TakesOut(d)
    BY DEF Counts, Calm, Subtracts, PutsIn, Adds
  <2> QED
    BY <2>1 DEF TakesOut, SmallInv
<1>4. Admitted(d)' => Size[req'[d].key] <= MAX_BLOB
  <2> SUFFICES ASSUME Admitted(d)'
               PROVE  Size[req'[d].key] <= MAX_BLOB
    OBVIOUS
  <2>1. Admitted(d) \/ Size[req[d].key] <= MAX_BLOB
    BY DEF Counts, Calm, TakesOut, Subtracts, PutsIn, Adds, Admitted, PutPcs
  <2> QED
    BY <1>1, <2>1 DEF SmallInv
<1>5. ASSUME NEW e \in Devices, e # d
      PROVE  /\ req'[e].pc = "sub" => Size[req'[e].gone] <= MAX_BLOB
             /\ Admitted(e)' => Size[req'[e].key] <= MAX_BLOB
  BY <1>1, <1>5 DEF OthersWait, SmallInv, Admitted
<1>6. \A e \in Devices : /\ req'[e].pc = "sub" => Size[req'[e].gone] <= MAX_BLOB
                         /\ Admitted(e)' => Size[req'[e].key] <= MAX_BLOB
  BY <1>3, <1>4, <1>5
<1> QED
  BY <1>2, <1>6 DEF SmallInv

\* What requests have taken out and not subtracted fits in the counter.
LEMMA RemovedBound ==
    ASSUME KeysInUse, SmallInv
    PROVE  Removed \in Nat /\ Removed <= Cardinality(Devices) * MAX_BLOB
<1> DEFINE f == [t \in Devices |-> Owes(t)]
<1>1. IsFiniteSet(Devices) /\ MAX_BLOB \in Nat /\ Size \in [Keys -> Nat]
  BY BlobAssumption DEF Devices
<1>2. ASSUME NEW t \in Devices
      PROVE  Owes(t) \in Nat /\ Owes(t) <= MAX_BLOB
  BY <1>1 DEF Owes, KeysInUse, SmallInv
<1>3. \A t \in Devices : f[t] \in Nat /\ f[t] <= MAX_BLOB
  BY <1>2
<1>4. Removed = SumOf(f, Devices)
  BY DEF Removed, Owes, Devices
<1> HIDE DEF f
<1>5. SumOf(f, Devices) <= Cardinality(Devices) * MAX_BLOB
  BY <1>1, <1>3, SumBound
<1>6. SumOf(f, Devices) \in Nat
  BY <1>1, <1>3, SumSame
<1> QED
  BY <1>4, <1>5, <1>6

LEMMA NothingAdded ==
    ASSUME \A u \in Devices : ~Landing(u)
    PROVE  Added = 0
<1> DEFINE f == [t \in Devices |-> Misses(t)]
<1>1. \A t \in Devices : f[t] = 0
  BY DEF Misses, Landing
<1>2. Added = SumOf(f, Devices)
  BY DEF Added, Misses, Devices
<1> HIDE DEF f
<1>3. \A t \in Devices : {t} \X (1..f[t]) = {}
  BY <1>1
<1>4. Units(f, Devices) = {}
  BY <1>3 DEF Units
<1> QED
  BY <1>2, <1>4, FS_EmptySet DEF SumOf, Units

LEMMA BytesGrow ==
    ASSUME NEW T \in SUBSET Keys, NEW S \in SUBSET T
    PROVE  Bytes(S) \in Nat /\ Bytes(T) \in Nat /\ Bytes(S) <= Bytes(T)
<1>1. IsFiniteSet(T) /\ \A x \in T : Size[x] \in Nat
  BY BlobAssumption, FS_Subset
<1> QED
  BY <1>1, SumMonotone DEF Bytes

\* A PUT that finds room while no other has left the loop does fit, because the
\* counter then holds at least what is stored.
LEMMA RoomIsRoom ==
    ASSUME CounterExact, KeysInUse, SmallInv, NEW k \in Keys, Size[k] <= MAX_BLOB,
           MAX_BLOB <= BUDGET, Bytes(Present) <= BUDGET, \A u \in Devices : ~Landing(u),
           ~NoRoom(k) \/ Present = {}
    PROVE  Bytes(Present \cup {k}) <= BUDGET
<1> DEFINE b == Bytes(Present)
           bk == Bytes(Present \cup {k})
           r == Removed
           s == Size[k]
           c == Cardinality(Devices) * MAX_BLOB
<1>1. /\ Present \in SUBSET Keys /\ WORD \in Nat \ {0} /\ MAX_BLOB \in Nat /\ BUDGET \in Nat
      /\ BUDGET + c + MAX_BLOB < WORD
  BY WordFacts, BlobAssumption DEF Present
<1>2. c \in Int
  <2>1. Cardinality(Devices) \in Nat
    BY WordFacts
  <2> QED
    BY <1>1, <2>1
<1>3. r \in Nat /\ r <= c /\ Added = 0
  BY RemovedBound, NothingAdded
<1>4. b \in Nat /\ s \in Nat /\ (k \notin Present => bk = b + s)
  BY <1>1, BytesMove
<1>5. k \in Present => bk = b
  <2>1. k \in Present => Present \cup {k} = Present
    OBVIOUS
  <2> QED
    BY <2>1
<1>6. total = (b + r - 0) % WORD /\ (NoRoom(k) <=> (total + s) % WORD > BUDGET)
  BY <1>3 DEF CounterExact, NoRoom
<1>7. b <= BUDGET /\ s <= MAX_BLOB /\ MAX_BLOB <= BUDGET
  OBVIOUS
<1>8. Present = {} => b = 0
  BY NoBytes
<1> HIDE DEF b, bk, r, s, c
<1>9. CASE k \in Present
  BY <1>5, <1>7, <1>9 DEF bk
<1>10. CASE k \notin Present /\ Present = {}
  <2>1. bk <= BUDGET
    BY <1>1, <1>4, <1>7, <1>8, <1>10
  <2> QED
    BY <2>1 DEF bk
<1>11. CASE k \notin Present /\ ~NoRoom(k)
  <2>1. b + r - 0 = b + r /\ b + r \in Int /\ b + r + s \in Nat /\ b + r + s < WORD
    BY <1>1, <1>2, <1>3, <1>4, <1>7
  <2>2. (total + s) % WORD = (b + r + s) % WORD
    BY <1>1, <1>4, <1>6, <2>1, RestOfRest
  <2>3. (b + r + s) % WORD = b + r + s
    BY <1>1, <2>1, SmallRest
  <2>4. b + r + s <= BUDGET
    BY <1>1, <1>6, <1>11, <2>1, <2>2, <2>3
  <2>5. bk <= BUDGET
    BY <1>1, <1>3, <1>4, <1>11, <2>4
  <2> QED
    BY <2>5 DEF bk
<1> QED
  BY <1>9, <1>10, <1>11

LEMMA RoomKept ==
    ASSUME CounterExact, KeysInUse, SmallInv, RoomInv, NEW d \in Devices, Counts(d)
    PROVE  RoomInv'
<1> SUFFICES ASSUME MAX_BLOB <= BUDGET, ~overlapped'
             PROVE  /\ Bytes(Present') <= BUDGET
                    /\ \A u, v \in Devices : Landing(u)' /\ Landing(v)' => u = v
                    /\ \A u \in Devices :
                          req'[u].pc = "insert" => Bytes(Present' \cup {req'[u].key}) <= BUDGET
  BY DEF RoomInv, Bytes
<1>1. /\ OthersWait(d)
      /\ Admitted(d)' => req'[d].key = req[d].key
      /\ ~overlapped
  <2>1. ~overlapped
    <3>1. CASE Calm(d)
      BY <3>1, Zenon DEF Calm
    <3>2. CASE TakesOut(d)
      <4>1. overlapped' = overlapped
        BY <3>2 DEF TakesOut
      <4> QED
        BY <4>1
    <3>3. CASE Subtracts(d)
      BY <3>3, Zenon DEF Subtracts
    <3>4. CASE PutsIn(d)
      BY <3>4, Zenon DEF PutsIn
    <3>5. CASE Adds(d)
      BY <3>5, Zenon DEF Adds
    <3> QED
      BY <3>1, <3>2, <3>3, <3>4, <3>5 DEF Counts
  <2> QED
    BY <2>1 DEF Counts
<1>2. /\ Bytes(Present) <= BUDGET
      /\ \A u, v \in Devices : Landing(u) /\ Landing(v) => u = v
      /\ \A u \in Devices :
            req[u].pc = "insert" => Bytes(Present \cup {req[u].key}) <= BUDGET
  BY <1>1 DEF RoomInv
<1>3. \A u \in Devices : u # d => (Landing(u)' <=> Landing(u)) /\ req'[u] = req[u]
  BY <1>1 DEF OthersWait, Landing
<1>4. Present \in SUBSET Keys
  BY DEF Present
<1>5. CASE Present' = Present /\ (Landing(d)' => Landing(d)) /\ req'[d].pc # "insert"
  BY <1>2, <1>3, <1>5
<1>6. CASE Calm(d) /\ req'[d].pc = "insert"
  <2>1. /\ Present' = Present /\ Admitted(d) /\ \A u \in Devices : ~Landing(u)
        /\ ~NoRoom(req[d].key) \/ Present = {}
    BY <1>6 DEF Calm
  <2>2. /\ req[d].key \in Keys /\ Size[req[d].key] <= MAX_BLOB
        /\ req'[d].key = req[d].key
    BY <1>1, <1>6, <2>1 DEF KeysInUse, SmallInv, Admitted, PutPcs
  <2>3. Bytes(Present \cup {req[d].key}) <= BUDGET
    BY <1>2, <2>1, <2>2, RoomIsRoom
  <2>4. \A u \in Devices : req'[u].pc = "insert" => u = d
    BY <1>3, <2>1 DEF Landing
  <2>5. \A u \in Devices : Landing(u)' => u = d
    BY <1>3, <2>1
  <2> QED
    BY <1>2, <2>1, <2>2, <2>3, <2>4, <2>5
<1>7. CASE TakesOut(d)
  <2>1. PICK k \in Present : Present' = Present \ {k} /\ req'[d].pc = "sub"
    BY <1>7 DEF TakesOut
  <2>2. Bytes(Present') <= BUDGET
    <3>1. /\ Bytes(Present') <= Bytes(Present) /\ Bytes(Present') \in Nat
          /\ Bytes(Present) \in Nat /\ BUDGET \in Nat
      BY <1>4, <2>1, BytesGrow, BlobAssumption
    <3> QED
      BY <1>2, <3>1
  <2>3. ASSUME NEW u \in Devices, req'[u].pc = "insert"
        PROVE  Bytes(Present' \cup {req'[u].key}) <= BUDGET
    <3> DEFINE T == Present \cup {req[u].key}
               S == Present' \cup {req[u].key}
    <3>1. req'[u] = req[u] /\ req[u].pc = "insert"
      BY <1>3, <2>1, <2>3
    <3>2. T \in SUBSET Keys /\ S \in SUBSET T
      BY <1>4, <2>1, <3>1 DEF KeysInUse, PutPcs
    <3>3. Bytes(T) <= BUDGET
      BY <1>2, <3>1
    <3> HIDE DEF S, T
    <3>4. Bytes(S) <= Bytes(T) /\ Bytes(S) \in Nat /\ Bytes(T) \in Nat /\ BUDGET \in Nat
      BY <3>2, BytesGrow, BlobAssumption
    <3>5. Bytes(S) <= BUDGET
      BY <3>3, <3>4
    <3> QED
      BY <3>1, <3>5 DEF S
  <2>4. ~Landing(d)'
    BY <2>1 DEF Landing
  <2> QED
    BY <1>2, <1>3, <2>2, <2>3, <2>4
<1>8. CASE PutsIn(d)
  <2>1. /\ Present' = Present \cup {req[d].key}
        /\ req[d].pc = "insert" /\ req'[d].pc = "add"
    BY <1>8 DEF PutsIn
  <2>2. Bytes(Present') <= BUDGET
    BY <1>2, <2>1
  <2>3. \A u \in Devices : Landing(u)' => u = d
    BY <1>2, <1>3, <2>1 DEF Landing
  <2>4. \A u \in Devices : req'[u].pc # "insert"
    BY <2>1, <2>3 DEF Landing
  <2>5. \A u, v \in Devices : Landing(u)' /\ Landing(v)' => u = v
    BY <2>3, Zenon
  <2>6. \A u \in Devices :
           req'[u].pc = "insert" => Bytes(Present' \cup {req'[u].key}) <= BUDGET
    BY <2>4
  <2> QED
    BY <2>2, <2>5, <2>6, Zenon
<1>9. CASE Subtracts(d) \/ Adds(d) \/ (Calm(d) /\ req'[d].pc # "insert")
  BY <1>5, <1>9 DEF Subtracts, Adds, Calm, Landing
<1> QED
  BY <1>6, <1>7, <1>8, <1>9 DEF Counts

-----------------------------------------------------------------------------
CountInv == IInv /\ CounterExact /\ SmallInv /\ RoomInv

LEMMA CountInitially == ImageInit => CountInv
<1> SUFFICES ASSUME ImageInit
             PROVE  CountInv
  OBVIOUS
<1>1. /\ inner = [k \in Keys |-> None] /\ total = 0 /\ req = [d \in Devices |-> Idle]
  BY DEF ImageInit, StoreInit, Devices
<1>2. Present = {} /\ \A d \in Devices : req[d].pc = "idle"
  BY <1>1, IdleIsRequest DEF Present
<1>3. IInv /\ KeysInUse
  BY Initially, UsesKeys DEF IInv
<1>4. SmallInv
  BY <1>2 DEF SmallInv, Admitted, PutPcs
<1>5. Added = 0 /\ Removed = 0
  <2> DEFINE f == [t \in Devices |-> Owes(t)]
  <2>1. \A t \in Devices : f[t] = 0
    BY <1>2 DEF Owes
  <2>2. Removed = SumOf(f, Devices)
    BY DEF Removed, Owes, Devices
  <2> HIDE DEF f
  <2>3. \A t \in Devices : {t} \X (1..f[t]) = {}
    BY <2>1
  <2>4. Units(f, Devices) = {}
    BY <2>3 DEF Units
  <2>5. Removed = 0
    BY <2>2, <2>4, FS_EmptySet DEF SumOf, Units
  <2> QED
    BY <1>2, <2>5, NothingAdded DEF Landing
<1>6. CounterExact
  <2>1. Bytes(Present) = 0
    BY <1>2, NoBytes
  <2>2. 0 % WORD = 0
    BY WordFacts, SmallRest
  <2> QED
    BY <1>1, <1>5, <2>1, <2>2 DEF CounterExact
<1>7. RoomInv
  <2>1. Bytes(Present) = 0 /\ BUDGET \in Nat
    BY <1>2, NoBytes, BlobAssumption
  <2> QED
    BY <1>2, <2>1 DEF RoomInv, Landing
<1> QED
  BY <1>3, <1>4, <1>6, <1>7 DEF CountInv

LEMMA CountInductive == CountInv /\ [ImageNext]_imageVars => CountInv'
<1> SUFFICES ASSUME CountInv, [ImageNext]_imageVars
             PROVE  CountInv'
  OBVIOUS
<1>1. IInv /\ IInv' /\ KeysInUse /\ KeysInUse'
  <2>1. IInv /\ IInv'
    BY Inductive DEF CountInv
  <2>2. KeysInUse
    BY <2>1, UsesKeys DEF IInv
  <2>3. KeysInUse'
    BY <2>1, UsesKeys, PTL DEF IInv
  <2> QED
    BY <2>1, <2>2, <2>3
<1>2. ASSUME NEW d \in Devices, Counts(d)
      PROVE  CounterExact' /\ SmallInv' /\ RoomInv'
  BY <1>1, <1>2, CounterKept, SmallKept, RoomKept DEF CountInv
<1>3. CASE UNCHANGED <<inner, req, total, overlapped>>
  <2>1. Present' = Present /\ Removed' = Removed /\ Added' = Added
    BY <1>3 DEF Present, Removed, Added
  <2>2. CounterExact'
    BY <1>3, <2>1 DEF CountInv, CounterExact, Bytes
  <2>3. SmallInv'
    BY <1>3, <2>1 DEF CountInv, SmallInv, Admitted
  <2>4. RoomInv'
    BY <1>3, <2>1 DEF CountInv, RoomInv, Landing, Bytes
  <2> QED
    BY <1>1, <2>2, <2>3, <2>4 DEF CountInv
<1>4. CASE ImageNext
  BY <1>1, <1>2, <1>3, <1>4, StepCounts DEF CountInv
<1>5. CASE UNCHANGED imageVars
  BY <1>3, <1>5 DEF imageVars, storeVars
<1> QED
  BY <1>1, <1>2, <1>3, <1>4, <1>5, StepCounts DEF CountInv

\* put inserts and then adds, remove takes out and then subtracts: however the
\* requests interleave, the counter differs from the map by what requests in
\* between still owe, modulo its width.
THEOREM CounterExactHolds == ImageSpec => []CounterExact
<1>1. CountInv => CounterExact
  BY DEF CountInv
<1>2. ImageSpec => []CountInv
  BY CountInitially, CountInductive, PTL DEF ImageSpec
<1> QED
  BY <1>1, <1>2, PTL

\* evict_until_room_for reads a counter that other requests move, and may stop
\* on an empty map with the counter full: the stored bytes pass the budget only
\* when two PUTs left that loop together.
THEOREM BudgetKeptHolds == ImageSpec => []BudgetKept
<1>1. CountInv => BudgetKept
  BY DEF CountInv, RoomInv, BudgetKept
<1>2. ImageSpec => []CountInv
  BY CountInitially, CountInductive, PTL DEF ImageSpec
<1> QED
  BY <1>1, <1>2, PTL

=============================================================================
