---------------------------- MODULE ImageClips -----------------------------
(***************************************************************************)
(* Image clips: Client::send_image and Client::fetch_image (core/src/      *)
(* client.rs) over the relay's blob store and the devices' LAN blob caches *)
(* (BlobCache, serve_blob and fetch_blob in core/src/lan.rs).  A device    *)
(* makes one blocking call at a time; the HTTP request of the call is the  *)
(* thread of BlobStore with the device's name.                             *)
(*                                                                         *)
(* Every send encrypts under a new nonce, so it makes a new key.  A key    *)
(* can still be PUT twice, by whoever repeats the request (Repeat).        *)
(***************************************************************************)
EXTENDS BlobStore, Sequences, SequencesExt

CONSTANTS
    LanPeers,       \* device -> devices whose addresses it knows
    CACHE_BYTES,    \* BLOB_CACHE_MAX_BYTES
    CACHE_ENTRIES,  \* BLOB_CACHE_MAX_ENTRIES
    MaxRepeats,     \* bound of the model: PUTs that repeat an earlier one
    MaxFetches      \* bound of the model: calls of fetch_image

Devices == Threads

ASSUME ImageAssumption ==
    /\ LanPeers \in [Devices -> SUBSET Devices]
    /\ CACHE_BYTES \in Nat /\ CACHE_ENTRIES \in Nat

VARIABLES
    call,       \* device -> the call it is in
    cache,      \* device -> BlobCache: keys in insertion order and their bytes
    sent,       \* keys made by send_image so far
    announced,  \* keys whose clip has been handed to the worker for Publish
    repeats, fetches

imageVars == <<storeVars, call, cache, sent, announced, repeats, fetches>>

Calls == [op : {"none", "send", "repeat", "lan", "relay"},
          key : Keys \cup {None}, peers : SUBSET Devices]
NoCall == [op |-> "none", key |-> None, peers |-> {}]

ImageTypeOK ==
    /\ StoreTypeOK
    /\ call \in [Devices -> Calls]
    /\ cache \in [Devices -> [order : Seq(Keys), bytes : Nat]]
    /\ announced \subseteq sent /\ sent \subseteq Keys
    /\ repeats \in 0..MaxRepeats /\ fetches \in 0..MaxFetches

ImageInit ==
    /\ StoreInit
    /\ call = [d \in Devices |-> NoCall]
    /\ cache = [d \in Devices |-> [order |-> <<>>, bytes |-> 0]]
    /\ sent = {} /\ announced = {}
    /\ repeats = 0 /\ fetches = 0

-----------------------------------------------------------------------------
(* BlobCache::insert *)

Full(c) == c.bytes > CACHE_BYTES \/ Len(c.order) > CACHE_ENTRIES

PopFront(c) == [order |-> Tail(c.order), bytes |-> c.bytes - Size[Head(c.order)]]

\* pop_front until both caps hold.
Shrunk(c) ==
    LET drop[n \in 0..Len(c.order)] == IF n = 0 THEN c ELSE PopFront(drop[n - 1])
        enough == {n \in 0..Len(c.order) : ~Full(drop[n])}
    IN  drop[CHOOSE n \in enough : \A m \in enough : n <= m]

Push(c, k) == [order |-> Append(c.order, k), bytes |-> c.bytes + Size[k]]

Cached(c, k) == IF Contains(c.order, k) THEN c ELSE Shrunk(Push(c, k))

CacheInsert(d, k) == cache' = [cache EXCEPT ![d] = Cached(@, k)]

-----------------------------------------------------------------------------
(* send_image *)

\* Mutant of SendImage: the clip is queued before the upload.
SendImageEarly(d, k) ==
    /\ call[d] = NoCall
    /\ k \notin sent
    /\ sent' = sent \cup {k}
    /\ announced' = announced \cup {k}
    /\ CacheInsert(d, k)
    /\ call' = [call EXCEPT ![d] = [op |-> "send", key |-> k, peers |-> {}]]
    /\ PutArrives(d, k)
    /\ UNCHANGED <<repeats, fetches>>

\* The cache is seeded first; then the upload starts.
SendImage(d, k) ==
    /\ call[d] = NoCall
    /\ k \notin sent
    /\ sent' = sent \cup {k}
    /\ CacheInsert(d, k)
    /\ call' = [call EXCEPT ![d] = [op |-> "send", key |-> k, peers |-> {}]]
    /\ PutArrives(d, k)
    /\ UNCHANGED <<announced, repeats, fetches>>

\* A PUT of a key that was sent before.
Repeat(d, k) ==
    /\ call[d] = NoCall
    /\ repeats < MaxRepeats
    /\ repeats' = repeats + 1
    /\ k \in sent
    /\ call' = [call EXCEPT ![d] = [op |-> "repeat", key |-> k, peers |-> {}]]
    /\ PutArrives(d, k)
    /\ UNCHANGED <<cache, sent, announced, fetches>>

Returns(d) ==
    /\ call' = [call EXCEPT ![d] = NoCall]
    /\ req' = [req EXCEPT ![d] = Idle]
    /\ UNCHANGED <<inner, total, now, putAt, puts, evicted, overlapped>>
    /\ UNCHANGED <<sent, repeats, fetches>>

\* The answer arrives and the clip is queued for the worker.
Uploaded(d) ==
    /\ call[d].op = "send" /\ req[d].pc = "done" /\ req[d].res = "ok"
    /\ announced' = announced \cup {call[d].key}
    /\ Returns(d)
    /\ UNCHANGED cache

\* The upload fails and nothing is queued: refused, answer lost or timed out,
\* or (pc = "contains") never received by the relay.
UploadFails(d) ==
    /\ call[d].op \in {"send", "repeat"} /\ req[d].pc \in {"contains", "done"}
    /\ Returns(d)
    /\ UNCHANGED <<cache, announced>>

-----------------------------------------------------------------------------
(* fetch_image *)

FetchImage(d, k) ==
    /\ call[d] = NoCall
    /\ fetches < MaxFetches
    /\ fetches' = fetches + 1
    /\ k \in announced
    /\ call' = [call EXCEPT ![d] = [op |-> "lan", key |-> k, peers |-> LanPeers[d]]]
    /\ UNCHANGED <<storeVars, cache, sent, announced, repeats>>

\* A LAN peer serves the bytes from its cache ...
FetchLanHit(d, p) ==
    /\ call[d].op = "lan" /\ p \in call[d].peers
    /\ Contains(cache[p].order, call[d].key)
    /\ CacheInsert(d, call[d].key)
    /\ call' = [call EXCEPT ![d] = NoCall]
    /\ UNCHANGED <<storeVars, sent, announced, repeats, fetches>>

\* ... or answers BlobMiss, cannot be reached, or times out.
FetchLanMiss(d, p) ==
    /\ call[d].op = "lan" /\ p \in call[d].peers
    /\ call' = [call EXCEPT ![d].peers = @ \ {p}]
    /\ UNCHANGED <<storeVars, cache, sent, announced, repeats, fetches>>

FetchRelay(d) ==
    /\ call[d].op = "lan" /\ call[d].peers = {}
    /\ call' = [call EXCEPT ![d].op = "relay"]
    /\ GetArrives(d, call[d].key)
    /\ UNCHANGED <<cache, sent, announced, repeats, fetches>>

FetchDone(d) ==
    /\ call[d].op = "relay" /\ req[d].pc = "done"
    /\ \/ req[d].res = "found" /\ CacheInsert(d, call[d].key)
       \/ UNCHANGED cache           \* 404, answer lost or timed out
    /\ Returns(d)
    /\ UNCHANGED announced

-----------------------------------------------------------------------------
clientVars == <<call, cache, sent, announced, repeats, fetches>>

RelayServes(d) == Serve(d) /\ UNCHANGED clientVars

ImageNext ==
    \/ StoreTick /\ UNCHANGED clientVars
    \/ \E d \in Devices :
          \/ RelayServes(d)
          \/ Uploaded(d) \/ UploadFails(d) \/ FetchRelay(d) \/ FetchDone(d)
          \/ \E k \in Keys : SendImage(d, k) \/ Repeat(d, k) \/ FetchImage(d, k)
          \/ \E p \in Devices : FetchLanHit(d, p) \/ FetchLanMiss(d, p)

ImageSpec == ImageInit /\ [][ImageNext]_imageVars

\* The relay's runtime keeps polling a request it has begun to serve.
FairImageSpec == ImageSpec /\ \A d \in Devices : WF_imageVars(RelayServes(d))

-----------------------------------------------------------------------------
(* What the devices can rely on *)

\* An image that was announced, was uploaded once and is younger than the
\* blob TTL is in the store unless it was evicted for room: a device that is
\* told of it can fetch it, whatever other requests are in progress.
AnnouncedIsStored ==
    \A k \in announced :
        /\ puts[k] = 1
        /\ putAt[k] = None \/ now - putAt[k] < TTL
        /\ k \notin evicted
        => inner[k] # None
=============================================================================
