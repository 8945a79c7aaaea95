--------------------------- MODULE ClipSyncProofs ---------------------------
(***************************************************************************)
(* Proofs about clips end to end, for any number of devices, any LAN links *)
(* and any number of clips and sessions: the relay inside ClipSync is the  *)
(* one of module Relay, so what RelayProofs says of it holds here; no clip *)
(* is given twice to a host; a device that is quiet has caught up.         *)
(***************************************************************************)
EXTENDS ClipSync, RelayProofs, SequenceTheorems, WellFoundedInduction

-----------------------------------------------------------------------------
(* The inductive invariant *)

UpFrames == [type : {"Join", "FetchRecent"}] \cup [type : {"Publish"}, ts : Stamps]

\* What clients ask of the relay.
AskInv == up \in [Devices -> Seq(UpFrames)] /\ stamp \in 0..MaxClips

\* What clients hold.
HoldInv ==
    /\ lan \in [Devices -> Seq(Keys)]
    /\ batch \in [Devices -> SUBSET Nat]
    /\ dedup \in [Devices -> Seq(Entry)]
    /\ applied \in [Devices -> Seq(Entry)]
    /\ sessions \in [Devices -> 0..MaxSessions]
    /\ fetches \in 0..MaxFetches

\* Whatever is on its way to a client has been published, and a device joins
\* under its own name.
PublishedInv ==
    \A d \in Devices :
        /\ batch[d] \subseteq 1..Len(sent[G])
        /\ \A i \in 1..Len(wire[d]) : FrameClips(wire[d][i]) \subseteq 1..Len(sent[G])
        /\ device[d] \in {None, d}

\* The dedup entries are the last clips given to the host; those before them
\* are too old or too many clips ago to matter.
Remembers(d) ==
    LET before == Len(applied[d]) - Len(dedup[d])
    IN  /\ Len(dedup[d]) <= DEDUP_CAP
        /\ before >= 0
        /\ \A i \in 1..Len(dedup[d]) : dedup[d][i] = applied[d][before + i]
        /\ \A i \in 1..before :
              Stale(applied[d][i]) \/ Len(applied[d]) - i >= DEDUP_CAP

OnItsWay(d, n) ==
    n \in batch[d] \/ \E i \in 1..Len(wire[d]) : n \in FrameClips(wire[d][i])

\* What the relay has sent to a device in this session and the device has not
\* sent itself is on its way or was given to the host.
Accounted(d) ==
    \A n \in seen[d] :
        /\ n \in 1..Len(sent[G])
        /\ sent[G][n].sender = d \/ OnItsWay(d, n) \/ Given(d, n)

NoDouble(d) ==
    \A i, j \in 1..Len(applied[d]) :
        i < j /\ applied[d][i].key = applied[d][j].key =>
            applied[d][j].at - applied[d][i].at > DEDUP_TTL \/ j - i > DEDUP_CAP

ClientInv ==
    /\ AskInv /\ HoldInv /\ PublishedInv
    /\ \A d \in Devices : Remembers(d) /\ Accounted(d) /\ NoDouble(d)

LEMMA OneGroup == Groups = {G} /\ G \in Groups
BY SyncAssumption DEF G

-----------------------------------------------------------------------------
(* The relay inside ClipSync *)

LEMMA AskInitially == SyncInit => Init /\ AskInv
<1> SUFFICES ASSUME SyncInit
             PROVE  Init /\ AskInv
  OBVIOUS
<1>1. <<>> \in Seq(UpFrames) /\ 0 \in 0..MaxClips
  BY BoundAssumption
<1> QED
  BY <1>1 DEF SyncInit, AskInv

\* A client asks only for what the relay's actions serve.
LEMMA AskStep ==
    ASSUME AskInv, [SyncNext]_syncVars
    PROVE  AskInv'
<1>1. ASSUME NEW d \in Devices, NEW f \in UpFrames
      PROVE  Append(up[d], f) \in Seq(UpFrames)
  BY DEF AskInv
<1>2. /\ [type |-> "Join"] \in UpFrames /\ [type |-> "FetchRecent"] \in UpFrames
      /\ \A ts \in Stamps : [type |-> "Publish", ts |-> ts] \in UpFrames
  BY DEF UpFrames
<1>3. ASSUME NEW d \in Devices, up[d] # <<>>
      PROVE  Tail(up[d]) \in Seq(UpFrames)
  BY <1>3 DEF AskInv
<1>4. UNCHANGED <<up, stamp>> => AskInv'
  BY DEF AskInv
<1>5. ASSUME NEW d \in Devices, Connect(d)
      PROVE  AskInv'
  <2>1. <<[type |-> "Join"], [type |-> "FetchRecent"]>> \in Seq(UpFrames)
    BY <1>2
  <2> QED
    BY <1>5, <2>1 DEF AskInv, Connect
<1>6. ASSUME NEW d \in Devices, SendClip(d)
      PROVE  AskInv'
  <2>1. stamp + 1 \in Stamps /\ stamp + 1 \in 0..MaxClips
    BY <1>6, BoundAssumption, SyncAssumption DEF AskInv, SendClip
  <2>2. Append(up[d], [type |-> "Publish", ts |-> stamp + 1]) \in Seq(UpFrames)
    BY <1>1, <1>2, <2>1
  <2> QED
    BY <1>6, <2>1, <2>2 DEF AskInv, SendClip
<1>7. ASSUME NEW d \in Devices, HostFetch(d)
      PROVE  AskInv'
  BY <1>1, <1>2, <1>7 DEF AskInv, HostFetch
<1>8. ASSUME NEW d \in Devices, Disconnect(d)
      PROVE  AskInv'
  <2>1. <<>> \in Seq(UpFrames)
    OBVIOUS
  <2> QED
    BY <1>8, <2>1 DEF AskInv, Disconnect, clientVars
<1>9. ASSUME NEW d \in Devices, RelayHandles(d)
      PROVE  AskInv'
  BY <1>3, <1>9 DEF AskInv, RelayHandles, clientVars
<1>10. ASSUME NEW d \in Devices,
              Receive(d) \/ HandleNext(d) \/ LanReceive(d) \/ LanLose(d) \/ RelayForwards(d)
       PROVE  AskInv'
  BY <1>4, <1>10 DEF Receive, HandleNext, LanReceive, LanLose, RelayForwards, clientVars
<1>11. CASE SyncTick \/ UNCHANGED syncVars
  BY <1>4, <1>11 DEF SyncTick, syncVars, clientVars
<1> QED
  BY <1>5, <1>6, <1>7, <1>8, <1>9, <1>10, <1>11 DEF SyncNext

\* Every step of the composition is a step of the relay or leaves it alone.
LEMMA RelayStep ==
    ASSUME AskInv, [SyncNext]_syncVars
    PROVE  [Next]_vars
<1>1. ASSUME NEW d \in Devices
      PROVE  d \in Conns
  BY SyncAssumption
<1>2. ASSUME NEW d \in Devices, RelayHandles(d)
      PROVE  ConnStep(d)
  <2>1. Head(up[d]) \in UpFrames
    BY <1>2 DEF AskInv, RelayHandles
  <2>2. PICK f \in UpFrames : Handle(d, f)
    BY <1>2, <2>1 DEF RelayHandles
  <2>3. CASE Join(d, G, d)
    BY <2>3, OneGroup DEF ConnStep
  <2>4. CASE FetchRecent(d, G)
    BY <2>4, OneGroup DEF ConnStep
  <2>5. CASE f.type = "Publish" /\ Publish(d, G, f.ts)
    <3>1. f.ts \in Stamps
      BY <2>5 DEF UpFrames
    <3> QED
      BY <2>5, <3>1, OneGroup DEF ConnStep
  <2> QED
    BY <2>2, <2>3, <2>4, <2>5 DEF Handle
<1>3. ASSUME NEW d \in Devices, Connect(d) \/ Disconnect(d) \/ Receive(d) \/ RelayForwards(d)
      PROVE  ConnStep(d)
  BY <1>3 DEF Connect, Disconnect, Receive, RelayForwards, ConnStep
<1>4. ASSUME NEW d \in Devices,
             SendClip(d) \/ HostFetch(d) \/ HandleNext(d) \/ LanReceive(d) \/ LanLose(d)
      PROVE  UNCHANGED vars
  BY <1>4 DEF SendClip, HostFetch, HandleNext, LanReceive, LanLose
<1>5. CASE SyncTick \/ UNCHANGED syncVars
  BY <1>5 DEF SyncTick, syncVars, Next
<1> QED
  BY <1>1, <1>2, <1>3, <1>4, <1>5 DEF SyncNext, Next

\* The clients and their uplinks use the relay as module Relay allows: every
\* theorem about Spec is one about SyncSpec.
THEOREM SyncImplementsRelay == SyncSpec => Spec
<1>1. SyncSpec => []AskInv
  BY AskInitially, AskStep, PTL DEF SyncSpec
<1> QED
  BY <1>1, AskInitially, RelayStep, PTL DEF SyncSpec, Spec

-----------------------------------------------------------------------------
(* DedupCache::insert *)

\* The entries that are left are those behind the expired ones at the front.
LEMMA LivePart ==
    ASSUME NEW s \in Seq(Entry)
    PROVE  /\ Popped(s) \in 0..Len(s)
           /\ \A i \in 1..Popped(s) : Stale(s[i])
           /\ Live(s) \in Seq(Entry) /\ Len(Live(s)) = Len(s) - Popped(s)
           /\ \A i \in 1..Len(Live(s)) : Live(s)[i] = s[Popped(s) + i]
<1> DEFINE S == {n \in 0..Len(s) : n < Len(s) => ~Stale(s[n + 1])}
<1>1. Len(s) \in Nat
  OBVIOUS
<1>2. S \in SUBSET Nat /\ Len(s) \in S
  BY <1>1
<1>3. PICK n \in S : \A m \in S : n <= m
  <2> DEFINE less == {d \in Nat \X Nat : d[1] < d[2]}
  <2>1. IsWellFoundedOn(less, Nat)
    BY NatLessThanWellFounded DEF OpToRel
  <2>2. PICK x \in S : \A y \in S : ~(<<y, x>> \in less)
    <3> HIDE DEF less, S
    <3> QED
      BY <1>2, <2>1, WFMin
  <2>3. ASSUME NEW y \in S
        PROVE  x <= y
    <3>1. x \in Nat /\ y \in Nat
      OBVIOUS
    <3>2. ~(y < x)
      BY <2>2, <3>1
    <3> QED
      BY <3>1, <3>2
  <2> QED
    BY <2>3
<1>4. ASSUME NEW i \in 1..n
      PROVE  Stale(s[i])
  <2>1. n \in 0..Len(s) /\ i - 1 \in 0..Len(s) /\ i - 1 < Len(s) /\ ~(n <= i - 1)
    BY <1>1, <1>3
  <2>2. i - 1 \notin S
    BY <1>3, <2>1
  <2>3. (i - 1) + 1 = i
    BY <2>1
  <2> QED
    BY <2>1, <2>2, <2>3
<1>5. n \in 0..Len(s) /\ (n < Len(s) => ~Stale(s[n + 1]))
  BY <1>3
<1>6. Popped(s) \in 0..Len(s) /\ \A i \in 1..Popped(s) : Stale(s[i])
  BY <1>4, <1>5 DEF Popped
<1> DEFINE p == Popped(s)
<1>7. p \in 0..Len(s)
  BY <1>6
<1> HIDE DEF p
<1>8. /\ SubSeq(s, p + 1, Len(s)) \in Seq(Entry)
      /\ Len(SubSeq(s, p + 1, Len(s))) = Len(s) - p
      /\ \A i \in 1..(Len(s) - p) : SubSeq(s, p + 1, Len(s))[i] = s[p + i]
  <2>1. \A a \in 1..(Len(s) + 1) : \A b \in (a - 1)..Len(s) : SubSeq(s, a, b) \in Seq(Entry)
    BY <1>1, SubSeqProperties
  <2>2. p + 1 \in 1..(Len(s) + 1) /\ Len(s) \in ((p + 1) - 1)..Len(s)
    BY <1>1, <1>7
  <2>3. SubSeq(s, p + 1, Len(s)) \in Seq(Entry)
    BY <2>1, <2>2
  <2>4. Len(SubSeq(s, p + 1, Len(s))) = Len(s) - p
    BY <1>1, <1>7
  <2>5. ASSUME NEW i \in 1..(Len(s) - p)
        PROVE  SubSeq(s, p + 1, Len(s))[i] = s[p + i]
    BY <1>1, <1>7
  <2> QED
    BY <2>3, <2>4, <2>5
<1> QED
  BY <1>6, <1>8 DEF Live, p

\* A full cache loses its oldest entry.
LEMMA RoomPart ==
    ASSUME NEW s \in Seq(Entry), Len(s) <= DEDUP_CAP
    PROVE  \E q \in 0..1 :
              /\ q = 1 => Len(s) = DEDUP_CAP
              /\ Room(s) \in Seq(Entry) /\ Len(Room(s)) = Len(s) - q
              /\ Len(Room(s)) + 1 <= DEDUP_CAP
              /\ \A i \in 1..Len(Room(s)) : Room(s)[i] = s[q + i]
<1>1. DEDUP_CAP \in Nat /\ DEDUP_CAP >= 1 /\ Len(s) \in Nat
  BY SyncAssumption
<1>2. CASE Len(s) = DEDUP_CAP
  <2>1. s # <<>>
    BY <1>1, <1>2
  <2>2. /\ Tail(s) \in Seq(Entry) /\ Len(Tail(s)) = Len(s) - 1
        /\ \A i \in 1..Len(Tail(s)) : Tail(s)[i] = s[1 + i]
    BY <1>1, <2>1
  <2>3. Room(s) = Tail(s)
    BY <1>2 DEF Room
  <2>4. Len(Tail(s)) + 1 <= DEDUP_CAP
    BY SMTT(30), <1>1, <1>2, <2>2
  <2> QED
    BY <1>2, <2>2, <2>3, <2>4
<1>3. CASE Len(s) # DEDUP_CAP
  <2>1. Room(s) = s
    BY <1>3 DEF Room
  <2>2. Len(s) + 1 <= DEDUP_CAP /\ Len(s) = Len(s) - 0 /\ \A i \in 1..Len(s) : s[i] = s[0 + i]
    BY <1>1, <1>3
  <2>3. 0 \in 0..1 /\ (0 = 1 => Len(s) = DEDUP_CAP)
    OBVIOUS
  <2> QED
    BY <2>1, <2>2, <2>3
<1> QED
  BY <1>2, <1>3

\* A clip that is offered is given to the host or was given recently, and what
\* the cache remembers stays the end of what the host was given.
LEMMA OfferEffect ==
    ASSUME HoldInv, now \in Nat, now' = now, NEW d \in Devices, NEW key \in Keys,
           Remembers(d), NoDouble(d), Offer(d, key)
    PROVE  /\ dedup' \in [Devices -> Seq(Entry)] /\ applied' \in [Devices -> Seq(Entry)]
           /\ \A e \in Devices : e # d => dedup'[e] = dedup[e] /\ applied'[e] = applied[e]
           /\ Remembers(d)' /\ NoDouble(d)'
           /\ Len(applied[d]) <= Len(applied'[d])
           /\ \A i \in 1..Len(applied[d]) : applied'[d][i] = applied[d][i]
           /\ key.sender # d => \E i \in 1..Len(applied'[d]) : applied'[d][i].key = key
<1> DEFINE A == applied[d]
           D == dedup[d]
           L == Live(D)
           o == Len(A) - Len(L)
           e == Now(key)
<1>1. /\ A \in Seq(Entry) /\ D \in Seq(Entry) /\ Len(A) \in Nat /\ Len(D) \in Nat
      /\ dedup \in [Devices -> Seq(Entry)] /\ applied \in [Devices -> Seq(Entry)]
      /\ DEDUP_CAP \in Nat /\ DEDUP_TTL \in Nat
  BY SyncAssumption DEF HoldInv
<1>2. PICK p \in 0..Len(D) :
        /\ \A i \in 1..p : Stale(D[i])
        /\ L \in Seq(Entry) /\ Len(L) = Len(D) - p
        /\ \A i \in 1..Len(L) : L[i] = D[p + i]
  BY <1>1, LivePart
<1>3. /\ Len(D) <= DEDUP_CAP /\ Len(A) - Len(D) >= 0
      /\ \A i \in 1..Len(D) : D[i] = A[(Len(A) - Len(D)) + i]
      /\ \A i \in 1..(Len(A) - Len(D)) : Stale(A[i]) \/ Len(A) - i >= DEDUP_CAP
  BY DEF Remembers
<1> HIDE DEF A, D, L
<1>4. /\ o \in Nat /\ Len(L) \in Nat /\ o + Len(L) = Len(A)
      /\ o = (Len(A) - Len(D)) + p /\ Len(L) <= DEDUP_CAP
  <2>1. /\ Len(L) = Len(D) - p /\ p \in 0..Len(D)
        /\ Len(A) \in Nat /\ Len(D) \in Nat /\ DEDUP_CAP \in Nat
    BY <1>1, <1>2
  <2>2. Len(D) <= DEDUP_CAP /\ Len(A) - Len(D) >= 0
    BY <1>3
  <2> QED
    BY ONLY <2>1, <2>2
<1>5. ASSUME NEW i \in 1..o
      PROVE  Stale(A[i]) \/ Len(A) - i >= DEDUP_CAP
  <2>1. CASE i \in 1..(Len(A) - Len(D))
    BY <1>3, <2>1
  <2>2. CASE i \notin 1..(Len(A) - Len(D))
    <3> DEFINE k == i - (Len(A) - Len(D))
    <3>1. k \in 1..p /\ k \in 1..Len(D) /\ (Len(A) - Len(D)) + k = i
      BY <1>1, <1>2, <1>3, <1>4, <2>2
    <3>2. D[k] = A[i]
      BY <1>3, <3>1
    <3> QED
      BY <1>2, <3>1, <3>2
  <2> QED
    BY <2>1, <2>2
<1>6. ASSUME NEW i \in 1..Len(L)
      PROVE  L[i] = A[o + i]
  <2>1. p + i \in 1..Len(D) /\ (Len(A) - Len(D)) + (p + i) = o + i
    <3> HIDE DEF o
    <3> QED
      BY <1>1, <1>2, <1>4
  <2> QED
    BY <1>2, <1>3, <2>1
<1>7. CASE key.sender = d
  <2>1. dedup' = dedup /\ applied' = applied
    BY <1>7 DEF Offer
  <2>2. Remembers(d)' /\ NoDouble(d)'
    BY <2>1 DEF Remembers, NoDouble, Stale
  <2> QED
    BY <1>1, <1>7, <2>1, <2>2 DEF A
<1>8. CASE key.sender # d /\ Holds(L, key)
  <2>1. dedup' = [dedup EXCEPT ![d] = L] /\ applied' = applied
    BY <1>8 DEF Offer, L, D
  <2>2. dedup'[d] = L /\ applied'[d] = A /\ dedup' \in [Devices -> Seq(Entry)]
    BY <1>1, <1>2, <2>1 DEF A
  <2>3. Remembers(d)'
    <3>1. \A i \in 1..o : Stale(A[i])' \/ Len(A) - i >= DEDUP_CAP
      BY <1>5, <2>1 DEF Stale, A
    <3>2. /\ Len(dedup'[d]) <= DEDUP_CAP /\ Len(applied'[d]) - Len(dedup'[d]) >= 0
          /\ \A i \in 1..Len(dedup'[d]) :
                dedup'[d][i] = applied'[d][(Len(applied'[d]) - Len(dedup'[d])) + i]
      BY <1>4, <1>6, <2>2
    <3>3. \A i \in 1..(Len(applied'[d]) - Len(dedup'[d])) :
             Stale(applied[d][i])' \/ Len(applied'[d]) - i >= DEDUP_CAP
      BY <3>1, <2>2 DEF A
    <3> QED
      BY <3>2, <3>3 DEF Remembers
  <2>4. \E i \in 1..Len(A) : A[i].key = key
    <3>1. PICK i \in 1..Len(L) : L[i].key = key
      BY <1>2, <1>8 DEF Holds
    <3>2. o + i \in 1..Len(A)
      BY <1>1, <1>4
    <3> QED
      BY <1>6, <3>1, <3>2
  <2> QED
    BY <1>1, <2>1, <2>2, <2>3, <2>4 DEF NoDouble, A
<1>9. CASE key.sender # d /\ ~Holds(L, key)
  <2> DEFINE R == Room(L)
  <2>1. PICK q \in 0..1 :
           /\ q = 1 => Len(L) = DEDUP_CAP
           /\ R \in Seq(Entry) /\ Len(R) = Len(L) - q /\ Len(R) + 1 <= DEDUP_CAP
           /\ \A i \in 1..Len(R) : R[i] = L[q + i]
    BY <1>2, <1>4, RoomPart
  <2>2. e \in Entry /\ e.key = key /\ e.at = now
    BY DEF Now, Entry
  <2>3. /\ dedup' = [dedup EXCEPT ![d] = Append(R, e)]
        /\ applied' = [applied EXCEPT ![d] = Append(A, e)]
    BY <1>9 DEF Offer, L, D, A
  <2> HIDE DEF R, e
  <2>4. /\ Append(R, e) \in Seq(Entry) /\ Len(Append(R, e)) = Len(R) + 1
        /\ \A i \in 1..Len(R) : Append(R, e)[i] = R[i]
        /\ Append(R, e)[Len(R) + 1] = e
    BY <2>1, <2>2, AppendProperties
  <2>5. /\ Append(A, e) \in Seq(Entry) /\ Len(Append(A, e)) = Len(A) + 1
        /\ \A i \in 1..Len(A) : Append(A, e)[i] = A[i]
        /\ Append(A, e)[Len(A) + 1] = e
    BY <1>1, <2>2, AppendProperties
  <2> DEFINE AA == Append(A, e)
             DD == Append(R, e)
             oo == Len(AA) - Len(DD)
  <2>6. /\ dedup'[d] = DD /\ applied'[d] = AA
        /\ dedup' \in [Devices -> Seq(Entry)] /\ applied' \in [Devices -> Seq(Entry)]
    BY <1>1, <2>3, <2>4, <2>5
  <2> HIDE DEF AA, DD
  <2>7. Len(AA) = Len(A) + 1 /\ Len(DD) = Len(L) - q + 1 /\ oo = o + q /\ Len(DD) <= DEDUP_CAP
    BY <1>1, <1>4, <2>1, <2>4, <2>5 DEF AA, DD
  <2>8. ASSUME NEW i \in 1..Len(DD)
        PROVE  DD[i] = AA[oo + i]
    <3>1. CASE i = Len(R) + 1
      <4>1. oo + i = Len(A) + 1
        BY <1>1, <1>4, <2>1, <2>7, <3>1
      <4> QED
        BY <2>4, <2>5, <3>1, <4>1 DEF AA, DD
    <3>2. CASE i # Len(R) + 1
      <4>1. /\ i \in 1..Len(R) /\ q + i \in 1..Len(L)
            /\ o + (q + i) \in 1..Len(A) /\ o + (q + i) = oo + i
        <5>1. i \in 1..(Len(L) - q)
          BY SMTT(30), <1>4, <2>1, <2>7, <3>2
        <5>2. i \in 1..Len(R) /\ q + i \in 1..Len(L)
          BY <1>4, <2>1, <5>1
        <5> HIDE DEF o, oo
        <5>3. o + (q + i) \in 1..Len(A) /\ o + (q + i) = oo + i
          BY SMTT(30), <1>4, <2>7, <5>2
        <5> QED
          BY <5>2, <5>3
      <4>2. DD[i] = A[o + (q + i)]
        BY <1>6, <2>1, <2>4, <4>1 DEF DD
      <4> QED
        BY <2>5, <4>1, <4>2 DEF AA
    <3> QED
      BY <3>1, <3>2
  <2>9. ASSUME NEW i \in 1..oo
        PROVE  Stale(AA[i]) \/ Len(AA) - i >= DEDUP_CAP
    <3>1. i \in 1..Len(A) /\ AA[i] = A[i]
      BY SMTT(30), <1>1, <1>4, <2>1, <2>5, <2>7 DEF AA
    <3>2. CASE i \in 1..o
      <4>1. Stale(AA[i]) \/ Len(A) - i >= DEDUP_CAP
        BY <1>5, <3>1, <3>2
      <4> QED
        BY <1>1, <2>7, <3>2, <4>1
    <3>3. CASE i \notin 1..o
      <4> HIDE DEF o, oo
      <4>1. i = o + 1 /\ q = 1
        <5>1. q = 0 \/ q = 1
          OBVIOUS
        <5>2. oo = o + q /\ o \in Nat
          BY <1>4, <2>7
        <5>3. i \in 1..(o + q)
          BY <5>2
        <5>4. q # 0
          BY <3>3, <5>2, <5>3
        <5> QED
          BY <3>3, <5>1, <5>2, <5>3, <5>4
      <4> QED
        BY <1>1, <1>4, <2>1, <2>7, <4>1
    <3> QED
      BY <3>2, <3>3
  <2>10. Remembers(d)'
    <3>1. \A i \in 1..oo : Stale(applied[d][i])' \/ Len(AA) - i >= DEDUP_CAP
      BY <2>6, <2>9 DEF Stale
    <3>2. oo >= 0
      BY SMTT(30), <1>4, <2>1, <2>7
    <3> QED
      BY <2>6, <2>7, <2>8, <3>1, <3>2 DEF Remembers
  <2>11. NoDouble(d)'
    <3> SUFFICES ASSUME NEW i \in 1..Len(AA), NEW j \in 1..Len(AA),
                        i < j, AA[i].key = AA[j].key
                 PROVE  AA[j].at - AA[i].at > DEDUP_TTL \/ j - i > DEDUP_CAP
      BY <2>6 DEF NoDouble
    <3>1. i \in 1..Len(A) /\ AA[i] = A[i]
      BY <1>1, <2>5, <2>7 DEF AA
    <3>2. CASE j \in 1..Len(A)
      BY <2>5, <3>1, <3>2 DEF NoDouble, A, AA
    <3>3. CASE j = Len(A) + 1
      <4>1. AA[j] = e /\ A[i].key = key
        BY <2>2, <2>5, <3>1, <3>3 DEF AA
      <4>2. i \in 1..o
        <5> SUFFICES ASSUME i \notin 1..o
                     PROVE  FALSE
          OBVIOUS
        <5>1. i - o \in 1..Len(L) /\ o + (i - o) = i
          BY <1>1, <1>4, <3>1
        <5>2. L[i - o].key = key
          BY <1>6, <4>1, <5>1
        <5> QED
          BY <1>2, <1>9, <5>1, <5>2 DEF Holds
      <4>3. Stale(A[i]) \/ Len(A) - i >= DEDUP_CAP
        BY <1>5, <4>2
      <4>4. CASE Stale(A[i])
        BY <2>2, <3>1, <4>1, <4>4 DEF Stale
      <4>5. CASE Len(A) - i >= DEDUP_CAP
        BY <1>1, <3>3, <4>5
      <4> QED
        BY <4>3, <4>4, <4>5
    <3>4. j \in 1..Len(A) \/ j = Len(A) + 1
      <4>1. Len(AA) = Len(A) + 1 /\ Len(A) \in Nat
        BY <1>1, <2>7
      <4> QED
        BY <4>1
    <3> QED
      BY <3>2, <3>3, <3>4
  <2>12. \E i \in 1..Len(AA) : AA[i].key = key
    <3>1. Len(A) + 1 \in 1..Len(AA)
      BY <1>1, <2>7
    <3> QED
      BY <2>2, <2>5, <3>1 DEF AA
  <2>13. Len(A) <= Len(AA) /\ \A i \in 1..Len(A) : AA[i] = A[i]
    BY <1>1, <2>5, <2>7 DEF AA
  <2> QED
    BY <1>1, <2>3, <2>6, <2>10, <2>11, <2>12, <2>13 DEF A
<1> QED
  BY <1>7, <1>8, <1>9

-----------------------------------------------------------------------------
(* What a step does to one device *)

Untouched(e) == batch'[e] = batch[e] /\ dedup'[e] = dedup[e] /\ applied'[e] = applied[e]

\* The relay does nothing for e, drops its socket, or sends it one frame.
Sends(e) ==
    /\ Untouched(e)
    /\ \/ wire'[e] = wire[e] /\ seen'[e] = seen[e]
       \/ wire'[e] = <<>> /\ seen'[e] = {}
       \/ \E f \in Frame :
             /\ wire'[e] = Append(wire[e], f)
             /\ FrameClips(f) \subseteq 1..Len(sent[G])
             /\ seen'[e] \subseteq seen[e] \cup FrameClips(f)

Reads(e) ==
    /\ wire[e] # <<>> /\ wire'[e] = Tail(wire[e]) /\ seen'[e] = seen[e]
    /\ batch[e] = {} /\ batch'[e] = FrameClips(Head(wire[e]))
    /\ dedup'[e] = dedup[e] /\ applied'[e] = applied[e]

Handles(e) ==
    /\ wire'[e] = wire[e] /\ seen'[e] = seen[e] /\ now' = now
    /\ \E n \in batch[e] :
          batch'[e] = batch[e] \ {n} /\ n \in 1..Len(sent[G]) /\ Offer(e, Key(sent[G][n]))

Overhears(e) ==
    /\ wire'[e] = wire[e] /\ seen'[e] = seen[e] /\ batch'[e] = batch[e] /\ now' = now
    /\ \E key \in Keys : Offer(e, key)

Moves(e) == Sends(e) \/ Reads(e) \/ Handles(e) \/ Overhears(e)

LEMMA KeyType ==
    ASSUME TypeOK, NEW n \in 1..Len(sent[G])
    PROVE  Key(sent[G][n]) \in Keys /\ Key(sent[G][n]).sender = sent[G][n].sender
<1>1. sent[G][n] \in Clip
  BY OneGroup, ClipType
<1>2. sent[G][n].ts \in Stamps
  BY <1>1 DEF Clip
<1> QED
  BY <1>1, <1>2 DEF Clip, Key, Keys

LEMMA OfferLocal ==
    ASSUME HoldInv, NEW d \in Devices, NEW key \in Keys, Offer(d, key),
           NEW e \in Devices, e # d
    PROVE  dedup'[e] = dedup[e] /\ applied'[e] = applied[e]
BY DEF Offer, HoldInv

LEMMA ClipsOf ==
    /\ \A g \in Groups : FrameClips([type |-> "Joined", group |-> g]) = {}
    /\ \A g \in Groups, n \in Nat : FrameClips([type |-> "Clip", group |-> g, n |-> n]) = {n}
    /\ \A g \in Groups, S \in SUBSET Nat :
          FrameClips([type |-> "Recent", group |-> g, clips |-> S]) = S
BY DEF FrameClips

\* The clock and the history only grow.
LEMMA HistoryGrows ==
    ASSUME TypeOK, [Next]_vars
    PROVE  /\ now' \in Nat /\ now <= now'
           /\ Len(sent[G]) <= Len(sent'[G])
           /\ \A n \in 1..Len(sent[G]) : sent'[G][n] = sent[G][n]
<1>1. now \in Nat /\ Len(sent[G]) \in Nat
  BY OneGroup DEF TypeOK
<1>2. CASE Tick
  BY <1>1, <1>2 DEF Tick, hubVars
<1>3. ASSUME NEW c \in Conns, NEW g \in Groups, NEW ts \in Stamps, Publish(c, g, ts)
      PROVE  /\ now' = now /\ Len(sent'[G]) = Len(sent[G]) + 1
             /\ \A n \in 1..Len(sent[G]) : sent'[G][n] = sent[G][n]
  <2>1. g = G
    BY OneGroup
  <2> QED
    BY <1>3, <2>1, PublishEffect
<1>4. ASSUME NEW c \in Conns, NEW g \in Groups, FetchRecent(c, g)
      PROVE  now' = now /\ sent' = sent
  BY <1>4 DEF FetchRecent
<1> QED
  BY <1>1, <1>2, <1>3, <1>4, HubStep

\* Every step is one of these for every device.
LEMMA StepMoves ==
    ASSUME IInv, HoldInv, AskInv, PublishedInv, [SyncNext]_syncVars, NEW e \in Devices
    PROVE  Moves(e)
<1>1. /\ e \in Conns /\ Conns = Devices
      /\ wire \in [Devices -> Seq(Frame)] /\ seen \in [Devices -> SUBSET Nat]
      /\ rx \in [Devices -> Receiver] /\ TypeOK /\ CacheInv
      /\ batch \in [Devices -> SUBSET Nat] /\ Len(sent[G]) \in Nat
  BY SyncAssumption, OneGroup DEF IInv, TypeOK, HoldInv
<1>2. UNCHANGED <<wire, seen, batch, dedup, applied>> => Moves(e)
  BY DEF Moves, Sends, Untouched
<1>3. CASE SyncTick \/ UNCHANGED syncVars
  BY <1>2, <1>3 DEF SyncTick, Tick, syncVars, vars, clientVars, obsVars
<1>4. ASSUME NEW d \in Devices,
             Connect(d) \/ SendClip(d) \/ HostFetch(d) \/ LanLose(d)
      PROVE  Moves(e)
  BY <1>2, <1>4 DEF Connect, SendClip, HostFetch, LanLose, Accept, vars, obsVars
<1>5. ASSUME NEW d \in Devices, Disconnect(d)
      PROVE  Moves(e)
  BY <1>1, <1>5 DEF Disconnect, Close, clientVars, Moves, Sends, Untouched
<1>6. ASSUME NEW d \in Devices, Receive(d)
      PROVE  Moves(e)
  <2>1. CASE d = e
    BY <1>1, <1>6, <2>1 DEF Receive, InHandler, Read, obsVars, Moves, Reads
  <2>2. CASE d # e
    BY <1>1, <1>6, <2>2 DEF Receive, Read, obsVars, Moves, Sends, Untouched
  <2> QED
    BY <2>1, <2>2
<1>7. ASSUME NEW d \in Devices, HandleNext(d)
      PROVE  Moves(e)
  <2>1. PICK n \in batch[d] :
           /\ batch' = [batch EXCEPT ![d] = @ \ {n}]
           /\ Offer(d, Key(sent[G][n]))
           /\ UNCHANGED <<wire, seen, now>>
    BY <1>7 DEF HandleNext, vars, obsVars
  <2>2. n \in 1..Len(sent[G]) /\ Key(sent[G][n]) \in Keys
    BY <1>1, KeyType DEF PublishedInv
  <2>3. CASE d = e
    BY <1>1, <2>1, <2>2, <2>3 DEF Moves, Handles
  <2>4. CASE d # e
    BY <1>1, <2>1, <2>2, <2>4, OfferLocal DEF Moves, Sends, Untouched
  <2> QED
    BY <2>3, <2>4
<1>8. ASSUME NEW d \in Devices, LanReceive(d)
      PROVE  Moves(e)
  <2>1. Head(lan[d]) \in Keys
    BY <1>8 DEF LanReceive, HoldInv
  <2>2. PICK key \in Keys : Offer(d, key)
    BY <1>8, <2>1 DEF LanReceive
  <2>3. UNCHANGED <<wire, seen, now, batch>>
    BY <1>8 DEF LanReceive, vars, obsVars
  <2>4. CASE d = e
    BY <2>2, <2>3, <2>4 DEF Moves, Overhears
  <2>5. CASE d # e
    BY <2>2, <2>3, <2>5, OfferLocal DEF Moves, Sends, Untouched
  <2> QED
    BY <2>4, <2>5
<1>9. ASSUME NEW d \in Devices, RelayHandles(d)
      PROVE  Moves(e)
  <2>1. Untouched(e)
    BY <1>9 DEF RelayHandles, clientVars, Untouched
  <2>2. Join(d, G, d) \/ FetchRecent(d, G) \/ \E ts : Publish(d, G, ts)
    BY <1>9 DEF RelayHandles, Handle
  <2>3. CASE Join(d, G, d)
    <3>1. CASE d = e
      <4> DEFINE f == [type |-> "Joined", group |-> G]
      <4>1. f \in Frame /\ FrameClips(f) = {}
        BY OneGroup, ClipsOf DEF Frame
      <4>2. wire'[e] = Append(wire[e], f) /\ seen'[e] = {}
        BY <1>1, <2>3, <3>1 DEF Join, Send
      <4> QED
        BY <2>1, <4>1, <4>2 DEF Moves, Sends
    <3>2. CASE d # e
      BY <1>1, <2>1, <2>3, <3>2 DEF Join, Send, Moves, Sends
    <3> QED
      BY <3>1, <3>2
  <2>4. CASE FetchRecent(d, G)
    <3>1. CASE d = e
      <4> DEFINE f == [type |-> "Recent", group |-> G, clips |-> Retain(G)]
      <4>1. Retain(G) \in SUBSET Nat /\ Retain(G) \subseteq 1..Len(sent[G])
        BY <1>1, OneGroup, CacheType DEF CacheInv, Retain
      <4>2. f \in Frame /\ FrameClips(f) = Retain(G)
        BY <4>1, OneGroup, ClipsOf DEF Frame
      <4>3. wire'[e] = Append(wire[e], f) /\ seen'[e] = seen[e] \cup Retain(G)
        BY <1>1, <2>4, <3>1 DEF FetchRecent, Send
      <4> QED
        BY <2>1, <4>1, <4>2, <4>3 DEF Moves, Sends
    <3>2. CASE d # e
      BY <1>1, <2>1, <2>4, <3>2 DEF FetchRecent, Send, Moves, Sends
    <3> QED
      BY <3>1, <3>2
  <2>5. ASSUME NEW ts, Publish(d, G, ts)
        PROVE  Moves(e)
    BY <2>1, <2>5 DEF Publish, obsVars, Moves, Sends
  <2> QED
    BY <2>2, <2>3, <2>4, <2>5
<1>10. ASSUME NEW d \in Devices, RelayForwards(d)
       PROVE  Moves(e)
  <2>1. Untouched(e)
    BY <1>10 DEF RelayForwards, clientVars, Untouched
  <2>2. CASE SkipLagged(d)
    BY <2>1, <2>2 DEF SkipLagged, obsVars, Moves, Sends
  <2>3. CASE Forward(d)
    <3> DEFINE g == rx[d].group
               n == rx[d].pos + 1
               f == [type |-> "Clip", group |-> g, n |-> n]
    <3>1. g = G /\ n \in 1..Len(sent[G])
      BY <1>1, <2>3, OneGroup DEF Forward, Pending, Receiver
    <3>2. f \in Frame /\ FrameClips(f) = {n}
      BY <3>1, OneGroup, ClipsOf DEF Frame
    <3>3. CASE UNCHANGED <<wire, seen>>
      BY <2>1, <3>3 DEF Moves, Sends
    <3>4. CASE Send(d, f) /\ seen' = [seen EXCEPT ![d] = @ \cup {n}]
      <4>1. CASE d = e
        <5>1. wire'[e] = Append(wire[e], f) /\ seen'[e] = seen[e] \cup {n}
          BY <1>1, <3>4, <4>1 DEF Send
        <5> HIDE DEF f
        <5> QED
          BY <2>1, <3>1, <3>2, <5>1 DEF Moves, Sends
      <4>2. CASE d # e
        BY <1>1, <2>1, <3>4, <4>2 DEF Send, Moves, Sends
      <4> QED
        BY <4>1, <4>2
    <3> QED
      BY <2>3, <3>3, <3>4 DEF Forward
  <2> QED
    BY <1>10, <2>2, <2>3 DEF RelayForwards
<1> QED
  BY <1>3, <1>4, <1>5, <1>6, <1>7, <1>8, <1>9, <1>10 DEF SyncNext

-----------------------------------------------------------------------------
(* Steps *)

\* What clients hold stays well typed.
LEMMA HoldStep ==
    ASSUME IInv, IInv', AskInv, HoldInv, PublishedInv, [SyncNext]_syncVars,
           \A d \in Devices : Remembers(d) /\ NoDouble(d)
    PROVE  HoldInv'
<1>1. /\ TypeOK /\ now \in Nat /\ stamp \in 0..MaxClips
      /\ \A d \in Devices : wire[d] \in Seq(Frame)
  BY SyncAssumption DEF IInv, TypeOK, AskInv
<1>2. ASSUME NEW d \in Devices, NEW key \in Keys, Offer(d, key), now' = now
      PROVE  dedup' \in [Devices -> Seq(Entry)] /\ applied' \in [Devices -> Seq(Entry)]
  BY <1>1, <1>2, OfferEffect
<1>3. CASE UNCHANGED clientVars
  BY <1>3 DEF clientVars, HoldInv
<1>4. ASSUME NEW d \in Devices, Connect(d)
      PROVE  HoldInv'
  BY <1>4, SyncAssumption DEF HoldInv, Connect
<1>5. ASSUME NEW d \in Devices, SendClip(d)
      PROVE  HoldInv'
  <2>1. [sender |-> d, ts |-> stamp + 1] \in Keys
    BY <1>1, <1>5, BoundAssumption, SyncAssumption DEF Keys, SendClip
  <2>2. \A p \in Devices : Append(lan[p], [sender |-> d, ts |-> stamp + 1]) \in Seq(Keys)
    BY <2>1 DEF HoldInv
  <2> QED
    BY <1>5, <2>2 DEF HoldInv, SendClip
<1>6. ASSUME NEW d \in Devices, HostFetch(d)
      PROVE  HoldInv'
  BY <1>6, SyncAssumption DEF HoldInv, HostFetch
<1>7. ASSUME NEW d \in Devices, Receive(d)
      PROVE  HoldInv'
  <2>1. Head(wire[d]) \in Frame
    BY <1>1, <1>7 DEF Receive, Read
  <2>2. FrameClips(Head(wire[d])) \in SUBSET Nat
    BY <2>1 DEF Frame, FrameClips
  <2> QED
    BY <1>7, <2>2 DEF HoldInv, Receive
<1>8. ASSUME NEW d \in Devices, HandleNext(d)
      PROVE  HoldInv'
  <2>1. PICK n \in batch[d] :
           /\ batch' = [batch EXCEPT ![d] = @ \ {n}]
           /\ Offer(d, Key(sent[G][n]))
           /\ UNCHANGED <<now, lan, sessions, fetches>>
    BY <1>8 DEF HandleNext, vars
  <2>2. Key(sent[G][n]) \in Keys
    BY <1>1, KeyType DEF PublishedInv
  <2> QED
    BY <1>2, <2>1, <2>2 DEF HoldInv
<1>9. ASSUME NEW d \in Devices, LanReceive(d)
      PROVE  HoldInv'
  <2>1. Head(lan[d]) \in Keys /\ Tail(lan[d]) \in Seq(Keys)
    BY <1>9 DEF LanReceive, HoldInv
  <2>2. now' = now
    BY <1>9 DEF LanReceive, vars
  <2>3. dedup' \in [Devices -> Seq(Entry)] /\ applied' \in [Devices -> Seq(Entry)]
    BY <1>2, <1>9, <2>1, <2>2 DEF LanReceive
  <2> QED
    BY <1>9, <2>1, <2>3 DEF LanReceive, HoldInv
<1>10. ASSUME NEW d \in Devices, LanLose(d)
       PROVE  HoldInv'
  <2>1. Tail(lan[d]) \in Seq(Keys)
    BY <1>10 DEF LanLose, HoldInv
  <2> QED
    BY <1>10, <2>1 DEF LanLose, HoldInv
<1>11. ASSUME NEW d \in Devices, Disconnect(d) \/ RelayHandles(d) \/ RelayForwards(d)
       PROVE  HoldInv'
  BY <1>3, <1>11 DEF Disconnect, RelayHandles, RelayForwards
<1>12. CASE SyncTick \/ UNCHANGED syncVars
  BY <1>3, <1>12 DEF SyncTick, syncVars
<1> QED
  BY <1>4, <1>5, <1>6, <1>7, <1>8, <1>9, <1>10, <1>11, <1>12 DEF SyncNext

\* A socket joins under the name of its device.
LEMMA NameStep ==
    ASSUME IInv, PublishedInv, [SyncNext]_syncVars, NEW e \in Devices
    PROVE  device'[e] \in {None, e}
<1>1. device[e] \in {None, e} /\ device \in [Devices -> Devices \cup {None}]
  BY SyncAssumption DEF PublishedInv, IInv, TypeOK
<1>2. CASE device' = device
  BY <1>1, <1>2
<1>3. ASSUME NEW d \in Devices, Join(d, G, d) \/ Close(d)
      PROVE  device'[e] \in {None, e}
  BY <1>1, <1>3 DEF Join, Close
<1>4. ASSUME NEW d \in Devices, RelayHandles(d)
      PROVE  device'[e] \in {None, e}
  BY <1>2, <1>3, <1>4 DEF RelayHandles, Handle, FetchRecent, Publish, sockVars
<1>5. ASSUME NEW d \in Devices, Disconnect(d)
      PROVE  device'[e] \in {None, e}
  BY <1>3, <1>5 DEF Disconnect
<1>6. ASSUME NEW d \in Devices,
             Connect(d) \/ SendClip(d) \/ HostFetch(d) \/ Receive(d) \/ HandleNext(d)
                \/ LanReceive(d) \/ LanLose(d) \/ RelayForwards(d)
      PROVE  device' = device
  BY <1>6 DEF Connect, SendClip, HostFetch, Receive, HandleNext, LanReceive, LanLose,
              RelayForwards, Accept, Read, Forward, SkipLagged, vars, sockVars
<1>7. CASE SyncTick \/ UNCHANGED syncVars
  BY <1>2, <1>7 DEF SyncTick, Tick, syncVars, vars, sockVars
<1> QED
  BY <1>2, <1>4, <1>5, <1>6, <1>7 DEF SyncNext

\* Nothing is on its way that was not published.
LEMMA PublishedStep ==
    ASSUME IInv, HoldInv, AskInv, PublishedInv, [SyncNext]_syncVars
    PROVE  PublishedInv'
<1>1. /\ Len(sent[G]) <= Len(sent'[G]) /\ Len(sent[G]) \in Nat /\ Len(sent'[G]) \in Nat
  <2>1. Len(sent[G]) <= Len(sent'[G])
    BY RelayStep, HistoryGrows DEF IInv
  <2>2. Len(sent[G]) \in Nat
    BY OneGroup DEF IInv, TypeOK
  <2>3. TypeOK'
    BY RelayStep, TypeStep DEF IInv
  <2>4. Len(sent'[G]) \in Nat
    BY <2>3, OneGroup DEF TypeOK
  <2> QED
    BY <2>1, <2>2, <2>4
<1>2. 1..Len(sent[G]) \subseteq 1..Len(sent'[G])
  BY <1>1
<1> SUFFICES ASSUME NEW e \in Devices
             PROVE  /\ batch'[e] \subseteq 1..Len(sent[G])
                    /\ \A i \in 1..Len(wire'[e]) : FrameClips(wire'[e][i]) \subseteq 1..Len(sent[G])
                    /\ device'[e] \in {None, e}
  BY <1>2 DEF PublishedInv
<1>3. /\ wire[e] \in Seq(Frame) /\ batch[e] \subseteq 1..Len(sent[G])
      /\ \A i \in 1..Len(wire[e]) : FrameClips(wire[e][i]) \subseteq 1..Len(sent[G])
  BY SyncAssumption DEF PublishedInv, IInv, TypeOK
<1>4. Moves(e) /\ device'[e] \in {None, e}
  BY StepMoves, NameStep
<1>5. CASE Sends(e)
  <2>1. batch'[e] = batch[e]
    BY <1>5 DEF Sends, Untouched
  <2>2. CASE wire'[e] = wire[e] \/ wire'[e] = <<>>
    BY <1>3, <1>4, <2>1, <2>2
  <2>3. CASE \E f \in Frame : wire'[e] = Append(wire[e], f) /\ FrameClips(f) \subseteq 1..Len(sent[G])
    <3>1. PICK f \in Frame :
             wire'[e] = Append(wire[e], f) /\ FrameClips(f) \subseteq 1..Len(sent[G])
      BY <2>3
    <3>2. \A i \in 1..Len(wire'[e]) : wire'[e][i] = f \/ (i \in 1..Len(wire[e]) /\ wire'[e][i] = wire[e][i])
      BY <1>3, <3>1
    <3> QED
      BY <1>3, <1>4, <2>1, <3>1, <3>2
  <2> QED
    BY <1>5, <2>2, <2>3 DEF Sends
<1>6. CASE Reads(e)
  <2>1. Head(wire[e]) = wire[e][1] /\ 1 \in 1..Len(wire[e])
    BY <1>3, <1>6 DEF Reads
  <2>2. \A i \in 1..Len(wire'[e]) : i + 1 \in 1..Len(wire[e]) /\ wire'[e][i] = wire[e][i + 1]
    BY <1>3, <1>6 DEF Reads
  <2>3. batch'[e] = FrameClips(wire[e][1])
    BY <1>6, <2>1 DEF Reads
  <2> QED
    BY <1>3, <1>4, <2>1, <2>2, <2>3
<1>7. CASE Handles(e) \/ Overhears(e)
  BY <1>3, <1>4, <1>7 DEF Handles, Overhears
<1> QED
  BY <1>4, <1>5, <1>6, <1>7 DEF Moves

\* No clip is given twice too soon, and the cache keeps up with what was given.
LEMMA RememberStep ==
    ASSUME IInv, HoldInv, AskInv, PublishedInv, [SyncNext]_syncVars,
           NEW e \in Devices, Remembers(e), NoDouble(e)
    PROVE  Remembers(e)' /\ NoDouble(e)'
<1>1. now \in Nat /\ now' \in Nat /\ now <= now' /\ TypeOK /\ DEDUP_TTL \in Nat
  BY RelayStep, HistoryGrows, SyncAssumption DEF IInv, TypeOK
<1>2. Moves(e)
  BY StepMoves
<1>3. CASE Sends(e) \/ Reads(e)
  <2>1. dedup'[e] = dedup[e] /\ applied'[e] = applied[e]
    BY <1>3 DEF Sends, Untouched, Reads
  <2>2. ASSUME NEW i \in 1..Len(applied[e]), Stale(applied[e][i])
        PROVE  Stale(applied[e][i])'
    <3>1. applied[e][i].at \in Nat
      <4>1. applied[e] \in Seq(Entry)
        BY DEF HoldInv
      <4>2. applied[e][i] \in Entry
        BY <4>1
      <4> QED
        BY <4>2 DEF Entry
    <3> QED
      BY <1>1, <2>1, <2>2, <3>1 DEF Stale
  <2>3. NoDouble(e)'
    BY <2>1 DEF NoDouble
  <2>4. Len(applied[e]) \in Nat /\ Len(dedup[e]) \in Nat
    BY DEF HoldInv
  <2>5. \A i \in 1..(Len(applied[e]) - Len(dedup[e])) :
           Stale(applied[e][i])' \/ Len(applied[e]) - i >= DEDUP_CAP
    <3>1. \A i \in 1..(Len(applied[e]) - Len(dedup[e])) : i \in 1..Len(applied[e])
      BY <2>4
    <3> QED
      BY <2>2, <3>1 DEF Remembers
  <2> QED
    BY <2>1, <2>3, <2>5 DEF Remembers
<1>4. CASE Handles(e)
  <2>1. PICK n \in 1..Len(sent[G]) : Offer(e, Key(sent[G][n]))
    BY <1>4 DEF Handles
  <2>2. Key(sent[G][n]) \in Keys /\ now' = now
    BY <1>1, <1>4, KeyType DEF Handles
  <2> QED
    BY <1>1, <2>1, <2>2, OfferEffect
<1>5. CASE Overhears(e)
  BY <1>1, <1>5, OfferEffect DEF Overhears
<1> QED
  BY <1>2, <1>3, <1>4, <1>5 DEF Moves

\* What the relay has sent goes from the wire to the handler and from there to
\* the host, if it was not there already.
LEMMA AccountStep ==
    ASSUME IInv, HoldInv, AskInv, PublishedInv, [SyncNext]_syncVars, HoldInv',
           NEW e \in Devices, Remembers(e), NoDouble(e), Accounted(e)
    PROVE  Accounted(e)'
<1>1. /\ now \in Nat /\ TypeOK /\ wire[e] \in Seq(Frame) /\ Len(sent[G]) \in Nat
      /\ sent[G] \in Seq(Clip) /\ applied[e] \in Seq(Entry) /\ applied'[e] \in Seq(Entry)
  BY SMTT(30), SyncAssumption, OneGroup DEF IInv, TypeOK, HoldInv
<1>2. Len(sent'[G]) \in Nat /\ sent'[G] \in Seq(Clip)
  <2>1. TypeOK'
    BY RelayStep, TypeStep DEF IInv
  <2> QED
    BY <2>1, OneGroup DEF TypeOK
<1>3. /\ Len(sent[G]) <= Len(sent'[G])
      /\ \A n \in 1..Len(sent[G]) : sent'[G][n] = sent[G][n]
  BY RelayStep, HistoryGrows DEF IInv
<1>4. ASSUME NEW n \in 1..Len(sent[G])
      PROVE  n \in 1..Len(sent'[G]) /\ Key(sent'[G][n]) = Key(sent[G][n])
  BY <1>1, <1>2, <1>3 DEF Key
<1>5. Moves(e)
  BY StepMoves
<1>6. Len(applied[e]) <= Len(applied'[e]) /\ \A i \in 1..Len(applied[e]) : applied'[e][i] = applied[e][i]
  <2>1. CASE Sends(e) \/ Reads(e)
    BY <1>1, <2>1 DEF Sends, Untouched, Reads
  <2>2. CASE Handles(e)
    BY <1>1, <2>2, KeyType, OfferEffect DEF Handles
  <2>3. CASE Overhears(e)
    BY <1>1, <2>3, OfferEffect DEF Overhears
  <2> QED
    BY <1>5, <2>1, <2>2, <2>3 DEF Moves
<1>7. ASSUME NEW n \in 1..Len(sent[G]), Given(e, n)
      PROVE  Given(e, n)'
  <2>1. PICK i \in 1..Len(applied[e]) : applied[e][i].key = Key(sent[G][n])
    <3>1. DOMAIN applied[e] = 1..Len(applied[e])
      BY <1>1
    <3> QED
      BY <1>7, <3>1 DEF Given
  <2>2. i \in DOMAIN applied'[e] /\ applied'[e][i].key = Key(sent'[G][n])
    BY SMTT(30), <1>1, <1>4, <1>6, <2>1
  <2>3. n \in DOMAIN sent'[G]
    BY <1>2, <1>4
  <2> QED
    BY <2>2, <2>3 DEF Given
<1>8. ASSUME seen'[e] # {}, NEW n \in 1..Len(sent[G]), OnItsWay(e, n)
      PROVE  sent[G][n].sender = e \/ OnItsWay(e, n)' \/ Given(e, n)'
  <2>1. CASE Sends(e)
    <3>1. batch'[e] = batch[e]
      BY <2>1 DEF Sends, Untouched
    <3>2. \A i \in 1..Len(wire[e]) : i \in 1..Len(wire'[e]) /\ wire'[e][i] = wire[e][i]
      BY <1>1, <1>8, <2>1 DEF Sends
    <3> QED
      BY <1>8, <3>1, <3>2 DEF OnItsWay
  <2>2. CASE Reads(e)
    <3>1. PICK i \in 1..Len(wire[e]) : n \in FrameClips(wire[e][i])
      BY <1>8, <2>2 DEF OnItsWay, Reads
    <3>2. CASE i = 1
      <4>1. batch'[e] = FrameClips(wire[e][1])
        BY <1>1, <2>2 DEF Reads
      <4> QED
        BY <3>1, <3>2, <4>1 DEF OnItsWay
    <3>3. CASE i # 1
      <4>1. i - 1 \in 1..Len(wire'[e]) /\ wire'[e][i - 1] = wire[e][i]
        BY <1>1, <2>2, <3>3 DEF Reads
      <4> QED
        BY <3>1, <4>1 DEF OnItsWay
    <3> QED
      BY <3>2, <3>3
  <2>3. CASE Handles(e)
    <3>1. PICK m \in batch[e] :
             /\ batch'[e] = batch[e] \ {m} /\ m \in 1..Len(sent[G])
             /\ Offer(e, Key(sent[G][m])) /\ now' = now /\ wire'[e] = wire[e]
      BY <2>3 DEF Handles
    <3>2. CASE n = m
      <4>1. Key(sent[G][n]) \in Keys /\ Key(sent[G][n]).sender = sent[G][n].sender
        BY <1>1, KeyType
      <4>2. sent[G][n].sender # e =>
               \E i \in 1..Len(applied'[e]) : applied'[e][i].key = Key(sent[G][n])
        BY <1>1, <3>1, <3>2, <4>1, OfferEffect
      <4>3. n \in DOMAIN sent'[G] /\ DOMAIN applied'[e] = 1..Len(applied'[e])
        BY <1>1, <1>2, <1>4
      <4> QED
        BY <1>4, <4>2, <4>3 DEF Given
    <3>3. CASE n # m
      BY <1>8, <3>1, <3>3 DEF OnItsWay
    <3> QED
      BY <3>2, <3>3
  <2>4. CASE Overhears(e)
    BY <1>8, <2>4 DEF Overhears, OnItsWay
  <2> QED
    BY <1>5, <2>1, <2>2, <2>3, <2>4 DEF Moves
<1> SUFFICES ASSUME NEW n \in seen'[e]
             PROVE  /\ n \in 1..Len(sent'[G])
                    /\ sent'[G][n].sender = e \/ OnItsWay(e, n)' \/ Given(e, n)'
  BY DEF Accounted
<1>9. CASE n \in seen[e]
  <2>1. n \in 1..Len(sent[G]) /\ (sent[G][n].sender = e \/ OnItsWay(e, n) \/ Given(e, n))
    BY <1>9 DEF Accounted
  <2>2. sent[G][n].sender = e \/ OnItsWay(e, n)' \/ Given(e, n)'
    BY <1>7, <1>8, <2>1
  <2> QED
    BY <1>3, <1>4, <2>1, <2>2
<1>10. CASE n \notin seen[e]
  <2>1. PICK f \in Frame :
           /\ wire'[e] = Append(wire[e], f)
           /\ FrameClips(f) \subseteq 1..Len(sent[G])
           /\ n \in FrameClips(f)
    BY <1>5, <1>10 DEF Moves, Sends, Reads, Handles, Overhears
  <2>2. Len(wire[e]) + 1 \in 1..Len(wire'[e]) /\ wire'[e][Len(wire[e]) + 1] = f
    BY <1>1, <2>1
  <2>3. OnItsWay(e, n)'
    BY <2>1, <2>2 DEF OnItsWay
  <2>4. n \in 1..Len(sent'[G])
    BY <1>4, <2>1
  <2> QED
    BY <2>3, <2>4
<1> QED
  BY <1>9, <1>10

-----------------------------------------------------------------------------
(* The theorems *)

LEMMA SyncInitially == SyncInit => HoldInv /\ PublishedInv
                           /\ \A d \in Devices : Remembers(d) /\ Accounted(d) /\ NoDouble(d)
<1> SUFFICES ASSUME SyncInit
             PROVE  /\ HoldInv /\ PublishedInv
                    /\ \A d \in Devices : Remembers(d) /\ Accounted(d) /\ NoDouble(d)
  OBVIOUS
<1>1. Conns = Devices /\ DEDUP_CAP \in Nat /\ MaxSessions \in Nat /\ MaxFetches \in Nat
  BY SyncAssumption
<1>2. HoldInv
  BY <1>1 DEF SyncInit, HoldInv
<1>3. ASSUME NEW d \in Devices
      PROVE  /\ batch[d] = {} /\ wire[d] = <<>> /\ device[d] = None /\ seen[d] = {}
             /\ dedup[d] = <<>> /\ applied[d] = <<>>
  BY <1>1 DEF SyncInit, Init
<1>4. PublishedInv
  BY <1>3 DEF PublishedInv
<1>5. ASSUME NEW d \in Devices
      PROVE  Remembers(d) /\ Accounted(d) /\ NoDouble(d)
  <2>1. Len(<<>>) = 0 /\ 1..0 = {} /\ 1..(0 - 0) = {}
    OBVIOUS
  <2>2. Accounted(d)
    BY <1>3 DEF Accounted
  <2>3. NoDouble(d)
    BY <1>3, <2>1 DEF NoDouble
  <2>4. Remembers(d)
    <3>1. Len(applied[d]) = 0 /\ Len(dedup[d]) = 0 /\ 0 - 0 = 0 /\ 0 >= 0 /\ 0 <= DEDUP_CAP
      BY <1>1, <1>3, <2>1
    <3> QED
      BY <2>1, <3>1 DEF Remembers
  <2> QED
    BY <2>2, <2>3, <2>4
<1> QED
  BY <1>2, <1>4, <1>5

LEMMA ClientStep ==
    ASSUME IInv, IInv', ClientInv, [SyncNext]_syncVars
    PROVE  ClientInv'
<1> USE DEF ClientInv
<1>1. AskInv'
  BY AskStep
<1>2. HoldInv'
  BY HoldStep
<1>3. PublishedInv'
  BY PublishedStep
<1>4. ASSUME NEW d \in Devices
      PROVE  Remembers(d)' /\ NoDouble(d)' /\ Accounted(d)'
  BY <1>2, RememberStep, AccountStep
<1> QED
  BY <1>1, <1>2, <1>3, <1>4

LEMMA SyncInductive == SyncSpec => [](IInv /\ ClientInv)
<1>1. SyncSpec => []IInv
  BY SyncImplementsRelay, Inductive, PTL
<1>2. SyncInit => ClientInv
  BY AskInitially, SyncInitially DEF ClientInv
<1> QED
  BY <1>1, <1>2, ClientStep, PTL DEF SyncSpec

\* DedupCache::insert over all arrivals: Clip frames, Recent replies, the LAN
\* and reconnects give the host a clip a second time only after its entry has
\* expired or was pushed out.
THEOREM NoDoubleApplyHolds == SyncSpec => []NoDoubleApply
<1>1. ClientInv => NoDoubleApply
  <2> SUFFICES ASSUME ClientInv, NEW d \in Devices
               PROVE  \A i, j \in DOMAIN applied[d] :
                          i < j /\ applied[d][i].key = applied[d][j].key =>
                              applied[d][j].at - applied[d][i].at > DEDUP_TTL \/ j - i > DEDUP_CAP
    BY DEF NoDoubleApply
  <2>1. DOMAIN applied[d] = 1..Len(applied[d])
    BY DEF ClientInv, HoldInv
  <2> QED
    BY <2>1 DEF ClientInv, NoDouble
<1> QED
  BY <1>1, SyncInductive, PTL

\* Join, FetchRecent, broadcast and handle_server together: a device with
\* nothing in flight has been given every unexpired clip of the others among
\* the newest RECENT_CAP.
THEOREM QuietMeansCaughtUpHolds == SyncSpec => []QuietMeansCaughtUp
<1>1. IInv /\ ClientInv => QuietMeansCaughtUp
  <2> SUFFICES ASSUME IInv, ClientInv, NEW d \in Devices, Quiet(d),
                      NEW n \in 1..Len(sent[G]), Newest(G, n), Unexpired(G, n),
                      sent[G][n].sender # d
               PROVE  Given(d, n)
    BY DEF QuietMeansCaughtUp
  <2>1. d \in Conns /\ caught[d] /\ wire[d] = <<>> /\ batch[d] = {} /\ ~Pending(d)
    BY SyncAssumption DEF Quiet, InHandler
  <2>2. group[d] = G /\ rx[d].group = G /\ ~(rx[d].pos < Len(sent[G]))
    BY <2>1, OneGroup, NoneAssumption DEF IInv, TypeOK, CursorInv, Pending
  <2>3. n \in seen[d] \/ n > rx[d].pos \/ sent[G][n].sender = device[d]
    BY <2>1, <2>2 DEF IInv, CatchUp
  <2>4. ~(n > rx[d].pos)
    <3>1. rx[d].pos \in Nat /\ Len(sent[G]) \in Nat
      BY <2>1, OneGroup DEF IInv, TypeOK, Receiver
    <3> QED
      BY <2>2, <3>1
  <2>5. sent[G][n].sender # device[d]
    <3>1. sent[G][n].sender \in Devices /\ device[d] \in {None, d}
      BY OneGroup, ClipType DEF ClientInv, PublishedInv, IInv, Clip
    <3> QED
      BY <3>1, NoneAssumption
  <2>6. n \in seen[d]
    BY <2>3, <2>4, <2>5
  <2>7. ~OnItsWay(d, n)
    BY <2>1 DEF OnItsWay
  <2> QED
    BY <2>6, <2>7 DEF ClientInv, Accounted
<1> QED
  BY <1>1, SyncInductive, PTL

\* Every state of relay, links and clients is well typed.
THEOREM SyncTypeCorrect == SyncSpec => []SyncTypeOK
<1>1. IInv /\ ClientInv => SyncTypeOK
  BY DEF IInv, ClientInv, AskInv, UpFrames, HoldInv, Remembers, SyncTypeOK
<1> QED
  BY <1>1, SyncInductive, PTL

\* With real clients on its sockets, too, the relay's cache holds the newest
\* clips, a device that joins misses none, and forwarding neither repeats,
\* reorders nor echoes a clip.
THEOREM SyncKeepsRelayPromises == SyncSpec => [](CacheIsNewest /\ CatchUp /\ ForwardedClean)
BY SyncImplementsRelay, RecentCacheCorrect, NoGapAfterJoin, ForwardedCleanHolds, PTL

=============================================================================
