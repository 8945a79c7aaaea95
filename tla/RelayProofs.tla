---------------------------- MODULE RelayProofs ----------------------------
(***************************************************************************)
(* Proofs about the clip path of the relay, for every number of sockets,   *)
(* devices and groups and every value of the capacities and of the TTL:    *)
(* types, the recent cache, Join and FetchRecent without a gap, and what a *)
(* socket forwards.                                                        *)
(***************************************************************************)
EXTENDS Relay, FiniteSetTheorems, TLAPS

-----------------------------------------------------------------------------
(* Type correctness *)

\* A frame of the relay is appended to a socket of type Seq(Frame): what Send
\* leaves behind is well typed.
LEMMA SendType ==
    ASSUME NEW c \in Conns, NEW f \in Frame, Send(c, f),
           wire \in [Conns -> Seq(Frame)]
    PROVE  wire' \in [Conns -> Seq(Frame)]
<1>1. Append(wire[c], f) \in Seq(Frame)
  OBVIOUS
<1> QED
  BY <1>1 DEF Send

\* Pruning, popping and pushing leave a set of publication numbers.
LEMMA CacheType ==
    ASSUME TypeOK, NEW g \in Groups
    PROVE  Retain(g) \in SUBSET Nat /\ PushBack(g) \in SUBSET Nat
<1>1. Retain(g) \in SUBSET Nat
  BY DEF TypeOK, Retain
<1>2. Len(sent[g]) + 1 \in Nat
  BY DEF TypeOK
<1> QED
  BY <1>1, <1>2 DEF PushBack, PopFront

\* A receiver whose cursor moves to a natural number stays a receiver.
LEMMA MoveType ==
    ASSUME rx \in [Conns -> Receiver], NEW c \in Conns, NEW p \in Nat
    PROVE  [rx EXCEPT ![c].pos = p] \in [Conns -> Receiver]
<1>1. [rx[c] EXCEPT !.pos = p] \in Receiver
  BY DEF Receiver
<1> QED
  BY <1>1

\* Every step of the hub, the sockets and the clock keeps the types.
LEMMA TypeStep ==
    ASSUME TypeOK, [Next]_vars
    PROVE  TypeOK'
<1> USE DEF TypeOK
<1>1. CASE Tick
  BY <1>1 DEF Tick, hubVars, sockVars, obsVars
<1>2. ASSUME NEW c \in Conns, ConnStep(c)
      PROVE  TypeOK'
  <2>1. CASE Accept(c)
    BY <2>1 DEF Accept, hubVars, obsVars
  <2>2. ASSUME NEW g \in Groups, NEW d \in Devices, Join(c, g, d)
        PROVE  TypeOK'
    <3>1. [type |-> "Joined", group |-> g] \in Frame
      BY DEF Frame
    <3>2. wire' \in [Conns -> Seq(Frame)]
      BY <2>2, <3>1, SendType DEF Join
    <3>3. [group |-> g, pos |-> Len(sent[g])] \in Receiver
      BY DEF Receiver
    <3> QED
      BY <2>2, <3>2, <3>3 DEF Join, hubVars
  <2>3. ASSUME NEW g \in Groups, NEW ts \in Stamps, Publish(c, g, ts)
        PROVE  TypeOK'
    <3>1. [sender |-> device[c], ts |-> ts, at |-> now] \in Clip
      BY <2>3 DEF Publish, Clip
    <3>2. Append(sent[g], [sender |-> device[c], ts |-> ts, at |-> now]) \in Seq(Clip)
      BY <3>1
    <3>3. PushBack(g) \in SUBSET Nat
      BY CacheType
    <3> QED
      BY <2>3, <3>2, <3>3 DEF Publish, sockVars, obsVars
  <2>4. ASSUME NEW g \in Groups, FetchRecent(c, g)
        PROVE  TypeOK'
    <3>1. Retain(g) \in SUBSET Nat
      BY CacheType
    <3>2. [type |-> "Recent", group |-> g, clips |-> Retain(g)] \in Frame
      BY <3>1 DEF Frame
    <3>3. wire' \in [Conns -> Seq(Frame)]
      BY <2>4, <3>2, SendType DEF FetchRecent
    <3> QED
      BY <2>4, <3>1, <3>3 DEF FetchRecent, sockVars
  <2>5. CASE Refuse(c)
    <3>1. [type |-> "Error"] \in Frame
      BY DEF Frame
    <3>2. wire' \in [Conns -> Seq(Frame)]
      BY <2>5, <3>1, SendType DEF Refuse
    <3> QED
      BY <2>5, <3>2 DEF Refuse, hubVars, sockVars, obsVars
  <2>6. CASE Forward(c)
    <3> DEFINE g == rx[c].group
               n == rx[c].pos + 1
    <3>1. g \in Groups /\ n \in Nat
      BY <2>6 DEF Forward, Pending, Receiver
    <3>2. rx' \in [Conns -> Receiver]
      BY <2>6, <3>1, MoveType DEF Forward
    <3>3. wire' \in [Conns -> Seq(Frame)] /\ seen' \in [Conns -> SUBSET Nat]
      <4>1. CASE sent[g][n].sender = device[c]
        BY <2>6, <4>1 DEF Forward
      <4>2. CASE sent[g][n].sender # device[c]
        <5>1. [type |-> "Clip", group |-> g, n |-> n] \in Frame
          BY <3>1 DEF Frame
        <5>2. Send(c, [type |-> "Clip", group |-> g, n |-> n])
          BY <2>6, <4>2 DEF Forward
        <5>3. wire' \in [Conns -> Seq(Frame)]
          BY <5>1, <5>2, SendType
        <5>4. seen' = [seen EXCEPT ![c] = @ \cup {n}]
          BY <2>6, <4>2 DEF Forward
        <5> QED
          BY <3>1, <5>3, <5>4
      <4> QED
        BY <4>1, <4>2
    <3> QED
      BY <2>6, <3>2, <3>3 DEF Forward, hubVars
  <2>7. CASE SkipLagged(c)
    <3>1. rx[c].group \in Groups /\ rx[c].pos \in Nat
      BY <2>7 DEF SkipLagged, Pending, Receiver
    <3>2. Len(sent[rx[c].group]) - BROADCAST_CAP \in Nat
      BY <2>7, <3>1, CapAssumption DEF SkipLagged, Lagging
    <3>3. rx' \in [Conns -> Receiver]
      BY <2>7, <3>2, MoveType DEF SkipLagged
    <3> QED
      BY <2>7, <3>3 DEF SkipLagged, hubVars, obsVars
  <2>8. CASE Close(c)
    <3>1. NoRx \in Receiver
      BY DEF NoRx, Receiver
    <3> QED
      BY <2>8, <3>1 DEF Close, hubVars
  <2>9. CASE Read(c)
    <3>1. Tail(wire[c]) \in Seq(Frame)
      BY <2>9 DEF Read
    <3> QED
      BY <2>9, <3>1 DEF Read, hubVars, sockVars, obsVars
  <2> QED
    BY <1>2, <2>1, <2>2, <2>3, <2>4, <2>5, <2>6, <2>7, <2>8, <2>9 DEF ConnStep
<1>3. CASE UNCHANGED vars
  BY <1>3 DEF vars, hubVars, sockVars, obsVars
<1> QED
  BY <1>1, <1>2, <1>3 DEF Next

\* Every state of the relay is well typed; in particular the lag recovery of a
\* broadcast receiver never leaves a cursor before the start of the history.
THEOREM TypeCorrect == Spec => []TypeOK
<1>1. Init => TypeOK
  BY DEF Init, TypeOK, NoRx, Receiver
<1> QED
  BY <1>1, TypeStep, PTL DEF Spec

-----------------------------------------------------------------------------
(* The inductive invariant behind CacheIsNewest and CatchUp *)

\* Publications are stamped in order by a clock that does not go back.
TimesInv ==
    \A g \in Groups :
        /\ \A n \in 1..Len(sent[g]) : sent[g][n].at <= now
        /\ \A m, n \in 1..Len(sent[g]) : m <= n => sent[g][m].at <= sent[g][n].at

\* The cache lies within the newest RECENT_CAP publications, has no hole, and
\* lacks none of them that is unexpired.
CacheInv ==
    \A g \in Groups :
        /\ cache[g] \subseteq 1..Len(sent[g])
        /\ \A n \in cache[g] : Newest(g, n)
        /\ \A n \in cache[g] : n..Len(sent[g]) \subseteq cache[g]
        /\ \A n \in 1..Len(sent[g]) :
               Newest(g, n) /\ Unexpired(g, n) => n \in cache[g]

\* A receiver follows the joined group and is not ahead of its channel.
CursorInv ==
    \A c \in Conns :
        /\ rx[c].group = group[c]
        /\ caught[c] => group[c] # None
        /\ group[c] # None => rx[c].pos <= Len(sent[group[c]])

IInv == TypeOK /\ TimesInv /\ CacheInv /\ CursorInv /\ CatchUp

\* The history holds clips.
LEMMA ClipType ==
    ASSUME TypeOK, NEW g \in Groups, NEW n \in 1..Len(sent[g])
    PROVE  sent[g][n] \in Clip
<1>1. sent[g] \in Seq(Clip)
  BY DEF TypeOK
<1> QED
  BY <1>1

\* What retain leaves is again a hole-free end of the history: of two clips the
\* older one expires first.
LEMMA RetainShape ==
    ASSUME TypeOK, TimesInv, CacheInv, NEW g \in Groups
    PROVE  /\ Retain(g) \subseteq 1..Len(sent[g])
           /\ \A n \in Retain(g) : Newest(g, n)
           /\ \A n \in Retain(g) : n..Len(sent[g]) \subseteq Retain(g)
           /\ \A n \in 1..Len(sent[g]) :
                  Newest(g, n) /\ Unexpired(g, n) => n \in Retain(g)
<1> DEFINE L == Len(sent[g])
<1>1. L \in Nat /\ now \in Nat /\ RECENT_TTL \in Nat
  BY BoundAssumption DEF TypeOK
<1>2. \A n \in 1..L : sent[g][n].at \in Nat
  BY ClipType DEF Clip
<1>3. Retain(g) \subseteq 1..L /\ \A n \in Retain(g) : Newest(g, n)
  BY DEF Retain, CacheInv
<1>4. ASSUME NEW n \in Retain(g), NEW k \in n..L
      PROVE  k \in Retain(g)
  <2>1. n \in cache[g] /\ Unexpired(g, n) /\ n \in 1..L
    BY <1>4, <1>3 DEF Retain
  <2>2. k \in cache[g]
    BY <1>4, <2>1 DEF CacheInv
  <2>3. k \in 1..L /\ n <= k
    BY <1>1, <1>4, <2>1
  <2>4. sent[g][n].at <= sent[g][k].at
    BY <2>1, <2>3 DEF TimesInv
  <2>5. Unexpired(g, k)
    BY SMTT(30), <1>1, <1>2, <2>1, <2>3, <2>4 DEF Unexpired
  <2> QED
    BY <2>2, <2>5 DEF Retain
<1>5. \A n \in 1..L : Newest(g, n) /\ Unexpired(g, n) => n \in Retain(g)
  BY DEF Retain, CacheInv
<1> QED
  BY <1>3, <1>4, <1>5

\* A hole-free set of the newest publications has RECENT_CAP members exactly
\* when it reaches back to the oldest of them: the length check of publish.
LEMMA FullCache ==
    ASSUME NEW L \in Nat, NEW S \in SUBSET (1..L),
           \A n \in S : n > L - RECENT_CAP,
           \A n \in S : n..L \subseteq S
    PROVE  /\ IsFiniteSet(S)
           /\ Cardinality(S) <= RECENT_CAP
           /\ Cardinality(S) = RECENT_CAP <=> L - RECENT_CAP + 1 \in S
<1> DEFINE lo == L - RECENT_CAP + 1
           W == lo..L
<1>1. RECENT_CAP \in Nat /\ RECENT_CAP >= 1 /\ lo \in Int /\ lo <= L
  BY CapAssumption
<1>2. IsFiniteSet(W) /\ Cardinality(W) = RECENT_CAP
  BY <1>1, FS_Interval
<1>3. S \in SUBSET W
  BY <1>1
<1>4. /\ IsFiniteSet(S)
      /\ Cardinality(S) <= Cardinality(W)
      /\ Cardinality(W) = Cardinality(S) => W = S
  BY <1>2, <1>3, FS_Subset
<1>5. Cardinality(S) = RECENT_CAP => lo \in S
  BY <1>1, <1>2, <1>4
<1>6. lo \in S => S = W
  BY <1>3
<1> QED
  BY <1>2, <1>4, <1>5, <1>6

\* The cache after publish has the shape CacheInv asks for, in a history that
\* is one clip longer.
LEMMA PushBackShape ==
    ASSUME TypeOK, TimesInv, CacheInv, NEW g \in Groups
    PROVE  LET L == Len(sent[g])
               P == PushBack(g)
           IN  /\ P \subseteq 1..(L + 1)
               /\ \A n \in P : n > L + 1 - RECENT_CAP
               /\ \A n \in P : n..(L + 1) \subseteq P
               /\ \A n \in 1..L :
                      n > L + 1 - RECENT_CAP /\ Unexpired(g, n) => n \in P
               /\ L + 1 \in P
<1> DEFINE L == Len(sent[g])
           kept == Retain(g)
           room == IF Cardinality(kept) = RECENT_CAP THEN PopFront(kept) ELSE kept
           P == PushBack(g)
<1>1. L \in Nat /\ RECENT_CAP \in Nat /\ RECENT_CAP >= 1
  BY CapAssumption DEF TypeOK
<1>2. /\ kept \subseteq 1..L
      /\ \A n \in kept : n > L - RECENT_CAP
      /\ \A n \in kept : n..L \subseteq kept
      /\ \A n \in 1..L : n > L - RECENT_CAP /\ Unexpired(g, n) => n \in kept
  BY RetainShape DEF Newest
<1>3. Cardinality(kept) = RECENT_CAP <=> L - RECENT_CAP + 1 \in kept
  BY <1>1, <1>2, FullCache
<1>4. P = room \cup {L + 1}
  BY DEF PushBack
<1>5. room = IF Cardinality(kept) = RECENT_CAP THEN PopFront(kept) ELSE kept
  OBVIOUS
<1>6. kept \in SUBSET Int
  BY <1>1, <1>2
<1> HIDE DEF kept, L, P, room
<1>7. /\ room \subseteq kept
      /\ \A n \in room : n > L + 1 - RECENT_CAP
      /\ \A n \in room : n..L \subseteq room
      /\ \A n \in kept : n > L + 1 - RECENT_CAP => n \in room
  <2>1. CASE Cardinality(kept) = RECENT_CAP
    <3>1. room = {n \in kept : \E m \in kept : m < n}
      BY <2>1, <1>5 DEF PopFront
    <3>2. L - RECENT_CAP + 1 \in kept
      BY <2>1, <1>3
    <3>3. \A n \in room : n > L + 1 - RECENT_CAP
      BY <3>1, <1>1, <1>2, <1>6
    <3>4. ASSUME NEW n \in room, NEW k \in n..L
          PROVE  k \in room
      <4>1. PICK m \in kept : m < n
        BY <3>1
      <4>2. n \in kept /\ k \in kept /\ n <= k /\ n \in Int /\ k \in Int /\ m \in Int
        BY <3>1, <1>1, <1>2, <1>6
      <4>3. m < k
        BY <4>1, <4>2
      <4> QED
        BY <4>2, <4>3, <3>1
    <3>5. \A n \in kept : n > L + 1 - RECENT_CAP => n \in room
      BY <3>1, <3>2, <1>1, <1>2
    <3> QED
      BY <3>1, <3>3, <3>4, <3>5
  <2>2. CASE Cardinality(kept) # RECENT_CAP
    <3>1. room = kept /\ L - RECENT_CAP + 1 \notin kept
      BY <2>2, <1>3, <1>5
    <3> QED
      BY <3>1, <1>1, <1>2, <1>6
  <2> QED
    BY <2>1, <2>2
<1>8. P \subseteq 1..(L + 1)
  BY <1>1, <1>2, <1>4, <1>7
<1>9. \A n \in P : n > L + 1 - RECENT_CAP
  BY <1>1, <1>4, <1>7
<1>10. \A n \in P : n..(L + 1) \subseteq P
  BY <1>1, <1>4, <1>7
<1>11. \A n \in 1..L : n > L + 1 - RECENT_CAP /\ Unexpired(g, n) => n \in P
  BY <1>1, <1>2, <1>4, <1>7
<1> QED
  BY <1>4, <1>8, <1>9, <1>10, <1>11 DEF L, P

-----------------------------------------------------------------------------
(* Steps *)

\* Only three actions touch the clock or the hub.
LEMMA HubStep ==
    ASSUME [Next]_vars
    PROVE  \/ Tick
           \/ \E c \in Conns, g \in Groups, ts \in Stamps : Publish(c, g, ts)
           \/ \E c \in Conns, g \in Groups : FetchRecent(c, g)
           \/ UNCHANGED <<now, sent, cache>>
BY DEF Next, vars, ConnStep, hubVars, Accept, Join, Refuse, Forward, SkipLagged,
       Close, Read

\* Publish appends one clip, stamped now, to one history.
LEMMA PublishEffect ==
    ASSUME TypeOK, NEW c \in Conns, NEW g \in Groups, NEW ts \in Stamps,
           Publish(c, g, ts)
    PROVE  /\ Len(sent'[g]) = Len(sent[g]) + 1
           /\ \A n \in 1..Len(sent[g]) : sent'[g][n] = sent[g][n]
           /\ sent'[g][Len(sent[g]) + 1].at = now
           /\ \A h \in Groups \ {g} : sent'[h] = sent[h] /\ cache'[h] = cache[h]
           /\ cache'[g] = PushBack(g)
           /\ now' = now
<1> DEFINE clip == [sender |-> device[c], ts |-> ts, at |-> now]
<1>1. sent[g] \in Seq(Clip) /\ clip \in Clip
  BY DEF TypeOK, Publish, Clip
<1>2. sent'[g] = Append(sent[g], clip)
  BY DEF TypeOK, Publish
<1>3. clip.at = now
  OBVIOUS
<1> HIDE DEF clip
<1>4. /\ Len(sent'[g]) = Len(sent[g]) + 1
      /\ \A n \in 1..Len(sent[g]) : sent'[g][n] = sent[g][n]
      /\ sent'[g][Len(sent[g]) + 1] = clip
  BY <1>1, <1>2
<1> QED
  BY <1>3, <1>4 DEF TypeOK, Publish

\* Publication times never decrease and never lie in the future.
LEMMA TimesStep ==
    ASSUME TypeOK, TimesInv, [Next]_vars
    PROVE  TimesInv'
<1>1. CASE Tick
  <2>1. now \in Nat /\ now' = now + 1 /\ sent' = sent
    BY <1>1 DEF Tick, TypeOK, hubVars
  <2>2. \A g \in Groups : \A n \in 1..Len(sent[g]) : sent[g][n].at \in Nat
    BY ClipType DEF Clip
  <2> QED
    BY <2>1, <2>2 DEF TimesInv
<1>2. ASSUME NEW c \in Conns, NEW g \in Groups, NEW ts \in Stamps, Publish(c, g, ts)
      PROVE  TimesInv'
  <2> DEFINE L == Len(sent[g])
  <2>1. /\ Len(sent'[g]) = L + 1
        /\ \A n \in 1..L : sent'[g][n] = sent[g][n]
        /\ sent'[g][L + 1].at = now
        /\ \A h \in Groups \ {g} : sent'[h] = sent[h]
        /\ now' = now
    BY <1>2, PublishEffect
  <2>2. L \in Nat /\ now \in Nat /\ \A n \in 1..L : sent[g][n].at <= now
    BY DEF TypeOK, TimesInv
  <2>3. \A n \in 1..(L + 1) : sent'[g][n].at <= now
    <3>1. \A n \in 1..(L + 1) : n \in 1..L \/ n = L + 1
      BY <2>2
    <3>2. now <= now
      BY <2>2
    <3> HIDE DEF L
    <3> QED
      BY <2>1, <2>2, <3>1, <3>2
  <2>4. ASSUME NEW m \in 1..(L + 1), NEW n \in 1..(L + 1), m <= n
        PROVE  sent'[g][m].at <= sent'[g][n].at
    <3>1. CASE n = L + 1
      BY <2>1, <2>3, <3>1
    <3>2. CASE n # L + 1
      <4>1. m \in 1..L /\ n \in 1..L
        BY <2>2, <2>4, <3>2
      <4>2. sent[g][m].at <= sent[g][n].at
        BY <4>1, <2>4 DEF TimesInv
      <4> QED
        BY <4>1, <4>2, <2>1
    <3> QED
      BY <3>1, <3>2
  <2>5. ASSUME NEW h \in Groups \ {g}
        PROVE  /\ \A n \in 1..Len(sent'[h]) : sent'[h][n].at <= now'
               /\ \A m, n \in 1..Len(sent'[h]) : m <= n => sent'[h][m].at <= sent'[h][n].at
    BY <2>1 DEF TimesInv
  <2> QED
    BY <2>1, <2>3, <2>4, <2>5 DEF TimesInv
<1>3. ASSUME NEW c \in Conns, NEW g \in Groups, FetchRecent(c, g)
      PROVE  TimesInv'
  BY <1>3 DEF FetchRecent, TimesInv
<1>4. CASE UNCHANGED <<now, sent, cache>>
  BY <1>4 DEF TimesInv
<1> QED
  BY <1>1, <1>2, <1>3, <1>4, HubStep

\* Time only expires clips: what is unexpired after a tick was so before.
LEMMA TickExpires ==
    ASSUME TypeOK, Tick, NEW g \in Groups, NEW n \in 1..Len(sent[g]), Unexpired(g, n)'
    PROVE  Unexpired(g, n)
<1>1. now \in Nat /\ now' = now + 1 /\ sent' = sent
  BY DEF Tick, TypeOK, hubVars
<1>2. sent[g][n].at \in Nat
  BY ClipType DEF Clip
<1> QED
  BY <1>1, <1>2, BoundAssumption DEF Unexpired

\* publish, recent and the passing of time keep the cache the newest end of
\* the group's history.
LEMMA CacheStep ==
    ASSUME TypeOK, TimesInv, CacheInv, [Next]_vars
    PROVE  CacheInv'
<1>1. CASE Tick
  <2>1. sent' = sent /\ cache' = cache
    BY <1>1 DEF Tick, hubVars
  <2>2. \A g \in Groups : \A n \in 1..Len(sent[g]) : Unexpired(g, n)' => Unexpired(g, n)
    BY <1>1, TickExpires
  <2> QED
    BY <2>1, <2>2 DEF CacheInv, Newest
<1>2. ASSUME NEW c \in Conns, NEW g \in Groups, NEW ts \in Stamps, Publish(c, g, ts)
      PROVE  CacheInv'
  <2> DEFINE L == Len(sent[g])
             P == PushBack(g)
  <2>1. /\ Len(sent'[g]) = L + 1
        /\ \A n \in 1..L : sent'[g][n] = sent[g][n]
        /\ \A h \in Groups \ {g} : sent'[h] = sent[h] /\ cache'[h] = cache[h]
        /\ cache'[g] = P
        /\ now' = now
    BY <1>2, PublishEffect
  <2>2. /\ P \subseteq 1..(L + 1)
        /\ \A n \in P : n > L + 1 - RECENT_CAP
        /\ \A n \in P : n..(L + 1) \subseteq P
        /\ \A n \in 1..L : n > L + 1 - RECENT_CAP /\ Unexpired(g, n) => n \in P
        /\ L + 1 \in P
    BY PushBackShape
  <2>3. L \in Nat
    BY DEF TypeOK
  <2> HIDE DEF L, P
  <2>4. ASSUME NEW n \in 1..(L + 1), Newest(g, n)', Unexpired(g, n)'
        PROVE  n \in P
    <3>1. CASE n = L + 1
      BY <2>2, <3>1
    <3>2. CASE n \in 1..L
      <4>1. Unexpired(g, n)
        BY <2>1, <2>4, <3>2 DEF Unexpired
      <4>2. n > L + 1 - RECENT_CAP
        BY <2>1, <2>3, <2>4, CapAssumption DEF Newest
      <4> QED
        BY <2>2, <3>2, <4>1, <4>2
    <3> QED
      BY <2>3, <3>1, <3>2
  <2>5. ASSUME NEW h \in Groups \ {g}
        PROVE  /\ cache'[h] \subseteq 1..Len(sent'[h])
               /\ \A n \in cache'[h] : Newest(h, n)'
               /\ \A n \in cache'[h] : n..Len(sent'[h]) \subseteq cache'[h]
               /\ \A n \in 1..Len(sent'[h]) :
                      Newest(h, n)' /\ Unexpired(h, n)' => n \in cache'[h]
    BY <2>1 DEF CacheInv, Newest, Unexpired
  <2>6. ASSUME NEW n \in cache'[g]
        PROVE  Newest(g, n)'
    <3>1. n \in 1..(L + 1) /\ n > L + 1 - RECENT_CAP
      BY <2>1, <2>2
    <3> QED
      BY <2>1, <2>3, <3>1, CapAssumption DEF Newest
  <2> QED
    BY ZenonT(60), <2>1, <2>2, <2>4, <2>5, <2>6 DEF CacheInv
<1>3. ASSUME NEW c \in Conns, NEW g \in Groups, FetchRecent(c, g)
      PROVE  CacheInv'
  <2>1. /\ sent' = sent /\ now' = now
        /\ cache'[g] = Retain(g)
        /\ \A h \in Groups \ {g} : cache'[h] = cache[h]
    BY <1>3 DEF FetchRecent, TypeOK
  <2>2. /\ Retain(g) \subseteq 1..Len(sent[g])
        /\ \A n \in Retain(g) : Newest(g, n)
        /\ \A n \in Retain(g) : n..Len(sent[g]) \subseteq Retain(g)
        /\ \A n \in 1..Len(sent[g]) :
               Newest(g, n) /\ Unexpired(g, n) => n \in Retain(g)
    BY RetainShape
  <2>3. \A h \in Groups, n \in Nat :
            (Newest(h, n)' <=> Newest(h, n)) /\ (Unexpired(h, n)' <=> Unexpired(h, n))
    BY <2>1 DEF Newest, Unexpired
  <2> QED
    BY <2>1, <2>2 DEF CacheInv, Newest, Unexpired
<1>4. CASE UNCHANGED <<now, sent, cache>>
  BY <1>4 DEF CacheInv, Newest, Unexpired
<1> QED
  BY <1>1, <1>2, <1>3, <1>4, HubStep

\* A receiver's cursor never runs past its channel, and belongs to the group
\* the socket joined.
LEMMA CursorStep ==
    ASSUME TypeOK, CursorInv, [Next]_vars
    PROVE  CursorInv'
<1> USE DEF CursorInv
<1>1. CASE Tick
  BY <1>1 DEF Tick, hubVars, sockVars, obsVars
<1>2. ASSUME NEW c \in Conns, ConnStep(c)
      PROVE  CursorInv'
  <2>1. CASE Accept(c)
    BY <2>1 DEF Accept, hubVars, obsVars
  <2>2. ASSUME NEW g \in Groups, NEW d \in Devices, Join(c, g, d)
        PROVE  CursorInv'
    <3>1. Len(sent[g]) \in Nat
      BY DEF TypeOK
    <3> QED
      BY <2>2, <3>1, NoneAssumption DEF Join, hubVars, TypeOK
  <2>3. ASSUME NEW g \in Groups, NEW ts \in Stamps, Publish(c, g, ts)
        PROVE  CursorInv'
    <3>1. /\ Len(sent'[g]) = Len(sent[g]) + 1
          /\ \A h \in Groups \ {g} : sent'[h] = sent[h]
      BY <2>3, PublishEffect
    <3>2. ASSUME NEW h \in Groups
          PROVE  Len(sent[h]) \in Nat /\ Len(sent[h]) <= Len(sent'[h])
      <4>1. Len(sent[h]) \in Nat
        BY DEF TypeOK
      <4> QED
        BY <3>1, <4>1
    <3>3. \A b \in Conns : rx[b].pos \in Nat
      BY DEF TypeOK, Receiver
    <3>4. \A b \in Conns : group[b] # None =>
              Len(sent[group[b]]) \in Nat /\ Len(sent[group[b]]) <= Len(sent'[group[b]])
      BY <3>2 DEF TypeOK
    <3>5. UNCHANGED <<rx, group, caught>>
      BY <2>3 DEF Publish, sockVars, obsVars
    <3>6. \A h \in Groups : Len(sent'[h]) \in Nat
      BY <3>1 DEF TypeOK
    <3>7. \A b \in Conns : group[b] # None => rx[b].pos <= Len(sent'[group[b]])
      BY <3>2, <3>3, <3>4, <3>6 DEF TypeOK
    <3> QED
      BY <3>5, <3>7
  <2>4. ASSUME NEW g \in Groups, FetchRecent(c, g)
        PROVE  CursorInv'
    BY <2>4, NoneAssumption DEF FetchRecent, sockVars, TypeOK
  <2>5. CASE Refuse(c)
    BY <2>5 DEF Refuse, hubVars, sockVars, obsVars
  <2>6. CASE Forward(c)
    <3>1. /\ rx' = [rx EXCEPT ![c].pos = rx[c].pos + 1]
          /\ rx[c].pos + 1 <= Len(sent[rx[c].group])
          /\ UNCHANGED <<sent, group, caught>>
      BY <2>6 DEF Forward, Pending, hubVars, TypeOK, Receiver
    <3>2. /\ rx'[c].group = rx[c].group /\ rx'[c].pos = rx[c].pos + 1
          /\ \A b \in Conns \ {c} : rx'[b] = rx[b]
      BY <3>1 DEF TypeOK, Receiver
    <3> QED
      BY <3>1, <3>2
  <2>7. CASE SkipLagged(c)
    <3>1. /\ rx' = [rx EXCEPT ![c].pos = Len(sent[rx[c].group]) - BROADCAST_CAP]
          /\ rx[c].group \in Groups
          /\ UNCHANGED <<sent, group, caught>>
      BY <2>7 DEF SkipLagged, Pending, hubVars, obsVars, TypeOK, Receiver
    <3>2. /\ rx'[c].group = rx[c].group
          /\ rx'[c].pos = Len(sent[rx[c].group]) - BROADCAST_CAP
          /\ \A b \in Conns \ {c} : rx'[b] = rx[b]
      BY <3>1 DEF TypeOK, Receiver
    <3>3. rx'[c].pos <= Len(sent[rx[c].group])
      BY <3>1, <3>2, CapAssumption DEF TypeOK
    <3> QED
      BY <3>1, <3>2, <3>3
  <2>8. CASE Close(c)
    BY <2>8 DEF Close, NoRx, hubVars, TypeOK
  <2>9. CASE Read(c)
    BY <2>9 DEF Read, hubVars, sockVars, obsVars
  <2> QED
    BY <1>2, <2>1, <2>2, <2>3, <2>4, <2>5, <2>6, <2>7, <2>8, <2>9 DEF ConnStep
<1>3. CASE UNCHANGED vars
  BY <1>3 DEF vars, hubVars, sockVars, obsVars
<1> QED
  BY <1>1, <1>2, <1>3 DEF Next

\* Every step keeps the promise of CatchUp: publishing and forwarding move the
\* cursor, lag skips, expiry and pruning only over what need not be sent.
LEMMA CatchUpStep ==
    ASSUME IInv, [Next]_vars
    PROVE  CatchUp'
<1> USE DEF IInv
<1> SUFFICES ASSUME NEW b \in Conns, caught'[b],
                    NEW n \in 1..Len(sent'[group'[b]]),
                    n > Len(sent'[group'[b]]) - RECENT_CAP,
                    now' - sent'[group'[b]][n].at < RECENT_TTL
             PROVE  \/ n \in seen'[b]
                    \/ n > rx'[b].pos
                    \/ sent'[group'[b]][n].sender = device'[b]
  BY DEF CatchUp, Newest, Unexpired
\* Enough for a step that leaves this socket and its group alone.
<1>0. ASSUME caught[b], group'[b] = group[b], device'[b] = device[b],
             rx'[b] = rx[b], seen[b] \subseteq seen'[b],
             sent'[group[b]] = sent[group[b]], Unexpired(group[b], n)
      PROVE  \/ n \in seen'[b]
             \/ n > rx'[b].pos
             \/ sent'[group'[b]][n].sender = device'[b]
  BY <1>0 DEF CatchUp, Newest
<1>1. CASE Tick
  <2>1. UNCHANGED <<sent, group, device, rx, seen, caught>>
    BY <1>1 DEF Tick, hubVars, sockVars, obsVars
  <2>2. group[b] \in Groups
    BY <2>1 DEF CursorInv, TypeOK
  <2>3. Unexpired(group[b], n)
    <3>1. (Unexpired(group[b], n))'
      BY <2>1 DEF Unexpired
    <3> QED
      BY <1>1, <2>1, <2>2, <3>1, TickExpires DEF Unexpired
  <2> QED
    BY <1>0, <2>1, <2>3
<1>2. ASSUME NEW c \in Conns, ConnStep(c)
      PROVE  \/ n \in seen'[b]
             \/ n > rx'[b].pos
             \/ sent'[group'[b]][n].sender = device'[b]
  <2>1. CASE UNCHANGED <<now, sent, group, device, rx, seen, caught>>
    BY <1>0, <2>1 DEF Unexpired
  <2>2. ASSUME NEW g \in Groups, NEW d \in Devices, Join(c, g, d)
        PROVE  \/ n \in seen'[b]
               \/ n > rx'[b].pos
               \/ sent'[group'[b]][n].sender = device'[b]
    <3>1. b # c
      BY <2>2 DEF Join, TypeOK
    <3> QED
      BY <1>0, <2>2, <3>1 DEF Join, hubVars, TypeOK, Unexpired
  <2>3. ASSUME NEW g \in Groups, NEW ts \in Stamps, Publish(c, g, ts)
        PROVE  \/ n \in seen'[b]
               \/ n > rx'[b].pos
               \/ sent'[group'[b]][n].sender = device'[b]
    <3>1. /\ Len(sent'[g]) = Len(sent[g]) + 1
          /\ \A k \in 1..Len(sent[g]) : sent'[g][k] = sent[g][k]
          /\ \A h \in Groups \ {g} : sent'[h] = sent[h]
          /\ now' = now
      BY <2>3, PublishEffect
    <3>2. UNCHANGED <<group, device, rx, seen, caught>>
      BY <2>3 DEF Publish, sockVars, obsVars
    <3>3. group[b] \in Groups /\ rx[b].pos <= Len(sent[group[b]])
      BY <3>2 DEF CursorInv, TypeOK
    <3>4. CASE group[b] # g
      BY <1>0, <3>1, <3>2, <3>3, <3>4 DEF Unexpired
    <3>5. CASE group[b] = g
      <4> DEFINE L == Len(sent[g])
      <4>1. L \in Nat /\ rx[b].pos \in Nat /\ rx[b].pos <= L
        BY <3>3, <3>5 DEF TypeOK, Receiver
      <4>2. CASE n = L + 1
        BY <3>2, <4>1, <4>2
      <4>3. CASE n \in 1..L
        <5>1. sent'[g][n] = sent[g][n]
          BY <3>1, <4>3
        <5>2. Unexpired(g, n)
          BY <3>1, <3>2, <3>5, <5>1 DEF Unexpired
        <5>3. Newest(g, n)
          BY <3>1, <3>2, <3>5, <4>1, <4>3, CapAssumption DEF Newest
        <5> QED
          BY <3>2, <3>5, <4>3, <5>1, <5>2, <5>3 DEF CatchUp
      <4>4. n \in 1..(L + 1)
        BY <3>1, <3>2, <3>5
      <4> QED
        BY <4>1, <4>2, <4>3, <4>4
    <3> QED
      BY <3>4, <3>5
  <2>4. ASSUME NEW g \in Groups, FetchRecent(c, g)
        PROVE  \/ n \in seen'[b]
               \/ n > rx'[b].pos
               \/ sent'[group'[b]][n].sender = device'[b]
    <3>1. UNCHANGED <<now, sent, group, device, rx>> /\ group[c] = g
      BY <2>4 DEF FetchRecent, sockVars
    <3>2. CASE b # c
      <4>1. caught[b] /\ seen'[b] = seen[b]
        BY <2>4, <3>2 DEF FetchRecent, TypeOK
      <4> QED
        BY <1>0, <3>1, <4>1 DEF Unexpired
    <3>3. CASE b = c
      <4>1. seen'[b] = seen[b] \cup Retain(g)
        BY <2>4, <3>3 DEF FetchRecent, TypeOK
      <4>2. Newest(g, n) /\ Unexpired(g, n) /\ n \in 1..Len(sent[g])
        BY <3>1, <3>3 DEF Newest, Unexpired
      <4>3. n \in Retain(g)
        BY <4>2, RetainShape
      <4> QED
        BY <4>1, <4>3
    <3> QED
      BY <3>2, <3>3
  <2>5. CASE Forward(c)
    <3> DEFINE k == rx[c].pos + 1
    <3>1. /\ UNCHANGED <<now, sent, group, device, caught>>
          /\ rx' = [rx EXCEPT ![c].pos = k]
      BY <2>5 DEF Forward, hubVars
    <3>2. CASE b # c
      <4>1. rx'[b] = rx[b] /\ seen'[b] = seen[b]
        BY <2>5, <3>1, <3>2 DEF Forward, TypeOK
      <4> QED
        BY <1>0, <3>1, <4>1 DEF Unexpired
    <3>3. CASE b = c
      <4>1. rx'[b].pos = k /\ rx[b].pos \in Nat /\ rx[c].group = group[b]
        BY <3>1, <3>3 DEF TypeOK, Receiver, CursorInv
      <4>2. n \in seen[b] \/ n > rx[b].pos \/ sent[group[b]][n].sender = device[b]
        BY <3>1 DEF CatchUp, Newest, Unexpired
      <4>3. n = k \/ n > k \/ n \in seen[b] \/ sent[group[b]][n].sender = device[b]
        BY <3>3, <4>1, <4>2
      <4>4. seen[b] \subseteq seen'[b]
        BY <2>5, <3>3 DEF Forward, TypeOK
      <4>5. n = k => n \in seen'[b] \/ sent[group[b]][n].sender = device[b]
        BY <2>5, <3>3, <4>1 DEF Forward, TypeOK
      <4> QED
        BY <3>1, <4>1, <4>3, <4>4, <4>5
    <3> QED
      BY <3>2, <3>3
  <2>6. CASE SkipLagged(c)
    <3> DEFINE g == rx[c].group
               k == Len(sent[g]) - BROADCAST_CAP
    <3>1. /\ UNCHANGED <<now, sent, group, device, seen, caught>>
          /\ rx' = [rx EXCEPT ![c].pos = k]
          /\ g \in Groups
      BY <2>6 DEF SkipLagged, hubVars, obsVars, Pending, TypeOK, Receiver
    <3>2. CASE b # c
      <4>1. rx'[b] = rx[b]
        BY <3>1, <3>2 DEF TypeOK
      <4> QED
        BY <1>0, <3>1, <4>1 DEF Unexpired
    <3>3. CASE b = c
      <4>1. rx'[b].pos = k /\ group'[b] = g /\ Len(sent[g]) \in Nat
        BY <3>1, <3>3 DEF TypeOK, Receiver, CursorInv
      <4>2. n > Len(sent[g]) - RECENT_CAP
        BY <3>1, <4>1 DEF Newest
      <4>3. n > k
        BY <3>1, <4>1, <4>2, CapAssumption
      <4> QED
        BY <4>1, <4>3
    <3> QED
      BY <3>2, <3>3
  <2>7. CASE Close(c)
    <3>1. b # c
      BY <2>7 DEF Close, TypeOK
    <3> QED
      BY <1>0, <2>7, <3>1 DEF Close, hubVars, TypeOK, Unexpired
  <2>8. CASE Accept(c) \/ Refuse(c) \/ Read(c)
    BY <2>1, <2>8 DEF Accept, Refuse, Read, hubVars, sockVars, obsVars
  <2> QED
    BY <1>2, <2>2, <2>3, <2>4, <2>5, <2>6, <2>7, <2>8 DEF ConnStep
<1>3. CASE UNCHANGED vars
  BY <1>0, <1>3 DEF vars, hubVars, sockVars, obsVars, Unexpired
<1> QED
  BY <1>1, <1>2, <1>3 DEF Next

\* The invariant holds in every state of the relay.
LEMMA Inductive == Spec => []IInv
<1>1. Init => IInv
  <2> SUFFICES ASSUME Init
               PROVE  IInv
    OBVIOUS
  <2>1. TypeOK
    BY DEF Init, TypeOK, NoRx, Receiver
  <2>2. \A g \in Groups : sent[g] = <<>> /\ cache[g] = {}
    BY DEF Init
  <2>3. TimesInv /\ CacheInv
    BY <2>2 DEF TimesInv, CacheInv
  <2>4. CursorInv /\ CatchUp
    BY DEF Init, CursorInv, CatchUp, NoRx
  <2> QED
    BY <2>1, <2>3, <2>4 DEF IInv
<1>2. IInv /\ [Next]_vars => IInv'
  BY TypeStep, TimesStep, CacheStep, CursorStep, CatchUpStep DEF IInv
<1> QED
  BY <1>1, <1>2, PTL DEF Spec

\* The recent cache of hub.rs is at all times the unexpired newest end of the
\* group's history, whatever RECENT_CAP and RECENT_TTL are.
THEOREM RecentCacheCorrect == Spec => []CacheIsNewest
<1>1. IInv => CacheIsNewest
  <2> SUFFICES ASSUME IInv, NEW g \in Groups
               PROVE  /\ Cardinality(cache[g]) <= RECENT_CAP
                      /\ \A n \in cache[g] : n..Len(sent[g]) \subseteq cache[g]
                      /\ \A n \in 1..Len(sent[g]) :
                             Newest(g, n) /\ Unexpired(g, n) => n \in cache[g]
    BY DEF CacheIsNewest
  <2>1. Len(sent[g]) \in Nat
    BY DEF IInv, TypeOK
  <2>2. /\ cache[g] \subseteq 1..Len(sent[g])
        /\ \A n \in cache[g] : n > Len(sent[g]) - RECENT_CAP
        /\ \A n \in cache[g] : n..Len(sent[g]) \subseteq cache[g]
    BY DEF IInv, CacheInv, Newest
  <2>3. Cardinality(cache[g]) <= RECENT_CAP
    BY <2>1, <2>2, FullCache
  <2> QED
    BY <2>2, <2>3 DEF IInv, CacheInv
<1> QED
  BY <1>1, Inductive, PTL

\* Subscribing before FetchRecent is answered leaves no gap, for every lag of
\* the receiver, because the channel retains at least as many clips as the
\* recent cache (CapAssumption).
THEOREM NoGapAfterJoin == Spec => []CatchUp
<1>1. IInv => CatchUp
  BY DEF IInv
<1> QED
  BY <1>1, Inductive, PTL

-----------------------------------------------------------------------------
(* What a socket forwards: the proof of ForwardedClean, from the type and   *)
(* cursor invariants.                                                       *)

\* The Clip frames of the last subscription in a sequence of frames.
Fwd(w) ==
    {i \in DOMAIN w :
        /\ w[i].type = "Clip"
        /\ \A j \in DOMAIN w : j > i => w[j].type # "Joined"}

\* An Error or Recent frame leaves the forwarded clips alone.
LEMMA FwdOther ==
    ASSUME NEW w \in Seq(Frame), NEW f \in Frame, f.type \notin {"Clip", "Joined"}
    PROVE  /\ Fwd(Append(w, f)) = Fwd(w)
           /\ \A i \in Fwd(w) : Append(w, f)[i] = w[i]
<1>1. /\ Len(w) \in Nat /\ DOMAIN w = 1..Len(w)
      /\ DOMAIN Append(w, f) = 1..(Len(w) + 1)
      /\ Append(w, f)[Len(w) + 1] = f
      /\ \A i \in 1..Len(w) : Append(w, f)[i] = w[i]
  OBVIOUS
<1> QED
  BY <1>1 DEF Fwd

\* A Joined frame opens a subscription without forwarded clips.
LEMMA FwdJoined ==
    ASSUME NEW w \in Seq(Frame), NEW f \in Frame, f.type = "Joined"
    PROVE  Fwd(Append(w, f)) = {}
<1>1. /\ Len(w) \in Nat
      /\ DOMAIN Append(w, f) = 1..(Len(w) + 1)
      /\ Append(w, f)[Len(w) + 1] = f
  OBVIOUS
<1> QED
  BY <1>1 DEF Fwd

\* A Clip frame is one more forwarded clip, the last one.
LEMMA FwdClip ==
    ASSUME NEW w \in Seq(Frame), NEW f \in Frame, f.type = "Clip"
    PROVE  /\ Fwd(Append(w, f)) = Fwd(w) \cup {Len(w) + 1}
           /\ \A i \in Fwd(w) : i \in 1..Len(w) /\ Append(w, f)[i] = w[i]
           /\ Append(w, f)[Len(w) + 1] = f
<1>1. /\ Len(w) \in Nat /\ DOMAIN w = 1..Len(w)
      /\ DOMAIN Append(w, f) = 1..(Len(w) + 1)
      /\ Append(w, f)[Len(w) + 1] = f
      /\ \A i \in 1..Len(w) : Append(w, f)[i] = w[i]
  OBVIOUS
<1> QED
  BY <1>1 DEF Fwd

\* The client reads the first frame: the rest moves up by one.
LEMMA FwdTail ==
    ASSUME NEW w \in Seq(Frame), w # <<>>
    PROVE  \A i \in Fwd(Tail(w)) : i \in Nat /\ i + 1 \in Fwd(w) /\ Tail(w)[i] = w[i + 1]
<1>1. /\ Len(w) \in Nat /\ DOMAIN w = 1..Len(w) /\ Len(w) >= 1
      /\ DOMAIN Tail(w) = 1..(Len(w) - 1)
      /\ \A i \in 1..(Len(w) - 1) : Tail(w)[i] = w[i + 1]
  OBVIOUS
<1> SUFFICES ASSUME NEW i \in Fwd(Tail(w))
             PROVE  i + 1 \in Fwd(w)
  BY <1>1 DEF Fwd
<1>2. i \in 1..(Len(w) - 1) /\ w[i + 1].type = "Clip"
  BY <1>1 DEF Fwd
<1>3. ASSUME NEW j \in 1..Len(w), j > i + 1
      PROVE  w[j].type # "Joined"
  <2>1. j - 1 \in 1..(Len(w) - 1) /\ j - 1 > i /\ Tail(w)[j - 1] = w[j]
    BY <1>1, <1>2, <1>3
  <2> QED
    BY <1>1, <2>1 DEF Fwd
<1> QED
  BY <1>1, <1>2, <1>3 DEF Fwd

\* ForwardedClean is not inductive: a clip forwarded next is newer than those
\* on the wire only because these lie behind the cursor, and a publication
\* leaves their senders alone only because they are in the history.
FwdOK(c) ==
    \A i \in Fwd(wire[c]) :
        /\ wire[c][i].group = group[c]
        /\ group[c] # None
        /\ wire[c][i].n \in 1..rx[c].pos
        /\ sent[group[c]][wire[c][i].n].sender # device[c]
        /\ \A j \in Fwd(wire[c]) : i < j => wire[c][i].n < wire[c][j].n

\* A step that touches neither the socket nor the history keeps FwdOK.
LEMMA FwdFrame ==
    ASSUME NEW b \in Conns, FwdOK(b), wire'[b] = wire[b], group'[b] = group[b],
           device'[b] = device[b], rx'[b] = rx[b], sent' = sent
    PROVE  FwdOK(b)'
BY DEF FwdOK, Fwd

\* Every step of a socket keeps what it has on the wire clean.
LEMMA FwdStep ==
    ASSUME TypeOK, CursorInv, \A b \in Conns : FwdOK(b), [Next]_vars
    PROVE  \A b \in Conns : FwdOK(b)'
<1> SUFFICES ASSUME NEW b \in Conns
             PROVE  FwdOK(b)'
  OBVIOUS
<1>1. CASE Tick \/ UNCHANGED vars
  BY <1>1, FwdFrame DEF Tick, vars, hubVars, sockVars
<1>2. ASSUME NEW c \in Conns, ConnStep(c)
      PROVE  FwdOK(b)'
  <2> DEFINE w == wire[c]
  <2>0. w \in Seq(Frame) /\ wire \in [Conns -> Seq(Frame)]
    BY DEF TypeOK
  <2>1. CASE Accept(c)
    BY <2>1, FwdFrame DEF Accept, hubVars
  <2>2. ASSUME NEW g \in Groups, NEW d \in Devices, Join(c, g, d)
        PROVE  FwdOK(b)'
    <3>1. CASE b # c
      BY <2>2, <3>1, FwdFrame DEF Join, Send, hubVars, TypeOK
    <3>2. CASE b = c
      <4>1. [type |-> "Joined", group |-> g] \in Frame
        BY DEF Frame
      <4>2. wire'[c] = Append(w, [type |-> "Joined", group |-> g])
        BY <2>2 DEF Join, Send, TypeOK
      <4>3. Fwd(wire'[c]) = {}
        BY <2>0, <4>1, <4>2, FwdJoined
      <4> QED
        BY <3>2, <4>3 DEF FwdOK, Fwd
    <3> QED
      BY <3>1, <3>2
  <2>3. ASSUME NEW g \in Groups, NEW ts \in Stamps, Publish(c, g, ts)
        PROVE  FwdOK(b)'
    <3>1. UNCHANGED <<wire, group, device, rx>>
      BY <2>3 DEF Publish, sockVars
    <3>2. /\ \A n \in 1..Len(sent[g]) : sent'[g][n] = sent[g][n]
          /\ \A h \in Groups \ {g} : sent'[h] = sent[h]
      BY <2>3, PublishEffect
    <3>3. ASSUME NEW i \in Fwd(wire[b])
          PROVE  sent'[group[b]][wire[b][i].n] = sent[group[b]][wire[b][i].n]
      <4>1. group[b] \in Groups /\ wire[b][i].n \in 1..rx[b].pos
        BY <3>3 DEF FwdOK, TypeOK
      <4>2. rx[b].pos <= Len(sent[group[b]]) /\ rx[b].pos \in Nat
        BY <4>1, NoneAssumption DEF CursorInv, TypeOK, Receiver
      <4>3. Len(sent[group[b]]) \in Nat
        BY <4>1 DEF TypeOK
      <4>4. wire[b][i].n \in 1..Len(sent[group[b]])
        BY <4>1, <4>2, <4>3
      <4> QED
        BY <3>2, <4>1, <4>4
    <3> QED
      BY <3>1, <3>3 DEF FwdOK, Fwd
  <2>4. ASSUME NEW f \in Frame, f.type \notin {"Clip", "Joined"}, Send(c, f),
               UNCHANGED <<sent, group, device, rx>>
        PROVE  FwdOK(b)'
    <3>1. CASE b # c
      BY <2>4, <3>1, FwdFrame DEF Send, TypeOK
    <3>2. CASE b = c
      <4>1. wire'[c] = Append(w, f)
        BY <2>4 DEF Send, TypeOK
      <4>2. /\ Fwd(wire'[c]) = Fwd(w)
            /\ \A i \in Fwd(w) : wire'[c][i] = w[i]
        BY <2>0, <2>4, <4>1, FwdOther
      <4>3. Fwd(wire[c])' = Fwd(w)
        BY <4>2 DEF Fwd
      <4> QED
        BY <2>4, <3>2, <4>2, <4>3 DEF FwdOK
    <3> QED
      BY <3>1, <3>2
  <2>5. ASSUME NEW g \in Groups, FetchRecent(c, g)
        PROVE  FwdOK(b)'
    <3> DEFINE f == [type |-> "Recent", group |-> g, clips |-> Retain(g)]
    <3>1. f \in Frame /\ f.type \notin {"Clip", "Joined"}
      BY CacheType DEF Frame
    <3>2. Send(c, f) /\ UNCHANGED <<sent, group, device, rx>>
      BY <2>5 DEF FetchRecent, sockVars
    <3> HIDE DEF f
    <3> QED
      BY <2>4, <3>1, <3>2
  <2>6. CASE Refuse(c)
    <3> DEFINE f == [type |-> "Error"]
    <3>1. f \in Frame /\ f.type \notin {"Clip", "Joined"}
      BY DEF Frame
    <3>2. Send(c, f) /\ UNCHANGED <<sent, group, device, rx>>
      BY <2>6 DEF Refuse, hubVars, sockVars
    <3> HIDE DEF f
    <3> QED
      BY <2>4, <3>1, <3>2
  <2>7. CASE Forward(c)
    <3> DEFINE g == rx[c].group
               n == rx[c].pos + 1
               f == [type |-> "Clip", group |-> g, n |-> n]
    <3>1. /\ g \in Groups /\ rx[c].pos \in Nat /\ g = group[c] /\ g # None
          /\ UNCHANGED <<sent, group, device>>
      BY <2>7, NoneAssumption DEF Forward, Pending, hubVars, TypeOK, Receiver, CursorInv
    <3>2. /\ rx'[c].pos = n
          /\ \A d \in Conns \ {c} : rx'[d] = rx[d]
      BY <2>7 DEF Forward, TypeOK, Receiver
    <3>3. CASE b # c
      <4>1. wire'[b] = wire[b]
        BY <2>7, <3>3 DEF Forward, Send, TypeOK
      <4> QED
        BY <3>1, <3>2, <3>3, <4>1, FwdFrame
    <3>4. CASE b = c /\ sent[g][n].sender = device[c]
      <4>1. wire' = wire
        BY <2>7, <3>4 DEF Forward
      <4>2. \A k \in 1..rx[c].pos : k \in 1..rx'[c].pos
        BY <3>1, <3>2
      <4> QED
        BY <3>1, <3>4, <4>1, <4>2 DEF FwdOK, Fwd
    <3>5. CASE b = c /\ sent[g][n].sender # device[c]
      <4>1. f \in Frame /\ f.type = "Clip" /\ f.group = g /\ f.n = n
        BY <3>1 DEF Frame
      <4>2. Send(c, f)
        BY <2>7, <3>5 DEF Forward
      <4>3. wire'[c] = Append(w, f)
        BY <4>2, <2>0 DEF Send
      <4> HIDE DEF f, w
      <4>4. /\ Fwd(wire'[c]) = Fwd(w) \cup {Len(w) + 1}
            /\ \A i \in Fwd(w) : i \in 1..Len(w) /\ wire'[c][i] = w[i]
            /\ wire'[c][Len(w) + 1] = f
        BY <2>0, <4>1, <4>3, FwdClip
      <4>5. Fwd(wire[c])' = Fwd(w) \cup {Len(w) + 1}
        BY <4>4 DEF Fwd
      <4>6. \A i \in Fwd(w) :
                /\ w[i].group = group[c] /\ w[i].n \in 1..rx[c].pos
                /\ sent[group[c]][w[i].n].sender # device[c]
                /\ \A j \in Fwd(w) : i < j => w[i].n < w[j].n
        BY DEF FwdOK, w
      <4>7. n \in 1..rx'[c].pos /\ \A k \in 1..rx[c].pos : k \in 1..rx'[c].pos /\ k < n
        BY <3>1, <3>2
      <4>8. Len(w) \in Nat
        BY <2>0
      <4>9. ASSUME NEW i \in Fwd(w) \cup {Len(w) + 1}
            PROVE  /\ wire'[c][i].group = group[c]
                   /\ wire'[c][i].n \in 1..rx'[c].pos
                   /\ sent[group[c]][wire'[c][i].n].sender # device[c]
        BY <3>1, <3>5, <4>1, <4>4, <4>6, <4>7
      <4>10. ASSUME NEW i \in Fwd(w) \cup {Len(w) + 1},
                    NEW j \in Fwd(w) \cup {Len(w) + 1}, i < j
             PROVE  wire'[c][i].n < wire'[c][j].n
        <5>1. i \in Fwd(w)
          BY <4>4, <4>8, <4>10
        <5>2. CASE j \in Fwd(w)
          BY <4>4, <4>6, <4>10, <5>1, <5>2
        <5>3. CASE j = Len(w) + 1
          BY <4>1, <4>4, <4>6, <4>7, <5>1, <5>3
        <5> QED
          BY <5>2, <5>3
      <4> QED
        BY <3>1, <3>5, <4>5, <4>9, <4>10 DEF FwdOK
    <3> QED
      BY <3>3, <3>4, <3>5
  <2>8. CASE SkipLagged(c)
    <3>1. rx[c].group \in Groups /\ rx[c].pos \in Nat
      BY <2>8 DEF SkipLagged, Pending, TypeOK, Receiver
    <3>2. /\ UNCHANGED <<sent, group, device, wire>>
          /\ rx'[c].pos = Len(sent[rx[c].group]) - BROADCAST_CAP
          /\ rx'[c].pos > rx[c].pos
          /\ \A d \in Conns \ {c} : rx'[d] = rx[d]
      <4>1. Len(sent[rx[c].group]) \in Nat
        BY <3>1 DEF TypeOK
      <4>2. Len(sent[rx[c].group]) - rx[c].pos > BROADCAST_CAP
        BY <2>8 DEF SkipLagged, Lagging
      <4>3. /\ UNCHANGED <<sent, group, device, wire>>
            /\ rx'[c].pos = Len(sent[rx[c].group]) - BROADCAST_CAP
            /\ \A d \in Conns \ {c} : rx'[d] = rx[d]
        BY <2>8 DEF SkipLagged, hubVars, TypeOK, Receiver
      <4> QED
        BY <3>1, <4>1, <4>2, <4>3, CapAssumption
    <3>3. \A k \in 1..rx[c].pos : k \in 1..rx'[c].pos
      <4>1. rx'[c].pos \in Int
        BY <3>1, <3>2, CapAssumption DEF TypeOK
      <4> QED
        BY <3>1, <3>2, <4>1
    <3>4. CASE b # c
      BY <3>2, <3>4, FwdFrame
    <3>5. CASE b = c
      BY <3>2, <3>3, <3>5 DEF FwdOK, Fwd
    <3> QED
      BY <3>4, <3>5
  <2>9. CASE Close(c)
    <3>1. CASE b # c
      BY <2>9, <3>1, FwdFrame DEF Close, hubVars, TypeOK
    <3>2. CASE b = c
      <4>1. wire'[c] = <<>>
        BY <2>9 DEF Close, TypeOK
      <4>2. Fwd(wire[c])' = {}
        BY <4>1 DEF Fwd
      <4> QED
        BY <3>2, <4>2 DEF FwdOK
    <3> QED
      BY <3>1, <3>2
  <2>10. CASE Read(c)
    <3>1. /\ UNCHANGED <<sent, group, device, rx>> /\ w # <<>>
          /\ wire'[c] = Tail(w)
          /\ \A d \in Conns \ {c} : wire'[d] = wire[d]
      BY <2>10 DEF Read, hubVars, sockVars, TypeOK
    <3>2. CASE b # c
      BY <3>1, <3>2, FwdFrame
    <3>3. CASE b = c
      <4>1. \A i \in Fwd(wire'[c]) : i \in Nat /\ i + 1 \in Fwd(w) /\ wire'[c][i] = w[i + 1]
        BY <2>0, <3>1, FwdTail
      <4>2. Fwd(wire[c])' = Fwd(wire'[c])
        BY DEF Fwd
      <4>3. \A i \in Fwd(w) :
                /\ w[i].group = group[c] /\ group[c] # None /\ w[i].n \in 1..rx[c].pos
                /\ sent[group[c]][w[i].n].sender # device[c]
                /\ \A j \in Fwd(w) : i < j => w[i].n < w[j].n
        BY DEF FwdOK
      <4>4. \A i, j \in Fwd(wire'[c]) : i < j => wire'[c][i].n < wire'[c][j].n
        BY <4>1, <4>3
      <4>5. \A i \in Fwd(wire'[c]) :
                /\ wire'[c][i].group = group[c] /\ group[c] # None
                /\ wire'[c][i].n \in 1..rx[c].pos
                /\ sent[group[c]][wire'[c][i].n].sender # device[c]
        BY <4>1, <4>3
      <4>6. UNCHANGED <<sent, group, device, rx>>
        BY <3>1
      <4> HIDE DEF w
      <4> QED
        BY <3>3, <4>2, <4>4, <4>5, <4>6 DEF FwdOK
    <3> QED
      BY <3>2, <3>3
  <2> QED
    BY <1>2, <2>1, <2>2, <2>3, <2>5, <2>6, <2>7, <2>8, <2>9, <2>10 DEF ConnStep
<1> QED
  BY <1>1, <1>2 DEF Next

\* The clips a socket of the relay forwards within one subscription are of the
\* joined group, in publication order, without repetition and without an echo,
\* for every number of groups and however often the socket joins again.
THEOREM ForwardedCleanHolds == Spec => []ForwardedClean
<1> DEFINE I == TypeOK /\ CursorInv /\ \A b \in Conns : FwdOK(b)
<1>1. Init => I
  BY DEF Init, TypeOK, NoRx, Receiver, CursorInv, FwdOK, Fwd
<1>2. I /\ [Next]_vars => I'
  BY TypeStep, CursorStep, FwdStep
<1>3. I => ForwardedClean
  BY DEF FwdOK, Fwd, ForwardedClean, Forwarded
<1> QED
  BY <1>1, <1>2, <1>3, PTL DEF Spec
=============================================================================
