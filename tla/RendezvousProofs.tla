-------------------------- MODULE RendezvousProofs --------------------------
(***************************************************************************)
(* Proofs about relay-assisted rendezvous, for any number of sockets,      *)
(* devices, groups, source addresses and advertised candidates, and for    *)
(* any relation that mutual_subnet may compute.                            *)
(***************************************************************************)
EXTENDS Rendezvous, SequenceTheorems, TLAPS

-----------------------------------------------------------------------------
(* The inductive invariant *)

\* Connection ids are handed out once; only an open socket has joined, and it
\* has advertised to no other group than the one it joined.
SocketInv ==
    /\ \A c \in Conns : id[c] < connSeq
    /\ \A c, d \in Conns : Open(c) /\ id[c] = id[d] => c = d
    /\ \A c \in Conns : Open(c) => egress[c] \in Egresses
    /\ \A c \in Conns : group[c] # None => Open(c) /\ device[c] \in Devices
    /\ \A c \in Conns : Registered(c) => rvGroup[c] = group[c]

\* A record is what its socket advertised: private candidates of the device
\* that joined.  Each registered socket has a record and each record is the
\* only one with its connection id.
RecordInv ==
    /\ \A g \in Groups : \A r \in presence[g] :
          /\ r.cands \subseteq Private
          /\ r.device = device[r.slot]
          /\ \A s \in presence[g] : s.id = r.id => s = r
    /\ \A c \in Conns : Registered(c) => \E r \in presence[rvGroup[c]] : r.slot = c

IInv == TypeOK /\ SocketInv /\ PresenceIsLive /\ RecordInv /\ SnapshotIsFresh

-----------------------------------------------------------------------------
(* What push_egress computes *)

\* Candidates are candidates of the peer.
LEMMA CandidatesSubset ==
    ASSUME NEW receiver, NEW peer
    PROVE  CandidatesFor(receiver, peer) \subseteq peer.cands
BY DEF CandidatesFor

\* A snapshot of records is a set of peers.
LEMMA SnapshotType ==
    ASSUME NEW members \in SUBSET RvConn, NEW receiver \in RvConn
    PROVE  SnapshotFor(members, receiver) \in LanPeers
<1>1. \A p \in members : p.device \in Devices /\ CandidatesFor(receiver, p) \in SUBSET Addrs
  BY CandidatesSubset DEF RvConn
<1>2. ASSUME NEW q \in SnapshotFor(members, receiver)
      PROVE  q \in [device : Devices, cands : SUBSET Addrs]
  <2>1. PICK p \in members : q = [device |-> p.device, cands |-> CandidatesFor(receiver, p)]
    BY <1>2 DEF SnapshotFor
  <2> QED
    BY <1>1, <2>1
<1> QED
  BY <1>2 DEF LanPeers

\* The mailboxes stay sequences of snapshots.
LEMMA PushType ==
    ASSUME NEW boxes \in [Conns -> Seq(LanPeers)], NEW members \in SUBSET RvConn
    PROVE  PushEgress(boxes, members) \in [Conns -> Seq(LanPeers)]
<1> SUFFICES ASSUME NEW c \in Conns, Mine(members, c) # {}
             PROVE  Append(boxes[c], SnapshotFor(members, CHOOSE r \in Mine(members, c) : TRUE))
                        \in Seq(LanPeers)
  BY DEF PushEgress
<1>1. (CHOOSE r \in Mine(members, c) : TRUE) \in RvConn
  BY DEF Mine
<1>2. SnapshotFor(members, CHOOSE r \in Mine(members, c) : TRUE) \in LanPeers
  BY <1>1, SnapshotType
<1> QED
  BY <1>2

\* A socket without a record among the members is told nothing, one with a
\* single record is told what that record is due.
LEMMA PushBoxes ==
    ASSUME NEW boxes \in [Conns -> Seq(LanPeers)], NEW members \in SUBSET RvConn, NEW c \in Conns
    PROVE  /\ Mine(members, c) = {} => PushEgress(boxes, members)[c] = boxes[c]
           /\ \A r \in Mine(members, c) :
                 Mine(members, c) = {r} =>
                     /\ PushEgress(boxes, members)[c] # <<>>
                     /\ PushEgress(boxes, members)[c][Len(PushEgress(boxes, members)[c])]
                            = SnapshotFor(members, r)
<1>1. Mine(members, c) = {} => PushEgress(boxes, members)[c] = boxes[c]
  BY DEF PushEgress
<1>2. ASSUME NEW r \in Mine(members, c), Mine(members, c) = {r}
      PROVE  /\ PushEgress(boxes, members)[c] # <<>>
             /\ PushEgress(boxes, members)[c][Len(PushEgress(boxes, members)[c])]
                    = SnapshotFor(members, r)
  <2>1. (CHOOSE s \in Mine(members, c) : TRUE) = r
    BY <1>2
  <2>2. PushEgress(boxes, members)[c] = Append(boxes[c], SnapshotFor(members, r))
    BY <1>2, <2>1 DEF PushEgress
  <2>3. SnapshotFor(members, r) \in LanPeers
    BY SnapshotType DEF Mine
  <2> HIDE DEF LanPeers
  <2>4. boxes[c] \in Seq(LanPeers)
    OBVIOUS
  <2>5. /\ Append(boxes[c], SnapshotFor(members, r)) # <<>>
        /\ Append(boxes[c], SnapshotFor(members, r))[Len(boxes[c]) + 1] = SnapshotFor(members, r)
        /\ Len(Append(boxes[c], SnapshotFor(members, r))) = Len(boxes[c]) + 1
    BY <2>3, <2>4
  <2> QED
    BY <2>2, <2>5
<1> QED
  BY <1>1, <1>2

-----------------------------------------------------------------------------
(* Types *)

\* The record that a LanAdvertise leaves is a record.
LEMMA UpsertType ==
    ASSUME TypeOK, SocketInv, NEW c \in Conns, NEW adv \in Adverts, LanAdvertise(c, adv)
    PROVE  /\ group[c] \in Groups
           /\ Sanitize(adv).cands \in SUBSET Addrs /\ Sanitize(adv).nets \in SUBSET Addrs
           /\ Sanitize(adv).cands \subseteq Private
           /\ Upsert(c, Sanitize(adv)) \in SUBSET RvConn
<1>1. group[c] \in Groups /\ id[c] \in Nat /\ egress[c] \in Egresses /\ device[c] \in Devices
  BY RendezvousAssumption DEF TypeOK, LanAdvertise, SocketInv, Open
<1>2. /\ Sanitize(adv).cands \in SUBSET Addrs /\ Sanitize(adv).nets \in SUBSET Addrs
      /\ Sanitize(adv).cands \subseteq Private
  BY RendezvousAssumption DEF Sanitize
<1>3. presence[group[c]] \in SUBSET RvConn
  BY <1>1 DEF TypeOK
<1>4. [slot |-> c, id |-> id[c], egress |-> egress[c], device |-> device[c],
       cands |-> Sanitize(adv).cands, nets |-> Sanitize(adv).nets] \in RvConn
  BY <1>1, <1>2 DEF RvConn
<1> QED
  BY <1>1, <1>2, <1>3, <1>4 DEF Upsert

\* Every step keeps the types.
LEMMA TypeStep ==
    ASSUME TypeOK, SocketInv, [Next]_vars
    PROVE  TypeOK'
<1> USE DEF TypeOK, sockVars
<1>1. ASSUME NEW c \in Conns, NEW e \in Egresses, Accept(c, e)
      PROVE  TypeOK'
  BY <1>1, RendezvousAssumption DEF Accept
<1>2. ASSUME NEW c \in Conns, NEW g \in Groups, NEW d \in Devices, Join(c, g, d)
      PROVE  TypeOK'
  BY <1>2 DEF Join
<1>3. ASSUME NEW c \in Conns, NEW adv \in Adverts, LanAdvertise(c, adv)
      PROVE  TypeOK'
  <2> DEFINE records == Upsert(c, Sanitize(adv))
  <2>1. group[c] \in Groups /\ records \in SUBSET RvConn
    BY <1>3, UpsertType
  <2>2. Members(records, egress[c]) \in SUBSET RvConn
    BY <2>1 DEF Members
  <2>3. mailbox' \in [Conns -> Seq(LanPeers)]
    BY <1>3, <2>2, PushType DEF LanAdvertise
  <2>4. presence' \in [Groups -> SUBSET RvConn]
    BY <1>3, <2>1 DEF LanAdvertise
  <2>5. advs' \in 0..MaxAdvs
    BY <1>3, RendezvousAssumption DEF LanAdvertise
  <2> QED
    BY <1>3, <2>1, <2>3, <2>4, <2>5 DEF LanAdvertise
<1>4. ASSUME NEW c \in Conns, Tell(c)
      PROVE  TypeOK'
  <2>1. mailbox[c] \in Seq(LanPeers) /\ mailbox[c] # <<>>
    BY <1>4 DEF Tell
  <2>2. Head(mailbox[c]) \in LanPeers /\ Tail(mailbox[c]) \in Seq(LanPeers)
    BY <2>1
  <2> QED
    BY <1>4, <2>2 DEF Tell
<1>5. ASSUME NEW c \in Conns, Close(c)
      PROVE  TypeOK'
  <2>1. presence' \in [Groups -> SUBSET RvConn] /\ mailbox' \in [Conns -> Seq(LanPeers)]
    <3>1. CASE rvGroup[c] = None
      BY <1>5, <3>1 DEF Close
    <3>2. CASE rvGroup[c] # None
      <4> DEFINE records == {r \in presence[rvGroup[c]] : r.id # id[c]}
                 boxes == [mailbox EXCEPT ![c] = <<>>]
      <4>1. rvGroup[c] \in Groups /\ records \in SUBSET RvConn
        BY <3>2
      <4>2. boxes \in [Conns -> Seq(LanPeers)] /\ Members(records, egress[c]) \in SUBSET RvConn
        BY <4>1 DEF Members
      <4>3. PushEgress(boxes, Members(records, egress[c])) \in [Conns -> Seq(LanPeers)]
        BY <4>2, PushType
      <4> QED
        BY <1>5, <3>2, <4>1, <4>3 DEF Close, Remove
    <3> QED
      BY <3>1, <3>2
  <2>2. {} \in LanPeers /\ 0 \in 0..MaxConns
    BY RendezvousAssumption DEF LanPeers
  <2> QED
    BY <1>5, <2>1, <2>2 DEF Close
<1>6. CASE UNCHANGED vars
  BY <1>6 DEF vars
<1> QED
  BY <1>1, <1>2, <1>3, <1>4, <1>5, <1>6 DEF Next

-----------------------------------------------------------------------------
(* Sockets and records *)

\* A new connection has an id that no other has.
LEMMA SocketStep ==
    ASSUME TypeOK, SocketInv, [Next]_vars
    PROVE  SocketInv'
<1> USE DEF SocketInv, sockVars, Registered, Open
<1>1. ASSUME NEW c \in Conns, NEW e \in Egresses, Accept(c, e)
      PROVE  SocketInv'
  <2>1. connSeq \in Nat /\ connSeq # 0 /\ \A d \in Conns : id[d] \in Nat
    BY RendezvousAssumption DEF TypeOK
  <2>2. \A d \in Conns : /\ id'[d] = IF d = c THEN connSeq ELSE id[d]
                         /\ egress'[d] = IF d = c THEN e ELSE egress[d]
    BY <1>1 DEF Accept, TypeOK
  <2> QED
    BY <1>1, <2>1, <2>2 DEF Accept
<1>2. ASSUME NEW c \in Conns, NEW g \in Groups, NEW d \in Devices, Join(c, g, d)
      PROVE  SocketInv'
  <2>1. \A b \in Conns : /\ group'[b] = IF b = c THEN g ELSE group[b]
                         /\ device'[b] = IF b = c THEN d ELSE device[b]
    BY <1>2 DEF Join, TypeOK
  <2> QED
    BY <1>2, <2>1 DEF Join
<1>3. ASSUME NEW c \in Conns, NEW adv \in Adverts, LanAdvertise(c, adv)
      PROVE  SocketInv'
  <2>1. \A b \in Conns : rvGroup'[b] = IF b = c THEN group[c] ELSE rvGroup[b]
    BY <1>3 DEF LanAdvertise, TypeOK
  <2> QED
    BY <1>3, <2>1 DEF LanAdvertise
<1>4. ASSUME NEW c \in Conns, Tell(c)
      PROVE  SocketInv'
  BY <1>4 DEF Tell
<1>5. ASSUME NEW c \in Conns, Close(c)
      PROVE  SocketInv'
  <2>1. connSeq \in Nat /\ connSeq > 0
    BY RendezvousAssumption DEF TypeOK
  <2>2. \A b \in Conns : /\ id'[b] = IF b = c THEN 0 ELSE id[b]
                         /\ egress'[b] = IF b = c THEN None ELSE egress[b]
                         /\ device'[b] = IF b = c THEN None ELSE device[b]
                         /\ group'[b] = IF b = c THEN None ELSE group[b]
                         /\ rvGroup'[b] = IF b = c THEN None ELSE rvGroup[b]
    BY <1>5 DEF Close, TypeOK
  <2> QED
    BY <1>5, <2>1, <2>2 DEF Close
<1>6. CASE UNCHANGED vars
  BY <1>6 DEF vars
<1> QED
  BY <1>1, <1>2, <1>3, <1>4, <1>5, <1>6 DEF Next

\* No record is there without its socket, and none has the id of another one.
LEMMA NoRecordWithout ==
    ASSUME TypeOK, SocketInv, PresenceIsLive, NEW g \in Groups, NEW r \in presence[g]
    PROVE  /\ r \in RvConn /\ r.slot \in Conns
           /\ Registered(r.slot) /\ Open(r.slot) /\ group[r.slot] = g
           /\ \A c \in Conns : r.id = id[c] => c = r.slot
<1>1. r \in RvConn /\ r.slot \in Conns
  BY DEF TypeOK, RvConn
<1>2. rvGroup[r.slot] = g /\ id[r.slot] = r.id /\ g # None
  BY RendezvousAssumption DEF PresenceIsLive
<1> QED
  BY <1>1, <1>2 DEF SocketInv, Registered, Open

\* LanAdvertise replaces the socket's record and Close removes it.
LEMMA RecordStep ==
    ASSUME TypeOK, SocketInv, PresenceIsLive, RecordInv, [Next]_vars
    PROVE  PresenceIsLive' /\ RecordInv'
<1> USE DEF sockVars
<1>1. ASSUME NEW c \in Conns, NEW e \in Egresses, Accept(c, e)
      PROVE  PresenceIsLive' /\ RecordInv'
  <2>1. \A g \in Groups : \A r \in presence[g] : r.slot # c /\ r.slot \in Conns
    BY <1>1, NoRecordWithout DEF Accept
  <2>2. \A d \in Conns \ {c} : id'[d] = id[d] /\ egress'[d] = egress[d]
    BY <1>1 DEF Accept, TypeOK
  <2> QED
    BY <1>1, <2>1, <2>2 DEF Accept, PresenceIsLive, RecordInv, Registered
<1>2. ASSUME NEW c \in Conns, NEW g \in Groups, NEW d \in Devices, Join(c, g, d)
      PROVE  PresenceIsLive' /\ RecordInv'
  <2>1. \A h \in Groups : \A r \in presence[h] : r.slot # c /\ r.slot \in Conns
    BY <1>2, NoRecordWithout, RendezvousAssumption DEF Join
  <2>2. \A b \in Conns \ {c} : device'[b] = device[b]
    BY <1>2 DEF Join, TypeOK
  <2> QED
    BY <1>2, <2>1, <2>2 DEF Join, PresenceIsLive, RecordInv, Registered
<1>3. ASSUME NEW c \in Conns, NEW adv \in Adverts, LanAdvertise(c, adv)
      PROVE  PresenceIsLive' /\ RecordInv'
  <2> DEFINE g == group[c]
             new == [slot |-> c, id |-> id[c], egress |-> egress[c], device |-> device[c],
                     cands |-> Sanitize(adv).cands, nets |-> Sanitize(adv).nets]
             kept == {r \in presence[g] : r.id # id[c]}
  <2>1. g \in Groups /\ g # None /\ Sanitize(adv).cands \subseteq Private
    BY <1>3, UpsertType DEF LanAdvertise
  <2>2. presence' = [presence EXCEPT ![g] = kept \cup {new}]
    BY <1>3 DEF LanAdvertise, Upsert
  <2>3. rvGroup' = [rvGroup EXCEPT ![c] = g] /\ UNCHANGED <<id, egress, device, group>>
    BY <1>3 DEF LanAdvertise
  <2>4. \A h \in Groups : presence'[h] = IF h = g THEN kept \cup {new} ELSE presence[h]
    BY <2>1, <2>2 DEF TypeOK
  <2>5. \A b \in Conns : rvGroup'[b] = IF b = c THEN g ELSE rvGroup[b]
    BY <2>3 DEF TypeOK
  <2>6. /\ new.slot = c /\ new.id = id[c] /\ new.egress = egress[c]
        /\ new.device = device[c] /\ new.cands \subseteq Private
    BY <2>1
  <2> HIDE DEF new
  <2>7. \A h \in Groups : \A r \in presence[h] : r.slot \in Conns /\ (r.slot = c => h = g)
    BY NoRecordWithout
  <2>11. \A h \in Groups : \A r \in presence'[h] :
            (r = new /\ h = g) \/ (r \in presence[h] /\ (h = g => r.id # id[c]))
    BY <2>4
  <2>8. ASSUME NEW h \in Groups, NEW r \in presence'[h]
        PROVE  id'[r.slot] = r.id /\ rvGroup'[r.slot] = h /\ egress'[r.slot] = r.egress
    <3>1. CASE r = new /\ h = g
      BY <2>3, <2>5, <2>6, <3>1
    <3>2. CASE r \in presence[h]
      <4>1. id[r.slot] = r.id /\ rvGroup[r.slot] = h /\ egress[r.slot] = r.egress
        BY <3>2 DEF PresenceIsLive
      <4>2. r.slot \in Conns /\ (r.slot = c => h = g)
        BY <2>7, <3>2
      <4> QED
        BY <2>3, <2>5, <4>1, <4>2
    <3> QED
      BY <2>11, <3>1, <3>2
  <2>9. ASSUME NEW h \in Groups, NEW r \in presence'[h]
        PROVE  /\ r.cands \subseteq Private /\ r.device = device'[r.slot]
               /\ \A s \in presence'[h] : s.id = r.id => s = r
    <3>1. CASE r = new /\ h = g
      BY <2>3, <2>6, <2>11, <3>1
    <3>2. CASE r \in presence[h] /\ (h = g => r.id # id[c])
      <4>1. /\ r.cands \subseteq Private /\ r.device = device[r.slot]
            /\ \A s \in presence[h] : s.id = r.id => s = r
        BY <3>2 DEF RecordInv
      <4> QED
        BY <2>3, <2>6, <2>11, <3>2, <4>1
    <3> QED
      BY <2>11, <2>9, <3>1, <3>2
  <2>10. ASSUME NEW b \in Conns, Registered(b)'
         PROVE  \E r \in presence'[rvGroup'[b]] : r.slot = b
    <3>1. CASE b = c
      BY <2>1, <2>4, <2>5, <2>6, <3>1
    <3>2. CASE b # c
      <4>1. rvGroup'[b] = rvGroup[b] /\ rvGroup[b] \in Groups /\ Registered(b)
        BY <2>5, <2>10, <3>2 DEF Registered, TypeOK
      <4>2. PICK r \in presence[rvGroup[b]] : r.slot = b
        BY <4>1 DEF RecordInv
      <4>3. r.id # id[c]
        BY <3>2, <4>1, <4>2, NoRecordWithout
      <4> QED
        BY <2>4, <4>1, <4>2, <4>3
    <3> QED
      BY <3>1, <3>2
  <2> QED
    BY <2>8, <2>9, <2>10 DEF PresenceIsLive, RecordInv
<1>4. ASSUME NEW c \in Conns, Tell(c)
      PROVE  PresenceIsLive' /\ RecordInv'
  BY <1>4 DEF Tell, PresenceIsLive, RecordInv, Registered
<1>5. ASSUME NEW c \in Conns, Close(c)
      PROVE  PresenceIsLive' /\ RecordInv'
  <2>1. \A b \in Conns \ {c} : /\ id'[b] = id[b] /\ egress'[b] = egress[b]
                               /\ device'[b] = device[b] /\ rvGroup'[b] = rvGroup[b]
    BY <1>5 DEF Close, TypeOK
  <2>2. rvGroup'[c] = None
    BY <1>5 DEF Close, TypeOK
  <2>3. \A h \in Groups : presence'[h] = {r \in presence[h] : r.slot # c}
    <3>1. CASE rvGroup[c] = None
      <4>1. \A h \in Groups : \A r \in presence[h] : r.slot # c
        BY <3>1, NoRecordWithout DEF Registered
      <4>2. presence' = presence
        BY <1>5, <3>1 DEF Close
      <4> QED
        BY <4>1, <4>2
    <3>2. CASE rvGroup[c] # None
      <4> DEFINE g == rvGroup[c]
      <4>1. g \in Groups
        BY <3>2 DEF TypeOK
      <4>2. \A h \in Groups : presence'[h] = IF h = g THEN {r \in presence[g] : r.id # id[c]}
                                                      ELSE presence[h]
        BY <1>5, <3>2, <4>1 DEF Close, Remove, TypeOK
      <4>3. \A h \in Groups : \A r \in presence[h] : r.slot = c => h = g
        BY DEF PresenceIsLive
      <4>4. \A r \in presence[g] : r.id # id[c] <=> r.slot # c
        BY <4>1, NoRecordWithout DEF PresenceIsLive
      <4> QED
        BY <4>2, <4>3, <4>4
    <3> QED
      BY <3>1, <3>2
  <2>4. \A h \in Groups : \A r \in presence'[h] : r \in presence[h] /\ r.slot \in Conns \ {c}
    BY <2>3, NoRecordWithout
  <2>5. PresenceIsLive'
    BY <2>1, <2>4 DEF PresenceIsLive
  <2>6. ASSUME NEW h \in Groups, NEW r \in presence'[h]
        PROVE  /\ r.cands \subseteq Private /\ r.device = device'[r.slot]
               /\ \A s \in presence'[h] : s.id = r.id => s = r
    BY <2>1, <2>4, <2>6 DEF RecordInv
  <2>7. ASSUME NEW b \in Conns, Registered(b)'
        PROVE  \E r \in presence'[rvGroup'[b]] : r.slot = b
    <3>1. b # c /\ rvGroup'[b] = rvGroup[b] /\ rvGroup[b] \in Groups /\ Registered(b)
      BY <2>1, <2>2, <2>7 DEF Registered, TypeOK
    <3> QED
      BY <2>3, <3>1 DEF RecordInv
  <2> QED
    BY <2>5, <2>6, <2>7 DEF RecordInv
<1>6. CASE UNCHANGED vars
  BY <1>6 DEF vars, PresenceIsLive, RecordInv, Registered
<1> QED
  BY <1>1, <1>2, <1>3, <1>4, <1>5, <1>6 DEF Next

-----------------------------------------------------------------------------
(* Snapshots *)

\* The push of one group and source address leaves every socket with a fresh
\* snapshot: sockets with a record there are told, the others see no change.
LEMMA PushIsFresh ==
    ASSUME TypeOK, PresenceIsLive, SnapshotIsFresh,
           TypeOK', PresenceIsLive', RecordInv',
           NEW c \in Conns, NEW g \in Groups, NEW boxes \in [Conns -> Seq(LanPeers)],
           \A d \in Conns \ {c} :
               /\ boxes[d] = mailbox[d] /\ told'[d] = told[d] /\ id'[d] = id[d]
               /\ rvGroup'[d] = rvGroup[d] /\ egress'[d] = egress[d],
           Registered(c)' => id'[c] = id[c] /\ rvGroup'[c] = g /\ egress'[c] = egress[c],
           mailbox' = PushEgress(boxes, Members(presence'[g], egress[c])),
           \A h \in Groups : \A e :
               h # g \/ e # egress[c] => Members(presence'[h], e) = Members(presence[h], e)
    PROVE  SnapshotIsFresh'
<1> DEFINE pushed == Members(presence'[g], egress[c])
<1>1. pushed \in SUBSET RvConn
  BY DEF TypeOK, Members
<1> SUFFICES ASSUME NEW d \in Conns, Registered(d)',
                    NEW r \in Members(presence'[rvGroup'[d]], egress'[d]),
                    r.slot = d, r.id = id'[d]
             PROVE  Latest(d)' = SnapshotFor(Members(presence'[rvGroup'[d]], egress'[d]), r)
  BY DEF SnapshotIsFresh, Mine, Members
<1> DEFINE h == rvGroup'[d]
           e == egress'[d]
<1>2. h \in Groups /\ id'[d] = id[d]
  BY DEF Registered, TypeOK
<1>3. r \in Members(presence'[h], e) /\ r.slot = d /\ r.id = id[d]
  BY <1>2
<1>4. CASE h = g /\ e = egress[c]
  <2>1. \A s \in presence'[g] : s.id = r.id => s = r
    BY <1>3, <1>4 DEF RecordInv, Members
  <2>2. Mine(pushed, d) = {r}
    BY <1>3, <1>4, <2>1 DEF Mine, Members
  <2>3. mailbox' = PushEgress(boxes, pushed) /\ r \in Mine(pushed, d)
    BY <2>2
  <2> HIDE DEF pushed
  <2>4. mailbox'[d] # <<>> /\ mailbox'[d][Len(mailbox'[d])] = SnapshotFor(pushed, r)
    <3>1. /\ PushEgress(boxes, pushed)[d] # <<>>
          /\ PushEgress(boxes, pushed)[d][Len(PushEgress(boxes, pushed)[d])]
                 = SnapshotFor(pushed, r)
      BY <1>1, <2>2, <2>3, PushBoxes, Zenon
    <3> QED
      BY <2>3, <3>1, Zenon
  <2> QED
    BY <1>4, <2>4 DEF Latest, pushed
<1>5. CASE h # g \/ e # egress[c]
  <2>1. d # c
    BY <1>5
  <2>2. \A s \in pushed : s.slot # d
    BY <1>5 DEF PresenceIsLive, Members
  <2>3. mailbox'[d] = mailbox[d]
    <3>1. mailbox' = PushEgress(boxes, pushed) /\ Mine(pushed, d) = {}
      BY <2>2 DEF Mine
    <3> HIDE DEF pushed
    <3>2. PushEgress(boxes, pushed)[d] = boxes[d]
      BY <1>1, <3>1, PushBoxes
    <3> QED
      BY <2>1, <3>1, <3>2
  <2>4. Latest(d)' = Latest(d)
    BY <2>1, <2>3 DEF Latest
  <2>5. Registered(d) /\ h = rvGroup[d] /\ e = egress[d]
    BY <2>1 DEF Registered
  <2>6. Members(presence'[h], e) = Members(presence[rvGroup[d]], egress[d])
    <3>1. Members(presence'[h], e) = Members(presence[h], e)
      BY <1>2, <1>5, Zenon
    <3> QED
      BY <2>5, <3>1
  <2>7. r \in Mine(Members(presence[rvGroup[d]], egress[d]), d)
    BY <1>3, <2>6 DEF Mine
  <2>8. Latest(d) = SnapshotFor(Members(presence[rvGroup[d]], egress[d]), r)
    BY <2>5, <2>7 DEF SnapshotIsFresh
  <2> QED
    BY <2>4, <2>6, <2>8
<1> QED
  BY <1>4, <1>5

\* Writing out the oldest snapshot does not change which one is the latest.
LEMMA TellKeepsLatest ==
    ASSUME TypeOK, NEW c \in Conns, Tell(c), NEW d \in Conns
    PROVE  Latest(d)' = Latest(d)
<1>1. CASE d # c
  BY <1>1 DEF Tell, Latest, TypeOK
<1>2. CASE d = c
  <2> DEFINE box == mailbox[c]
  <2>1. box \in Seq(LanPeers) /\ box # <<>>
    BY DEF TypeOK, Tell
  <2>2. mailbox'[c] = Tail(box) /\ told'[c] = Head(box)
    BY DEF TypeOK, Tell
  <2> HIDE DEF LanPeers, box
  <2> DEFINE rest == Tail(box)
  <2>3. /\ rest \in Seq(LanPeers) /\ Len(rest) = Len(box) - 1
        /\ \A i \in 1..Len(rest) : rest[i] = box[i + 1]
    BY <2>1, HeadTailProperties
  <2>4. Len(box) \in Nat \ {0} /\ Head(box) = box[1]
    BY <2>1
  <2>5. mailbox'[c] = rest
    BY <2>2
  <2> HIDE DEF rest
  <2>6. CASE rest = <<>>
    <3>1. Len(box) = 1
      BY <2>3, <2>4, <2>6
    <3> QED
      BY <1>2, <2>1, <2>2, <2>4, <2>5, <2>6, <3>1 DEF Latest, box
  <2>7. CASE rest # <<>>
    <3>1. Len(rest) \in Nat \ {0}
      BY <2>3, <2>7, EmptySeq
    <3>2. rest[Len(rest)] = box[Len(box)]
      BY <2>3, <2>4, <3>1
    <3> QED
      BY <1>2, <2>1, <2>5, <2>7, <3>2 DEF Latest, box
  <2> QED
    BY <2>6, <2>7
<1> QED
  BY <1>1, <1>2

\* Whatever changes the records of a group tells everyone concerned.
LEMMA FreshStep ==
    ASSUME IInv, TypeOK', SocketInv', PresenceIsLive', RecordInv', [Next]_vars
    PROVE  SnapshotIsFresh'
<1> USE DEF IInv, sockVars
<1>1. ASSUME NEW c \in Conns, NEW e \in Egresses, Accept(c, e)
      PROVE  SnapshotIsFresh'
  <2>1. ~Registered(c)
    BY <1>1, RendezvousAssumption DEF Accept, SocketInv, Registered
  <2>2. \A d \in Conns \ {c} : id'[d] = id[d] /\ egress'[d] = egress[d]
    BY <1>1 DEF Accept, TypeOK
  <2>3. UNCHANGED <<presence, rvGroup, mailbox, told>>
    BY <1>1 DEF Accept
  <2> QED
    BY <2>1, <2>2, <2>3 DEF SnapshotIsFresh, Registered, Latest, Mine
<1>2. ASSUME NEW c \in Conns, NEW g \in Groups, NEW d \in Devices, Join(c, g, d)
      PROVE  SnapshotIsFresh'
  BY <1>2 DEF Join, SnapshotIsFresh, Registered, Latest, Mine
<1>3. ASSUME NEW c \in Conns, NEW adv \in Adverts, LanAdvertise(c, adv)
      PROVE  SnapshotIsFresh'
  <2> DEFINE g == group[c]
             records == Upsert(c, Sanitize(adv))
  <2>1. g \in Groups
    BY <1>3, UpsertType
  <2>2. \A h \in Groups : presence'[h] = IF h = g THEN records ELSE presence[h]
    BY <1>3, <2>1 DEF LanAdvertise, TypeOK
  <2>3. mailbox' = PushEgress(mailbox, Members(presence'[g], egress[c]))
    BY <1>3, <2>1, <2>2 DEF LanAdvertise
  <2>4. UNCHANGED <<id, egress, told>> /\ rvGroup' = [rvGroup EXCEPT ![c] = g]
    BY <1>3 DEF LanAdvertise
  <2>5. \A b \in Conns : rvGroup'[b] = IF b = c THEN g ELSE rvGroup[b]
    BY <2>4 DEF TypeOK
  <2>6. \A r \in presence[g] : r.id = id[c] => r.egress = egress[c]
    BY <2>1, NoRecordWithout DEF PresenceIsLive
  <2>7. \A h \in Groups : \A e :
            h # g \/ e # egress[c] => Members(presence'[h], e) = Members(presence[h], e)
    <3>1. \A e : e # egress[c] => Members(records, e) = Members(presence[g], e)
      BY <2>6 DEF Members, Upsert
    <3> QED
      BY <2>2, <3>1
  <2>8. mailbox \in [Conns -> Seq(LanPeers)]
    BY DEF TypeOK
  <2>9. \A d \in Conns \ {c} :
            /\ mailbox[d] = mailbox[d] /\ told'[d] = told[d] /\ id'[d] = id[d]
            /\ rvGroup'[d] = rvGroup[d] /\ egress'[d] = egress[d]
    BY <2>4, <2>5
  <2>10. id'[c] = id[c] /\ rvGroup'[c] = g /\ egress'[c] = egress[c]
    BY <2>4, <2>5
  <2> HIDE DEF g, records
  <2> QED
    BY <2>1, <2>3, <2>7, <2>8, <2>9, <2>10, PushIsFresh
<1>4. ASSUME NEW c \in Conns, Tell(c)
      PROVE  SnapshotIsFresh'
  <2>1. \A d \in Conns : Latest(d)' = Latest(d)
    BY <1>4, TellKeepsLatest
  <2>2. UNCHANGED <<presence, rvGroup, id, egress>>
    BY <1>4 DEF Tell
  <2> QED
    BY <2>1, <2>2 DEF SnapshotIsFresh, Registered, Mine
<1>5. ASSUME NEW c \in Conns, Close(c)
      PROVE  SnapshotIsFresh'
  <2>1. \A b \in Conns \ {c} : /\ id'[b] = id[b] /\ egress'[b] = egress[b]
                               /\ rvGroup'[b] = rvGroup[b] /\ told'[b] = told[b]
    BY <1>5 DEF Close, TypeOK
  <2>2. rvGroup'[c] = None
    BY <1>5 DEF Close, TypeOK
  <2>3. CASE rvGroup[c] = None
    <3>1. UNCHANGED <<presence, mailbox>>
      BY <1>5, <2>3 DEF Close
    <3> QED
      BY <2>1, <2>2, <3>1 DEF SnapshotIsFresh, Registered, Latest, Mine
  <2>4. CASE rvGroup[c] # None
    <3> DEFINE g == rvGroup[c]
               records == {r \in presence[g] : r.id # id[c]}
               boxes == [mailbox EXCEPT ![c] = <<>>]
    <3>1. g \in Groups
      BY <2>4 DEF TypeOK
    <3>2. \A h \in Groups : presence'[h] = IF h = g THEN records ELSE presence[h]
      BY <1>5, <2>4, <3>1 DEF Close, Remove, TypeOK
    <3>3. mailbox' = PushEgress(boxes, Members(presence'[g], egress[c]))
      BY <1>5, <2>4, <3>1, <3>2 DEF Close, Remove
    <3>4. boxes \in [Conns -> Seq(LanPeers)] /\ \A d \in Conns \ {c} : boxes[d] = mailbox[d]
      BY DEF TypeOK
    <3>5. \A r \in presence[g] : r.id = id[c] => r.egress = egress[c]
      BY <3>1, NoRecordWithout DEF PresenceIsLive
    <3>6. \A h \in Groups : \A e :
              h # g \/ e # egress[c] => Members(presence'[h], e) = Members(presence[h], e)
      BY <3>2, <3>5 DEF Members
    <3>7. ~Registered(c)'
      BY <2>2 DEF Registered
    <3> HIDE DEF boxes
    <3> QED
      BY <2>1, <3>1, <3>3, <3>4, <3>6, <3>7, PushIsFresh
  <2> QED
    BY <2>3, <2>4
<1>6. CASE UNCHANGED vars
  BY <1>6 DEF vars, SnapshotIsFresh, Registered, Latest, Mine
<1> QED
  BY <1>1, <1>2, <1>3, <1>4, <1>5, <1>6 DEF Next

\* The invariant holds at the start and every step keeps it.
LEMMA Inductive ==
    /\ Init => IInv
    /\ IInv /\ [Next]_vars => IInv'
<1>1. Init => TypeOK
  BY RendezvousAssumption DEF Init, TypeOK, LanPeers
<1>2. Init => SocketInv /\ PresenceIsLive /\ RecordInv /\ SnapshotIsFresh
  BY DEF Init, SocketInv, Open, Registered, PresenceIsLive, RecordInv, SnapshotIsFresh
<1>3. IInv /\ [Next]_vars => IInv'
  BY TypeStep, SocketStep, RecordStep, FreshStep DEF IInv
<1> QED
  BY <1>1, <1>2, <1>3 DEF IInv

LEMMA IInvHolds == Spec => []IInv
BY Inductive, PTL DEF Spec

-----------------------------------------------------------------------------
(* What rendezvous promises *)

\* No presence record outlives its socket or lies where the close of the socket
\* will not find it.
THEOREM PresenceIsLiveHolds == Spec => []PresenceIsLive
<1>1. IInv => PresenceIsLive
  BY DEF IInv
<1> QED
  BY <1>1, IInvHolds, PTL

\* No registered socket is left with stale peers, in any order of joins,
\* refreshes, reconnects and departures.
THEOREM SnapshotIsFreshHolds == Spec => []SnapshotIsFresh
<1>1. IInv => SnapshotIsFresh
  BY DEF IInv
<1> QED
  BY <1>1, IInvHolds, PTL

\* What a snapshot says about a peer is true of a socket other than the
\* receiver's, and of one socket per device.
LEMMA SnapshotIsOurs == IInv => ToldPeersAreOurs
<1> SUFFICES ASSUME IInv, NEW c \in Conns, Registered(c), NEW p \in Latest(c)
             PROVE  /\ p.cands # {} /\ p.cands \subseteq Private
                    /\ \E b \in Conns \ {c} : /\ rvGroup[b] = rvGroup[c]
                                               /\ egress[b] = egress[c]
                                               /\ device[b] = p.device
                    /\ \A q \in Latest(c) : q.device = p.device => q = p
  BY DEF ToldPeersAreOurs
<1> DEFINE g == rvGroup[c]
           members == Members(presence[g], egress[c])
<1>1. g \in Groups
  BY DEF IInv, TypeOK, Registered
<1>2. PICK r \in presence[g] : r.slot = c
  BY DEF IInv, RecordInv
<1>3. r.id = id[c] /\ r.egress = egress[c]
  BY <1>1, <1>2 DEF IInv, PresenceIsLive
<1>4. Latest(c) = SnapshotFor(members, r)
  BY <1>2, <1>3 DEF IInv, SnapshotIsFresh, Mine, Members
<1> DEFINE others == {s \in members : s.id # r.id}
<1>5. ASSUME NEW q \in Latest(c)
      PROVE  \E s \in others : /\ Winner(others, s) /\ q.cands # {}
                               /\ q = [device |-> s.device, cands |-> CandidatesFor(r, s)]
  BY <1>4, <1>5 DEF SnapshotFor
<1>6. PICK s \in others : /\ Winner(others, s) /\ p.cands # {}
                          /\ p = [device |-> s.device, cands |-> CandidatesFor(r, s)]
  BY <1>5
<1>7. /\ s \in presence[g] /\ s.egress = egress[c] /\ s.id # id[c]
      /\ s.slot \in Conns /\ s.id \in Nat
  BY <1>1, <1>3, <1>6 DEF Members, IInv, TypeOK, RvConn
<1>8. p.cands # {} /\ p.cands \subseteq Private
  <2>1. s.cands \subseteq Private
    BY <1>1, <1>7 DEF IInv, RecordInv
  <2> QED
    BY <1>6, <2>1, CandidatesSubset
<1>9. /\ s.slot \in Conns \ {c} /\ rvGroup[s.slot] = g /\ egress[s.slot] = egress[c]
      /\ device[s.slot] = p.device
  BY <1>1, <1>6, <1>7 DEF IInv, PresenceIsLive, RecordInv
<1>10. ASSUME NEW q \in Latest(c), q.device = p.device
       PROVE  q = p
  <2>1. PICK u \in others : /\ Winner(others, u)
                            /\ q = [device |-> u.device, cands |-> CandidatesFor(r, u)]
    BY <1>5
  <2>2. u.id <= s.id /\ s.id <= u.id /\ u \in presence[g] /\ u.id \in Nat
    BY <1>1, <1>6, <1>10, <2>1 DEF Winner, Members, IInv, TypeOK, RvConn
  <2>3. u = s
    BY <1>1, <1>7, <2>2 DEF IInv, RecordInv
  <2> QED
    BY <1>6, <2>1, <2>3
<1> QED
  BY <1>8, <1>9, <1>10

\* A told peer advertised to the same group from the same source address, with
\* private candidates only, and is told once.
THEOREM ToldPeersAreOursHolds == Spec => []ToldPeersAreOurs
BY SnapshotIsOurs, IInvHolds, PTL
=============================================================================
