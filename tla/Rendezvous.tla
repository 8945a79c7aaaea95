----------------------------- MODULE Rendezvous -----------------------------
(***************************************************************************)
(* Relay-assisted LAN rendezvous: the presence map of relay/src/hub.rs      *)
(* (rendezvous_upsert, rendezvous_remove, push_egress) and the LanAdvertise *)
(* half of the socket task handle_socket in relay/src/ws.rs.                *)
(*                                                                         *)
(* A candidate is an address of the set Addrs; SameSubnet stands for        *)
(* mutual_subnet.  The clip half of the task is module Relay.               *)
(***************************************************************************)
EXTENDS Integers, Sequences

CONSTANTS
    Conns,              \* WebSocket slots; a slot is reused after it closes
    Devices,            \* device ids; two connections may share one
    Groups,             \* group ids
    Egresses,           \* source IPs as the relay sees them
    Addrs,              \* advertised candidate addresses
    Adverts,            \* the LanAdvertise contents clients send
    Private,            \* those the relay accepts (is_relay_lan_candidate_ip)
    SameSubnet(_, _),   \* mutual_subnet of two candidates
    None,               \* Option::None
    MaxConns,           \* bound: connections ever accepted
    MaxAdvs             \* bound: LanAdvertise frames accepted

ASSUME RendezvousAssumption ==
    /\ Private \subseteq Addrs
    /\ Adverts \subseteq [cands : SUBSET Addrs, nets : SUBSET Addrs]
    /\ None \notin Groups
    /\ MaxConns \in Nat
    /\ MaxAdvs \in Nat

VARIABLES
    connSeq,    \* conn_seq: the next connection id
    advs,       \* LanAdvertise frames accepted so far
    presence,   \* presence[g]: the RvConn records of group g
    id,         \* id[c]: the id of the connection in slot c, 0 if there is none
    egress,     \* egress[c]: its source IP
    device,     \* device[c]: the device it joined as, or None
    group,      \* group[c]: the group it joined, or None
    rvGroup,    \* rvGroup[c]: the group it advertised to, or None
    mailbox,    \* mailbox[c]: snapshots queued for it
    told        \* told[c]: the peers of the last LanPeers written to it

sockVars == <<id, egress, device, group>>
vars == <<connSeq, advs, presence, sockVars, rvGroup, mailbox, told>>

RvConn == [slot : Conns, id : Nat, egress : Egresses, device : Devices,
           cands : SUBSET Addrs, nets : SUBSET Addrs]
LanPeers == SUBSET [device : Devices, cands : SUBSET Addrs]

TypeOK ==
    /\ connSeq \in 1..MaxConns + 1
    /\ advs \in 0..MaxAdvs
    /\ presence \in [Groups -> SUBSET RvConn]
    /\ id \in [Conns -> 0..MaxConns]
    /\ egress \in [Conns -> Egresses \cup {None}]
    /\ device \in [Conns -> Devices \cup {None}]
    /\ group \in [Conns -> Groups \cup {None}]
    /\ rvGroup \in [Conns -> Groups \cup {None}]
    /\ mailbox \in [Conns -> Seq(LanPeers)]
    /\ told \in [Conns -> LanPeers]

Init ==
    /\ connSeq = 1
    /\ advs = 0
    /\ presence = [g \in Groups |-> {}]
    /\ id = [c \in Conns |-> 0]
    /\ egress = [c \in Conns |-> None]
    /\ device = [c \in Conns |-> None]
    /\ group = [c \in Conns |-> None]
    /\ rvGroup = [c \in Conns |-> None]
    /\ mailbox = [c \in Conns |-> <<>>]
    /\ told = [c \in Conns |-> {}]

Open(c) == id[c] # 0

-----------------------------------------------------------------------------
(* push_egress *)

\* candidates_for_receiver: with prefix metadata on both sides only candidates
\* on a shared subnet, else whatever the peer advertised.
CandidatesFor(receiver, peer) ==
    IF receiver.nets = {} \/ peer.nets = {}
    THEN peer.cands
    ELSE {a \in peer.nets \cap peer.cands :
             \E b \in receiver.nets : SameSubnet(a, b)}

\* Among connections with one device id the highest connection id is told.
Winner(others, p) == \A q \in others : q.device = p.device => q.id <= p.id

\* The peers told to the receiver, out of the records of one egress IP.
SnapshotFor(members, receiver) ==
    LET others == {p \in members : p.id # receiver.id}
        peers == {[device |-> p.device, cands |-> CandidatesFor(receiver, p)] :
                     p \in {q \in others : Winner(others, q)}}
    IN  {peer \in peers : peer.cands # {}}

Members(records, e) == {p \in records : p.egress = e}

\* The records of slot c that still have a task behind them.
Mine(members, c) == {r \in members : r.slot = c /\ r.id = id[c]}

\* The mailboxes after each live member got its own snapshot.
PushEgress(boxes, members) ==
    [c \in Conns |->
        IF Mine(members, c) = {} THEN boxes[c]
        ELSE Append(boxes[c],
                    SnapshotFor(members, CHOOSE r \in Mine(members, c) : TRUE))]

-----------------------------------------------------------------------------
(* The socket task *)

Accept(c, e) ==
    /\ ~Open(c)
    /\ connSeq <= MaxConns
    /\ connSeq' = connSeq + 1
    /\ id' = [id EXCEPT ![c] = connSeq]
    /\ egress' = [egress EXCEPT ![c] = e]
    /\ UNCHANGED <<advs, presence, device, group, rvGroup, mailbox, told>>

\* The clients send Join first and once.  The relay would take a second one;
\* module Relay has it.
Join(c, g, d) ==
    /\ Open(c)
    /\ group[c] = None
    /\ group' = [group EXCEPT ![c] = g]
    /\ device' = [device EXCEPT ![c] = d]
    /\ UNCHANGED <<connSeq, advs, presence, id, egress, rvGroup, mailbox, told>>

\* Mutant of Sanitize: candidates are passed on as they come.
SanitizeNothing(adv) == adv

\* sanitize_lan_advertise: private candidates, and prefixes only for those.
Sanitize(adv) ==
    LET accepted == adv.cands \cap Private
    IN  [cands |-> accepted, nets |-> adv.nets \cap accepted]

\* rendezvous_upsert replaces the record this connection has in the group.
Upsert(c, adv) ==
    {r \in presence[group[c]] : r.id # id[c]} \cup
        {[slot |-> c, id |-> id[c], egress |-> egress[c], device |-> device[c],
          cands |-> adv.cands, nets |-> adv.nets]}

\* LanAdvertise for the joined group and device; any other is refused with an
\* Error and changes nothing.
LanAdvertise(c, adv) ==
    /\ Open(c)
    /\ group[c] # None
    /\ advs < MaxAdvs
    /\ advs' = advs + 1
    /\ rvGroup' = [rvGroup EXCEPT ![c] = group[c]]
    /\ LET records == Upsert(c, Sanitize(adv))
       IN  /\ presence' = [presence EXCEPT ![group[c]] = records]
           /\ mailbox' = PushEgress(mailbox, Members(records, egress[c]))
    /\ UNCHANGED <<connSeq, sockVars, told>>

\* A queued snapshot is written out as LanPeers.
Tell(c) ==
    /\ Open(c)
    /\ mailbox[c] # <<>>
    /\ told' = [told EXCEPT ![c] = Head(mailbox[c])]
    /\ mailbox' = [mailbox EXCEPT ![c] = Tail(@)]
    /\ UNCHANGED <<connSeq, advs, presence, sockVars, rvGroup>>

\* Mutant of Remove: those that stay are not told.
RemoveSilently(c, g) ==
    /\ presence' = [presence EXCEPT ![g] = {r \in @ : r.id # id[c]}]
    /\ mailbox' = [mailbox EXCEPT ![c] = <<>>]

\* rendezvous_remove and its push to those that stay.
Remove(c, g) ==
    LET records == {r \in presence[g] : r.id # id[c]}
    IN  /\ presence' = [presence EXCEPT ![g] = records]
        /\ mailbox' = PushEgress([mailbox EXCEPT ![c] = <<>>],
                                 Members(records, egress[c]))

\* Mutant of Close: the task ends without rendezvous_remove.
CloseKeepsSlot(c) ==
    /\ Open(c)
    /\ id' = [id EXCEPT ![c] = 0]
    /\ egress' = [egress EXCEPT ![c] = None]
    /\ device' = [device EXCEPT ![c] = None]
    /\ group' = [group EXCEPT ![c] = None]
    /\ rvGroup' = [rvGroup EXCEPT ![c] = None]
    /\ mailbox' = [mailbox EXCEPT ![c] = <<>>]
    /\ told' = [told EXCEPT ![c] = {}]
    /\ UNCHANGED <<connSeq, advs, presence>>

\* The socket closes: the slot is given up, then the task's locals go.
Close(c) ==
    /\ Open(c)
    /\ IF rvGroup[c] # None
       THEN Remove(c, rvGroup[c])
       ELSE UNCHANGED <<presence, mailbox>>
    /\ id' = [id EXCEPT ![c] = 0]
    /\ egress' = [egress EXCEPT ![c] = None]
    /\ device' = [device EXCEPT ![c] = None]
    /\ group' = [group EXCEPT ![c] = None]
    /\ rvGroup' = [rvGroup EXCEPT ![c] = None]
    /\ told' = [told EXCEPT ![c] = {}]
    /\ UNCHANGED <<connSeq, advs>>

Next ==
    \E c \in Conns :
        \/ \E e \in Egresses : Accept(c, e)
        \/ \E g \in Groups, d \in Devices : Join(c, g, d)
        \/ \E adv \in Adverts : LanAdvertise(c, adv)
        \/ Tell(c)
        \/ Close(c)

Spec == Init /\ [][Next]_vars

-----------------------------------------------------------------------------
(* What rendezvous promises *)

\* For clients that join once, every presence record belongs to an open socket
\* and is the one its close will remove: same connection id, group and egress.
PresenceIsLive ==
    \A g \in Groups : \A r \in presence[g] :
        /\ id[r.slot] = r.id
        /\ rvGroup[r.slot] = g
        /\ egress[r.slot] = r.egress

\* Socket c has a record, hence is kept up to date.
Registered(c) == rvGroup[c] # None

Latest(c) == IF mailbox[c] = <<>> THEN told[c] ELSE mailbox[c][Len(mailbox[c])]

\* No registered socket is left with stale peers: the last snapshot queued for
\* it, or written if none is queued, is what the presence map says now, after
\* any order of joins, refreshes, reconnects and departures of the others.
SnapshotIsFresh ==
    \A c \in Conns : Registered(c) =>
        LET members == Members(presence[rvGroup[c]], egress[c])
        IN  \A r \in Mine(members, c) : Latest(c) = SnapshotFor(members, r)

\* A told peer is a device that advertised to the same group from the same
\* egress IP, with private candidates only, and one entry per device.
ToldPeersAreOurs ==
    \A c \in Conns : Registered(c) =>
        \A p \in Latest(c) :
            /\ p.cands # {} /\ p.cands \subseteq Private
            /\ \E b \in Conns \ {c} : /\ rvGroup[b] = rvGroup[c]
                                       /\ egress[b] = egress[c]
                                       /\ device[b] = p.device
            /\ \A q \in Latest(c) : q.device = p.device => q = p
=============================================================================
