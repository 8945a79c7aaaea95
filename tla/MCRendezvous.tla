---------------------------- MODULE MCRendezvous ----------------------------
(* Instances of Rendezvous for TLC: two private addresses on one subnet, one *)
(* on another, and one public address the relay must not pass on.            *)
EXTENDS Rendezvous, TLC

MCAddrs == {"10.0.0.1", "10.0.0.2", "10.9.0.1", "8.8.8.8"}
MCPrivate == MCAddrs \ {"8.8.8.8"}
MCSubnet(a) == IF a \in {"10.0.0.1", "10.0.0.2"} THEN "10.0.0" ELSE a
MCSameSubnet(a, b) == MCSubnet(a) = MCSubnet(b)

\* A client with prefixes on one subnet, a multi-homed one, and an old client
\* without prefix metadata that also lists a public address.
MCAdverts ==
    {[cands |-> {"10.0.0.1"}, nets |-> {"10.0.0.1"}],
     [cands |-> {"10.0.0.2", "10.9.0.1"}, nets |-> {"10.0.0.2", "10.9.0.1"}],
     [cands |-> {"10.9.0.1", "8.8.8.8"}, nets |-> {}]}

Symmetry == Permutations(Conns) \cup Permutations(Devices) \cup Permutations(Egresses)
=============================================================================
