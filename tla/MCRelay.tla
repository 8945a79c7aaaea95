------------------------------ MODULE MCRelay ------------------------------
(* Instances of Relay for TLC. *)
EXTENDS Relay, TLC

Symmetry == Permutations(Conns) \cup Permutations(Devices)
=============================================================================
