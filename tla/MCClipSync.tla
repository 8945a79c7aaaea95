----------------------------- MODULE MCClipSync -----------------------------
(* Instances of ClipSync for TLC. *)
EXTENDS ClipSync, TLC

AllOnLan == [d \in Devices |-> Devices \ {d}]
NoLan == [d \in Devices |-> {}]

\* The devices run the same program and are told apart by nothing else.
Symmetry == Permutations(Devices)
=============================================================================
