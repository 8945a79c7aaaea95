----------------------------- MODULE MCLanNode -----------------------------
(* Instances of LanNode for TLC: one peer that this device dials, known by  *)
(* mDNS and by the relay, and a pool of two session tasks.                  *)
EXTENDS LanNode
=============================================================================
