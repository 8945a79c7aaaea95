---------------------------- MODULE MCHostBridge ----------------------------
(* An instance of HostBridge for TLC. *)
EXTENDS HostBridge

CONSTANTS x, y, i, j, f1
=============================================================================
