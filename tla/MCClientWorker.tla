--------------------------- MODULE MCClientWorker ---------------------------
(* Instances of ClientWorker for TLC. *)
EXTENDS ClientWorker
=============================================================================
