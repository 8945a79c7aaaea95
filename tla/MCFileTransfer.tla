--------------------------- MODULE MCFileTransfer ---------------------------
(* Instances of FileTransfer for TLC. *)
EXTENDS FileTransfer

CONSTANTS t1, t2, n1

MCNameOf == [t \in Transfers |-> n1]
XX == <<"x", "x">>
Edited == {XX, <<"y", "y">>, <<"x">>}
=============================================================================
