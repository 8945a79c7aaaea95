------------------------------- MODULE Outbox -------------------------------
(***************************************************************************)
(* What the client worker of core/src/client.rs promises about the host's  *)
(* commands, and nothing about how: a first-in first-out queue whose head  *)
(* is applied at most once, may be lost to an I/O error, and which is      *)
(* discarded when the worker ends.  ClientWorker implements it.            *)
(***************************************************************************)
EXTENDS Sequences

CONSTANT Cmds       \* the commands a host may queue

VARIABLES
    queue,          \* accepted and not yet taken by the worker
    done,           \* applied to a relay session, in order
    closed          \* the worker has ended

vars == <<queue, done, closed>>

Init ==
    /\ queue = <<>>
    /\ done = <<>>
    /\ closed = FALSE

Enqueue(c) ==
    /\ ~closed
    /\ queue' = Append(queue, c)
    /\ UNCHANGED <<done, closed>>

Apply ==
    /\ queue # <<>>
    /\ queue' = Tail(queue)
    /\ done' = Append(done, Head(queue))
    /\ UNCHANGED closed

Lose ==
    /\ queue # <<>>
    /\ queue' = Tail(queue)
    /\ UNCHANGED <<done, closed>>

Close ==
    /\ ~closed
    /\ closed' = TRUE
    /\ queue' = <<>>
    /\ UNCHANGED done

Next == (\E c \in Cmds : Enqueue(c)) \/ Apply \/ Lose \/ Close

Spec == Init /\ [][Next]_vars
=============================================================================
