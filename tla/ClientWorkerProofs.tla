------------------------- MODULE ClientWorkerProofs -------------------------
(***************************************************************************)
(* Proofs about the relay worker: its type, what it reports, the scope of  *)
(* a session, and that it implements the first-in first-out Outbox, for    *)
(* any number of clips and calls of the host and any backoff cap.          *)
(***************************************************************************)
EXTENDS ClientWorker, TLAPS

-----------------------------------------------------------------------------
(* Type correctness *)

\* The commands of the host are commands.
LEMMA CmdType ==
    /\ FetchRecent \in Cmds /\ RefreshLan \in Cmds /\ Stop \in Cmds
    /\ \A n \in Clips : SendClip(n) \in Cmds
BY DEF Cmds, FetchRecent, RefreshLan, Stop, SendClip

\* Queues stay queues of commands when the head is taken or one is added.
LEMMA QueueType ==
    ASSUME NEW q \in Seq(Cmds)
    PROVE  /\ \A cmd \in Cmds : Append(q, cmd) \in Seq(Cmds)
           /\ q # <<>> => Head(q) \in Cmds /\ Tail(q) \in Seq(Cmds)
           /\ <<>> \in Seq(Cmds)
OBVIOUS

\* The delay after a reset and after a doubling stays within the cap.
LEMMA BackoffType ==
    /\ 1 \in 1..BackoffCap
    /\ \A b \in 1..BackoffCap : Min(2 * b, BackoffCap) \in 1..BackoffCap
BY WorkerAssumption DEF Min

\* Every step of the worker, the network and the host keeps the types.
LEMMA TypeStep ==
    ASSUME TypeOK, [Next]_vars
    PROVE  TypeOK'
<1> USE DEF TypeOK, Suspended, InSession, InBackoff, Ended
<1>1. CASE Gate
  <2>1. /\ pc' \in {"susp_check", "dial"} /\ reported' \in {"Disconnected", "Connecting"}
        /\ UNCHANGED <<backoff, link, probe, pending, done, wokenMode, wokenWake, cmds, hostVars>>
    BY <1>1 DEF Gate
  <2> QED
    BY <2>1 DEF hostVars
<1>2. CASE SuspendCheck
  <2>1. 1 \in 1..BackoffCap
    BY BackoffType
  <2> QED
    BY <1>2, <2>1 DEF SuspendCheck, Resume, hostVars
<1>3. CASE SuspendArm
  BY <1>3 DEF SuspendArm, hostVars
<1>4. CASE SuspendCmd
  BY <1>4, QueueType DEF SuspendCmd, Unpark, hostVars
<1>5. CASE SuspendStop
  BY <1>5, QueueType DEF SuspendStop, Return, Unpark, hostVars
<1>6. CASE SuspendNotified
  BY <1>6, BackoffType DEF SuspendNotified, Unpark, Resume, hostVars
<1>7. CASE DialOk
  BY <1>7 DEF DialOk, hostVars
<1>8. CASE DialFailed
  BY <1>8 DEF DialFailed, SessionError, hostVars
<1>9. CASE Flush
  <2>1. Head(pending) \in Cmds /\ Tail(pending) \in Seq(Cmds)
    BY <1>9, QueueType DEF Flush
  <2>2. Append(done, Head(pending)) \in Seq(Cmds)
    BY <2>1, QueueType
  <2>3. CASE SendOk(Head(pending), "flush")
    BY <1>9, <2>1, <2>2, <2>3 DEF Flush, SendOk, hostVars
  <2>4. CASE SendFails
    BY <1>9, <2>1, <2>4 DEF Flush, SendFails, SessionError, hostVars
  <2> QED
    BY <1>9, <2>3, <2>4 DEF Flush
<1>10. CASE FlushDone
  BY <1>10 DEF FlushDone, hostVars
<1>11. CASE SessionCheck
  BY ZenonT(60), <1>11 DEF SessionCheck, SessionReconnect, hostVars
<1>12. CASE SessionArm
  BY <1>12 DEF SessionArm, hostVars
<1>13. CASE SessionDeadline
  BY <1>13 DEF SessionDeadline, Unpark, SessionReconnect, hostVars
<1>14. CASE SessionPing
  BY ZenonT(60), <1>14 DEF SessionPing, Unpark, SessionError, hostVars
<1>15. CASE SessionModeNotified
  BY <1>15 DEF SessionModeNotified, Unpark, SessionReconnect, hostVars
<1>16. CASE SessionWakeNotified
  BY <1>16 DEF SessionWakeNotified, Unpark, SessionError
<1>17. CASE SessionCmd
  BY ZenonT(60), <1>17, QueueType DEF SessionCmd, SendOk, SendFails, CmdReady, hostVars, SessionError
<1>18. CASE SessionStop
  BY <1>18, QueueType DEF SessionStop, Return, CmdReady, hostVars
<1>19. CASE SessionFrame
  BY <1>19 DEF SessionFrame, FrameReady, hostVars
<1>20. CASE SessionClosed
  BY <1>20 DEF SessionClosed, SessionError, SessionReconnect, FrameReady, hostVars
<1>21. CASE SessionEnded
  <2>1. backoff' \in 1..BackoffCap
    BY <1>21, BackoffType DEF SessionEnded
  <2>2. pc' \in {"top", "back_check"}
    BY <1>21 DEF SessionEnded
  <2> QED
    BY <1>21, <2>1, <2>2 DEF SessionEnded, hostVars
<1>22. CASE BackoffCheck
  <2>1. backoff' \in 1..BackoffCap
    BY <1>22, BackoffType DEF BackoffCheck
  <2>2. pc' \in {"top", "back_arm"}
    BY <1>22 DEF BackoffCheck
  <2>3. /\ requested' \in BOOLEAN
        /\ UNCHANGED <<link, probe, reported, pending, done, wokenMode, wokenWake,
                       cmds, idle, clips, calls, host>>
    BY <1>22 DEF BackoffCheck
  <2> QED
    BY <2>1, <2>2, <2>3
<1>23. CASE BackoffArm
  BY <1>23 DEF BackoffArm, hostVars
<1>24. CASE BackoffNotified
  BY <1>24 DEF BackoffNotified, Unpark, hostVars
<1>25. CASE BackoffElapsed
  <2>1. backoff' \in 1..BackoffCap
    BY <1>25, BackoffType DEF BackoffElapsed
  <2> QED
    BY <1>25, <2>1 DEF BackoffElapsed, Unpark, hostVars
<1>26. CASE Panic
  BY <1>26, QueueType DEF Panic, Return, Unpark, hostVars
<1>27. CASE LinkDies
  BY <1>27 DEF LinkDies, hostVars
<1>28. CASE HostSendClip
  BY <1>28, QueueType, CmdType, WorkerAssumption DEF HostSendClip, Enqueue, workerVars, Clips
<1>29. CASE HostQueue
  BY <1>29, QueueType, CmdType, WorkerAssumption DEF HostQueue, Enqueue, Call, workerVars
<1>30. CASE HostSetIdle
  BY <1>30, WorkerAssumption DEF HostSetIdle, Call, workerVars
<1>31. CASE HostNotifyMode
  BY <1>31 DEF HostNotifyMode, workerVars
<1>32. CASE HostFetch
  BY <1>32, QueueType, CmdType, WorkerAssumption DEF HostFetch, Enqueue, workerVars
<1>33. CASE HostReconnectNow
  BY <1>33, WorkerAssumption DEF HostReconnectNow, Call, workerVars
<1>34. CASE HostNotifyWake
  BY <1>34 DEF HostNotifyWake, workerVars
<1>35. CASE HostStop
  BY <1>35, QueueType, CmdType, WorkerAssumption DEF HostStop, Enqueue, Call, workerVars
<1>36. CASE HostJoined
  BY <1>36 DEF HostJoined, workerVars
<1>37. CASE UNCHANGED vars
  BY <1>37 DEF vars, workerVars, hostVars
<1> QED
  BY <1>1, <1>2, <1>3, <1>4, <1>5, <1>6, <1>7, <1>8, <1>9, <1>10,
     <1>11, <1>12, <1>13, <1>14, <1>15, <1>16, <1>17, <1>18, <1>19, <1>20,
     <1>21, <1>22, <1>23, <1>24, <1>25, <1>26, <1>27, <1>28, <1>29, <1>30,
     <1>31, <1>32, <1>33, <1>34, <1>35, <1>36, <1>37
     DEF Next, Worker, Suspend, Dial, Session, Backoff, Host

\* Every state of the worker is well typed; the backoff never leaves its range.
THEOREM TypeCorrect == Spec => []TypeOK
<1>1. Init => TypeOK
  <2>1. <<>> \in Seq(Cmds) /\ 1 \in 1..BackoffCap /\ 0 \in 0..MaxClips /\ 0 \in 0..MaxCalls
    BY BackoffType, WorkerAssumption
  <2> QED
    BY <2>1 DEF Init, TypeOK
<1> QED
  BY <1>1, TypeStep, PTL DEF Spec

-----------------------------------------------------------------------------
(* What the worker reports, and the scope of a session *)

\* Every step keeps the reported state honest: each pc change of `run`, the
\* suspend wait and the session comes with the on_state it needs.
LEMMA HonestStep ==
    ASSUME TypeOK, HonestState, [Next]_vars
    PROVE  HonestState'
<1> USE DEF HonestState, Suspended, InSession, InBackoff, Ended
<1>1. CASE Gate
  BY <1>1 DEF Gate, hostVars
<1>2. CASE SuspendCheck
  BY <1>2 DEF SuspendCheck, Resume, hostVars
<1>3. CASE SuspendArm
  BY <1>3 DEF SuspendArm, hostVars
<1>4. CASE SuspendCmd
  BY <1>4 DEF SuspendCmd, hostVars
<1>5. CASE SuspendStop
  BY <1>5 DEF SuspendStop, Return, hostVars
<1>6. CASE SuspendNotified
  BY <1>6 DEF SuspendNotified, Resume, hostVars
<1>7. CASE DialOk
  BY <1>7 DEF DialOk, hostVars
<1>8. CASE DialFailed
  BY <1>8 DEF DialFailed, SessionError, hostVars
<1>9. CASE Flush
  BY <1>9 DEF Flush, SendOk, SendFails, hostVars, SessionError
<1>10. CASE FlushDone
  BY <1>10 DEF FlushDone, hostVars
<1>11. CASE SessionCheck
  BY <1>11 DEF SessionCheck, SessionReconnect, hostVars
<1>12. CASE SessionArm
  BY <1>12 DEF SessionArm, hostVars
<1>13. CASE SessionDeadline
  BY <1>13 DEF SessionDeadline, SessionReconnect, hostVars
<1>14. CASE SessionPing
  BY <1>14 DEF SessionPing, SessionError, hostVars
<1>15. CASE SessionModeNotified
  BY <1>15 DEF SessionModeNotified, SessionReconnect, hostVars
<1>16. CASE SessionWakeNotified
  BY <1>16 DEF SessionWakeNotified, SessionError
<1>17. CASE SessionCmd
  BY <1>17 DEF SessionCmd, SendOk, SendFails, CmdReady, hostVars, SessionError
<1>18. CASE SessionStop
  BY <1>18 DEF SessionStop, Return, CmdReady, hostVars
<1>19. CASE SessionFrame
  BY <1>19 DEF SessionFrame, FrameReady, hostVars
<1>20. CASE SessionClosed
  BY <1>20 DEF SessionClosed, SessionError, SessionReconnect, FrameReady, hostVars
<1>21. CASE SessionEnded
  BY <1>21 DEF SessionEnded, hostVars
<1>22. CASE BackoffCheck
  BY <1>22 DEF BackoffCheck
<1>23. CASE BackoffArm
  BY <1>23 DEF BackoffArm, hostVars
<1>24. CASE BackoffNotified
  BY <1>24 DEF BackoffNotified, hostVars
<1>25. CASE BackoffElapsed
  BY <1>25 DEF BackoffElapsed, hostVars
<1>26. CASE Panic
  BY <1>26 DEF Panic, Return, hostVars
<1>27. CASE LinkDies
  BY <1>27 DEF LinkDies, hostVars
<1>28. CASE HostSendClip
  BY <1>28 DEF HostSendClip, workerVars
<1>29. CASE HostQueue
  BY <1>29 DEF HostQueue, workerVars
<1>30. CASE HostSetIdle
  BY <1>30 DEF HostSetIdle, workerVars
<1>31. CASE HostNotifyMode
  BY <1>31 DEF HostNotifyMode, workerVars
<1>32. CASE HostFetch
  BY <1>32 DEF HostFetch, workerVars
<1>33. CASE HostReconnectNow
  BY <1>33 DEF HostReconnectNow, workerVars
<1>34. CASE HostNotifyWake
  BY <1>34 DEF HostNotifyWake, workerVars
<1>35. CASE HostStop
  BY <1>35 DEF HostStop, workerVars
<1>36. CASE HostJoined
  BY <1>36 DEF HostJoined, workerVars
<1>37. CASE UNCHANGED vars
  BY <1>37 DEF vars, workerVars
<1> QED
  BY <1>1, <1>2, <1>3, <1>4, <1>5, <1>6, <1>7, <1>8, <1>9, <1>10,
     <1>11, <1>12, <1>13, <1>14, <1>15, <1>16, <1>17, <1>18, <1>19, <1>20,
     <1>21, <1>22, <1>23, <1>24, <1>25, <1>26, <1>27, <1>28, <1>29, <1>30,
     <1>31, <1>32, <1>33, <1>34, <1>35, <1>36, <1>37
     DEF Next, Worker, Suspend, Dial, Session, Backoff, Host

\* Every step keeps link, probe and pending_cmds inside their session.
LEMMA ScopeStep ==
    ASSUME TypeOK, SessionScope, [Next]_vars
    PROVE  SessionScope'
<1> USE DEF SessionScope, InSession, InBackoff, Ended
<1>1. CASE Gate
  BY <1>1 DEF Gate, hostVars
<1>2. CASE SuspendCheck
  BY <1>2 DEF SuspendCheck, Resume, hostVars
<1>3. CASE SuspendArm
  BY <1>3 DEF SuspendArm, hostVars
<1>4. CASE SuspendCmd
  BY <1>4 DEF SuspendCmd, hostVars
<1>5. CASE SuspendStop
  BY <1>5 DEF SuspendStop, Return, hostVars
<1>6. CASE SuspendNotified
  BY <1>6 DEF SuspendNotified, Resume, hostVars
<1>7. CASE DialOk
  BY <1>7 DEF DialOk, hostVars
<1>8. CASE DialFailed
  BY <1>8 DEF DialFailed, SessionError, hostVars
<1>9. CASE Flush
  BY <1>9 DEF Flush, SendOk, SendFails, hostVars, SessionError
<1>10. CASE FlushDone
  BY <1>10 DEF FlushDone, hostVars
<1>11. CASE SessionCheck
  BY <1>11 DEF SessionCheck, SessionReconnect, hostVars
<1>12. CASE SessionArm
  BY <1>12 DEF SessionArm, hostVars
<1>13. CASE SessionDeadline
  BY <1>13 DEF SessionDeadline, SessionReconnect, hostVars
<1>14. CASE SessionPing
  BY <1>14 DEF SessionPing, SessionError, hostVars
<1>15. CASE SessionModeNotified
  BY <1>15 DEF SessionModeNotified, SessionReconnect, hostVars
<1>16. CASE SessionWakeNotified
  BY <1>16 DEF SessionWakeNotified, SessionError
<1>17. CASE SessionCmd
  BY <1>17 DEF SessionCmd, SendOk, SendFails, CmdReady, hostVars, SessionError
<1>18. CASE SessionStop
  BY <1>18 DEF SessionStop, Return, CmdReady, hostVars
<1>19. CASE SessionFrame
  BY <1>19 DEF SessionFrame, FrameReady, hostVars
<1>20. CASE SessionClosed
  BY <1>20 DEF SessionClosed, SessionError, SessionReconnect, FrameReady, hostVars
<1>21. CASE SessionEnded
  BY <1>21 DEF SessionEnded, hostVars
<1>22. CASE BackoffCheck
  BY <1>22 DEF BackoffCheck
<1>23. CASE BackoffArm
  BY <1>23 DEF BackoffArm, hostVars
<1>24. CASE BackoffNotified
  BY <1>24 DEF BackoffNotified, hostVars
<1>25. CASE BackoffElapsed
  BY <1>25 DEF BackoffElapsed, hostVars
<1>26. CASE Panic
  BY <1>26 DEF Panic, Return, hostVars
<1>27. CASE LinkDies
  BY <1>27 DEF LinkDies, hostVars
<1>28. CASE HostSendClip
  BY <1>28 DEF HostSendClip, workerVars
<1>29. CASE HostQueue
  BY <1>29 DEF HostQueue, workerVars
<1>30. CASE HostSetIdle
  BY <1>30 DEF HostSetIdle, workerVars
<1>31. CASE HostNotifyMode
  BY <1>31 DEF HostNotifyMode, workerVars
<1>32. CASE HostFetch
  BY <1>32 DEF HostFetch, workerVars
<1>33. CASE HostReconnectNow
  BY <1>33 DEF HostReconnectNow, workerVars
<1>34. CASE HostNotifyWake
  BY <1>34 DEF HostNotifyWake, workerVars
<1>35. CASE HostStop
  BY <1>35 DEF HostStop, workerVars
<1>36. CASE HostJoined
  BY <1>36 DEF HostJoined, workerVars
<1>37. CASE UNCHANGED vars
  BY <1>37 DEF vars, workerVars
<1> QED
  BY <1>1, <1>2, <1>3, <1>4, <1>5, <1>6, <1>7, <1>8, <1>9, <1>10,
     <1>11, <1>12, <1>13, <1>14, <1>15, <1>16, <1>17, <1>18, <1>19, <1>20,
     <1>21, <1>22, <1>23, <1>24, <1>25, <1>26, <1>27, <1>28, <1>29, <1>30,
     <1>31, <1>32, <1>33, <1>34, <1>35, <1>36, <1>37
     DEF Next, Worker, Suspend, Dial, Session, Backoff, Host

\* on_state never leaves the host believing in a session that is not there.
THEOREM HonestStateHolds == Spec => []HonestState
<1>1. Init => HonestState
  BY DEF Init, HonestState, Suspended, InSession
<1> QED
  BY <1>1, TypeCorrect, HonestStep, PTL DEF Spec

\* Nothing of a session outlives it, and its select loop starts only when the
\* commands held back during hard suspend are gone.
THEOREM SessionScopeHolds == Spec => []SessionScope
<1>1. Init => SessionScope
  BY DEF Init, SessionScope, InSession
<1> QED
  BY <1>1, TypeCorrect, ScopeStep, PTL DEF Spec

-----------------------------------------------------------------------------
(* The worker implements Outbox *)

\* What happens to pending \o cmds when either queue moves.
LEMMA ConcatFacts ==
    ASSUME NEW p \in Seq(Cmds), NEW q \in Seq(Cmds)
    PROVE  /\ p \o q \in Seq(Cmds)
           /\ <<>> \o q = q
           /\ \A cmd \in Cmds : p \o Append(q, cmd) = Append(p \o q, cmd)
           /\ q # <<>> => Append(p, Head(q)) \o Tail(q) = p \o q
           /\ p # <<>> => /\ p \o q # <<>>
                          /\ Head(p \o q) = Head(p)
                          /\ Tail(p \o q) = Tail(p) \o q
<1>1. p \o q \in Seq(Cmds)
  OBVIOUS
<1>2. <<>> \o q = q
  OBVIOUS
<1>3. \A cmd \in Cmds : p \o Append(q, cmd) = Append(p \o q, cmd)
  OBVIOUS
<1>4. ASSUME q # <<>>
      PROVE  Append(p, Head(q)) \o Tail(q) = p \o q
  BY <1>4
<1>5. ASSUME p # <<>>
      PROVE  /\ p \o q # <<>>
             /\ Head(p \o q) = Head(p)
             /\ Tail(p \o q) = Tail(p) \o q
  BY <1>5
<1> QED
  BY <1>1, <1>2, <1>3, <1>4, <1>5

\* A step of the worker or of the host is a step of Outbox or changes nothing
\* that Outbox sees.
LEMMA OutboxStep ==
    ASSUME TypeOK, SessionScope, [Next]_vars
    PROVE  [OutboxView!Next]_(OutboxView!vars)
<1> DEFINE queue == pending \o cmds
<1>1. pending \in Seq(Cmds) /\ cmds \in Seq(Cmds)
  BY DEF TypeOK
\* What the steps of Outbox ask for, in terms of the worker.
<1>2. ASSUME UNCHANGED <<done, pc \in Ended>>, queue' = queue
      PROVE  [OutboxView!Next]_(OutboxView!vars)
  BY <1>2 DEF OutboxView!vars
<1>3. ASSUME queue # <<>>, queue' = Tail(queue), UNCHANGED (pc \in Ended),
             done' = Append(done, Head(queue)) \/ done' = done
      PROVE  [OutboxView!Next]_(OutboxView!vars)
  BY <1>3 DEF OutboxView!Next, OutboxView!Apply, OutboxView!Lose
<1>4. ASSUME NEW cmd \in Cmds, pc \notin Ended, UNCHANGED <<pc, done>>,
             queue' = Append(queue, cmd)
      PROVE  [OutboxView!Next]_(OutboxView!vars)
  BY <1>4 DEF OutboxView!Next, OutboxView!Enqueue
<1>5. ASSUME pc \notin Ended, pc' \in Ended, UNCHANGED done, queue' = <<>>
      PROVE  [OutboxView!Next]_(OutboxView!vars)
  BY <1>5 DEF OutboxView!Next, OutboxView!Close
<1>6. CASE SuspendCmd
  <2>1. queue' = queue
    BY <1>1, <1>6, ConcatFacts DEF SuspendCmd
  <2> QED
    BY <1>2, <1>6, <2>1 DEF SuspendCmd, Ended
<1>7. CASE SuspendStop \/ SessionStop \/ Panic
  <2>1. queue' = <<>>
    <3>1. pending' = <<>> /\ cmds' = <<>>
      BY <1>7 DEF SuspendStop, SessionStop, Panic, Return
    <3>2. <<>> \o <<>> = <<>>
      OBVIOUS
    <3> QED
      BY <3>1, <3>2
  <2> QED
    BY <1>5, <1>7, <2>1 DEF SuspendStop, SessionStop, CmdReady, Panic, Return, Ended
<1>8. CASE Flush
  <2>1. queue # <<>> /\ Head(queue) = Head(pending) /\ queue' = Tail(queue)
    BY <1>1, <1>8, ConcatFacts DEF Flush
  <2> QED
    BY <1>3, <1>8, <2>1 DEF Flush, SendOk, SendFails, SessionError, Ended
<1>9. CASE SessionCmd
  <2>1. pending = <<>> /\ pending' = <<>> /\ cmds # <<>>
    BY <1>9 DEF SessionCmd, CmdReady, SessionScope
  <2>2. queue = cmds /\ queue' = Tail(cmds)
    BY <1>1, <1>9, <2>1 DEF SessionCmd
  <2> QED
    BY <1>3, <1>9, <2>1, <2>2
       DEF SessionCmd, CmdReady, SendOk, SendFails, SessionError, Ended
<1>10. CASE HostSendClip \/ HostQueue \/ HostFetch \/ HostStop
  <2>1. PICK cmd \in Cmds : Enqueue(cmd)
    <3>1. clips < MaxClips => clips + 1 \in Clips
      BY WorkerAssumption DEF TypeOK, Clips
    <3> QED
      BY <1>10, <3>1, CmdType DEF HostSendClip, HostQueue, HostFetch, HostStop
  <2>2. UNCHANGED <<pc, pending, done>>
    BY <1>10 DEF HostSendClip, HostQueue, HostFetch, HostStop, workerVars
  <2>3. CASE pc \in Ended
    BY <1>2, <2>1, <2>2, <2>3 DEF Enqueue
  <2>4. CASE pc \notin Ended
    <3>1. queue' = Append(queue, cmd)
      BY <1>1, <2>1, <2>2, <2>4, ConcatFacts DEF Enqueue
    <3> QED
      BY <1>4, <2>2, <2>4, <3>1
  <2> QED
    BY <2>3, <2>4
<1>11. CASE \/ Gate
            \/ SuspendCheck
            \/ SuspendArm
            \/ SuspendNotified
            \/ DialOk
            \/ DialFailed
            \/ FlushDone
            \/ SessionCheck
            \/ SessionArm
            \/ SessionDeadline
            \/ SessionPing
            \/ SessionModeNotified
            \/ SessionWakeNotified
            \/ SessionFrame
            \/ SessionClosed
            \/ SessionEnded
            \/ BackoffCheck
            \/ BackoffArm
            \/ BackoffNotified
            \/ BackoffElapsed
            \/ LinkDies
  BY <1>2, <1>11
     DEF BackoffArm, BackoffCheck, BackoffElapsed, BackoffNotified,
         DialFailed, DialOk, FlushDone, FrameReady, Gate, LinkDies, Resume,
         SessionArm, SessionCheck, SessionClosed, SessionDeadline,
         SessionEnded, SessionError, SessionFrame, SessionModeNotified,
         SessionPing, SessionReconnect, SessionWakeNotified, SuspendArm,
         SuspendCheck, SuspendNotified, Ended
<1>12. CASE HostSetIdle \/ HostNotifyMode \/ HostReconnectNow \/ HostNotifyWake \/ HostJoined
  BY <1>2, <1>12 DEF HostSetIdle, HostNotifyMode, HostReconnectNow, HostNotifyWake, HostJoined, workerVars
<1>13. CASE UNCHANGED vars
  BY <1>2, <1>13 DEF vars, workerVars
<1> QED
  BY <1>6, <1>7, <1>8, <1>9, <1>10, <1>11, <1>12, <1>13
     DEF Next, Worker, Suspend, Dial, Session, Backoff, Host

\* Commands are applied in the order the host gave them, each at most once,
\* through suspend, resume, failed flushes, reconnects and the worker's end.
THEOREM WorkerImplementsOutbox == Spec => ImplementsOutbox
<1>1. Init => OutboxView!Init
  <2>1. <<>> \o <<>> = <<>>
    OBVIOUS
  <2> QED
    BY <2>1 DEF Init, OutboxView!Init, Ended
<1>2. TypeOK /\ SessionScope /\ [Next]_vars => [OutboxView!Next]_(OutboxView!vars)
  BY OutboxStep
<1> QED
  BY <1>1, <1>2, TypeCorrect, SessionScopeHolds, PTL
     DEF Spec, ImplementsOutbox, OutboxView!Spec
=============================================================================
