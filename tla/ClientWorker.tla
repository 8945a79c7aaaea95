---------------------------- MODULE ClientWorker ----------------------------
(***************************************************************************)
(* The relay worker of core/src/client.rs: the reconnect loop `run`, the    *)
(* hard suspend, the backoff, one relay session and the commands a host     *)
(* thread sends through the FFI.                                            *)
(*                                                                         *)
(* The worker is one thread; the host calls come from another, so every    *)
(* load of a shared flag and every creation of a Notified future is a step *)
(* of its own.  tokio's notify_waiters() reaches the futures that exist at *)
(* that moment and leaves nothing behind for later ones: a notification is *)
(* recorded in wokenMode / wokenWake only while the worker is parked.      *)
(***************************************************************************)
EXTENDS Integers, Sequences

CONSTANTS
    BackoffCap,        \* the longest reconnect delay, the shortest being 1
    FetchAfterResume,  \* the host sends FetchRecent after leaving standby
    MaxClips,          \* bound: SendClip calls
    MaxCalls           \* bound: all other calls of the host

ASSUME WorkerAssumption ==
    /\ BackoffCap \in Nat \ {0}
    /\ FetchAfterResume \in BOOLEAN
    /\ MaxClips \in Nat
    /\ MaxCalls \in Nat

VARIABLES
    pc,         \* where the worker is
    idle,       \* reconnect_idle_mode
    requested,  \* reconnect_requested
    wokenMode,  \* the parked worker's mode future was notified
    wokenWake,  \* the parked worker's wake future was notified
    cmds,       \* the command channel
    pending,    \* pending_cmds: commands taken while hard-suspended
    backoff,    \* the next reconnect delay
    link,       \* the WebSocket: none, up, or dead without either end told
    probe,      \* probe_deadline is set
    reported,   \* the state last given to the host's listener
    done,       \* history: commands applied to a session, in order
    clips,      \* history: SendClip calls so far
    calls,      \* other host calls so far
    host        \* where the host thread is

workerVars == <<pc, backoff, link, probe, reported, pending, done>>
hostVars == <<idle, requested, clips, calls, host>>
vars == <<workerVars, wokenMode, wokenWake, cmds, hostVars>>

Clips == 1..MaxClips
Cmds == [type : {"SendClip"}, ts : Clips]
            \cup [type : {"FetchRecent", "RefreshLan", "Stop"}]

SendClip(n) == [type |-> "SendClip", ts |-> n]
FetchRecent == [type |-> "FetchRecent"]
RefreshLan == [type |-> "RefreshLan"]
Stop == [type |-> "Stop"]

Suspended == {"susp_check", "susp_arm", "susp_wait"}
InSession == {"flush", "sess_check", "sess_arm", "sess_wait"}
InBackoff == {"back_check", "back_arm", "back_wait"}
Ended == {"stopped"}

TypeOK ==
    /\ pc \in {"top", "dial", "exit_reconnect", "exit_error"}
                \cup Suspended \cup InSession \cup InBackoff \cup Ended
    /\ idle \in BOOLEAN
    /\ requested \in BOOLEAN
    /\ wokenMode \in BOOLEAN
    /\ wokenWake \in BOOLEAN
    /\ cmds \in Seq(Cmds)
    /\ pending \in Seq(Cmds)
    /\ backoff \in 1..BackoffCap
    /\ link \in {"none", "up", "dead"}
    /\ probe \in BOOLEAN
    /\ reported \in {"None", "Connecting", "Connected", "Disconnected", "Error"}
    /\ done \in Seq(Cmds)
    /\ clips \in 0..MaxClips
    /\ calls \in 0..MaxCalls
    /\ host \in {"ready", "notifyMode", "notifyWake", "fetch", "join", "joined"}

Init ==
    /\ pc = "top"
    /\ idle = FALSE
    /\ requested = FALSE
    /\ wokenMode = FALSE
    /\ wokenWake = FALSE
    /\ cmds = <<>>
    /\ pending = <<>>
    /\ backoff = 1
    /\ link = "none"
    /\ probe = FALSE
    /\ reported = "None"
    /\ done = <<>>
    /\ clips = 0
    /\ calls = 0
    /\ host = "ready"

Min(a, b) == IF a < b THEN a ELSE b

-----------------------------------------------------------------------------
(* The worker: ends of `run` *)

\* `run` returns: the channel's receiver and pending_cmds are dropped.
Return ==
    /\ pc' = "stopped"
    /\ cmds' = <<>>
    /\ pending' = <<>>
    /\ link' = "none"
    /\ probe' = FALSE

Unpark == wokenMode' = FALSE /\ wokenWake' = FALSE

\* Mutant of Gate: the hard suspend is not reported to the host.
GateSilent ==
    /\ pc = "top"
    /\ IF idle
       THEN pc' = "susp_check" /\ UNCHANGED reported
       ELSE pc' = "dial" /\ reported' = "Connecting"
    /\ UNCHANGED <<backoff, link, probe, pending, done, wokenMode, wokenWake, cmds, hostVars>>

\* The loop of `run`: hard suspend gate, then a dial.
Gate ==
    /\ pc = "top"
    /\ IF idle
       THEN pc' = "susp_check" /\ reported' = "Disconnected"
       ELSE pc' = "dial" /\ reported' = "Connecting"
    /\ UNCHANGED <<backoff, link, probe, pending, done, wokenMode, wokenWake, cmds, hostVars>>

-----------------------------------------------------------------------------
(* wait_while_relay_suspended *)

Resume ==
    /\ pc' = "dial"
    /\ reported' = "Connecting"
    /\ backoff' = 1

SuspendCheck ==
    /\ pc = "susp_check"
    /\ IF idle
       THEN pc' = "susp_arm" /\ UNCHANGED <<reported, backoff>>
       ELSE Resume
    /\ UNCHANGED <<link, probe, pending, done, wokenMode, wokenWake, cmds, hostVars>>

\* select! creates the Notified future.
SuspendArm ==
    /\ pc = "susp_arm"
    /\ pc' = "susp_wait"
    /\ UNCHANGED <<backoff, link, probe, reported, pending, done, wokenMode, wokenWake, cmds, hostVars>>

\* Mutant of SuspendCmd: the command is put in front of the earlier ones.
SuspendCmdFront ==
    /\ pc = "susp_wait"
    /\ cmds # <<>>
    /\ Head(cmds) # Stop
    /\ pc' = "susp_check"
    /\ pending' = <<Head(cmds)>> \o pending
    /\ cmds' = Tail(cmds)
    /\ Unpark
    /\ UNCHANGED <<backoff, link, probe, reported, done, hostVars>>

\* Mutant of SuspendCmd: the wait goes on without looking at the flag again.
SuspendCmdNoRecheck ==
    /\ pc = "susp_wait"
    /\ cmds # <<>>
    /\ Head(cmds) # Stop
    /\ pc' = "susp_arm"
    /\ pending' = Append(pending, Head(cmds))
    /\ cmds' = Tail(cmds)
    /\ Unpark
    /\ UNCHANGED <<backoff, link, probe, reported, done, hostVars>>

SuspendCmd ==
    /\ pc = "susp_wait"
    /\ cmds # <<>>
    /\ Head(cmds) # Stop
    /\ pc' = "susp_check"
    /\ pending' = Append(pending, Head(cmds))
    /\ cmds' = Tail(cmds)
    /\ Unpark
    /\ UNCHANGED <<backoff, link, probe, reported, done, hostVars>>

SuspendStop ==
    /\ pc = "susp_wait"
    /\ cmds # <<>>
    /\ Head(cmds) = Stop
    /\ Return
    /\ reported' = "Disconnected"
    /\ Unpark
    /\ UNCHANGED <<backoff, done, hostVars>>

SuspendNotified ==
    /\ pc = "susp_wait"
    /\ wokenMode
    /\ IF idle
       THEN pc' = "susp_check" /\ UNCHANGED <<reported, backoff>>
       ELSE Resume
    /\ Unpark
    /\ UNCHANGED <<link, probe, pending, done, cmds, hostVars>>

-----------------------------------------------------------------------------
(* session *)

SessionError ==
    /\ pc' = "exit_error"
    /\ reported' = "Error"
    /\ link' = "none"
    /\ probe' = FALSE

SessionReconnect ==
    /\ pc' = "exit_reconnect"
    /\ reported' = "Disconnected"
    /\ link' = "none"
    /\ probe' = FALSE

\* The dial, bounded by CONNECT_TIMEOUT, and the Join, FetchRecent and
\* LanAdvertise that follow it: any of them may fail.
DialFailed ==
    /\ pc = "dial"
    /\ SessionError
    /\ UNCHANGED <<backoff, pending, done, wokenMode, wokenWake, cmds, hostVars>>

DialOk ==
    /\ pc = "dial"
    /\ pc' = "flush"
    /\ link' = "up"
    /\ reported' = "Connected"
    /\ UNCHANGED <<backoff, probe, pending, done, wokenMode, wokenWake, cmds, hostVars>>

\* apply_session_cmd on a command that was just taken from its queue.  Only a
\* write to the socket can fail; RefreshLan may have nothing to write.
SendOk(cmd, next) ==
    /\ done' = Append(done, cmd)
    /\ pc' = next
    /\ UNCHANGED <<link, probe, reported>>

SendFails ==
    /\ link = "dead"
    /\ SessionError
    /\ UNCHANGED done

\* The flush of pending_cmds.  They are never Stop.
Flush ==
    /\ pc = "flush"
    /\ pending # <<>>
    /\ pending' = Tail(pending)
    /\ SendOk(Head(pending), "flush") \/ SendFails
    /\ UNCHANGED <<backoff, wokenMode, wokenWake, cmds, hostVars>>

\* Mutant of FlushDone: the loop starts after the first flushed command.
FlushDoneEarly ==
    /\ pc = "flush"
    /\ pc' = "sess_check"
    /\ UNCHANGED <<backoff, link, probe, reported, pending, done, wokenMode, wokenWake, cmds, hostVars>>

FlushDone ==
    /\ pc = "flush"
    /\ pending = <<>>
    /\ pc' = "sess_check"
    /\ UNCHANGED <<backoff, link, probe, reported, pending, done, wokenMode, wokenWake, cmds, hostVars>>

\* Mutant of SessionCheck: the flag is not read, only its notification is.
SessionCheckBlind ==
    /\ pc = "sess_check"
    /\ pc' = "sess_arm"
    /\ UNCHANGED <<link, probe, reported>>
    /\ UNCHANGED <<backoff, pending, done, wokenMode, wokenWake, cmds, hostVars>>

\* The top of the session loop.
SessionCheck ==
    /\ pc = "sess_check"
    /\ IF idle
       THEN SessionReconnect
       ELSE pc' = "sess_arm" /\ UNCHANGED <<link, probe, reported>>
    /\ UNCHANGED <<backoff, pending, done, wokenMode, wokenWake, cmds, hostVars>>

SessionArm ==
    /\ pc = "sess_arm"
    /\ pc' = "sess_wait"
    /\ UNCHANGED <<backoff, link, probe, reported, pending, done, wokenMode, wokenWake, cmds, hostVars>>

\* The probe or the idle deadline: only a link that delivers nothing gets there.
SessionDeadline ==
    /\ pc = "sess_wait"
    /\ link = "dead"
    /\ SessionReconnect
    /\ Unpark
    /\ UNCHANGED <<backoff, pending, done, cmds, hostVars>>

\* The 30s heartbeat.  The LanAdvertise refresh tick is the same step here: a
\* write to the socket that may fail.
SessionPing ==
    /\ pc = "sess_wait"
    /\ \/ pc' = "sess_check" /\ UNCHANGED <<link, probe, reported>>
       \/ link = "dead" /\ SessionError
    /\ Unpark
    /\ UNCHANGED <<backoff, pending, done, cmds, hostVars>>

SessionModeNotified ==
    /\ pc = "sess_wait"
    /\ wokenMode
    /\ IF idle
       THEN SessionReconnect
       ELSE pc' = "sess_check" /\ UNCHANGED <<link, probe, reported>>
    /\ Unpark
    /\ UNCHANGED <<backoff, pending, done, cmds, hostVars>>

\* reconnect_now() mid-session: ping, and arm the probe unless one is out.
SessionWakeNotified ==
    /\ pc = "sess_wait"
    /\ wokenWake
    /\ ~wokenMode
    /\ requested' = FALSE
    /\ \/ pc' = "sess_check" /\ probe' = TRUE /\ UNCHANGED <<link, reported>>
       \/ ~probe /\ link = "dead" /\ SessionError
    /\ Unpark
    /\ UNCHANGED <<backoff, pending, done, cmds, idle, clips, calls, host>>

\* The select is biased: a command waits for the notifications, a frame for
\* the commands.
CmdReady ==
    /\ pc = "sess_wait"
    /\ ~wokenMode
    /\ ~wokenWake
    /\ cmds # <<>>

SessionCmd ==
    /\ CmdReady
    /\ Head(cmds) # Stop
    /\ cmds' = Tail(cmds)
    /\ SendOk(Head(cmds), "sess_check") \/ SendFails
    /\ UNCHANGED <<backoff, pending, wokenMode, wokenWake, hostVars>>

\* Mutant of SessionStop: the session ends as if the socket had closed.
SessionStopReconnects ==
    /\ CmdReady
    /\ Head(cmds) = Stop
    /\ cmds' = Tail(cmds)
    /\ SessionReconnect
    /\ UNCHANGED <<backoff, pending, done, wokenMode, wokenWake, hostVars>>

SessionStop ==
    /\ CmdReady
    /\ Head(cmds) = Stop
    /\ Return
    /\ reported' = "Disconnected"
    /\ UNCHANGED <<backoff, done, wokenMode, wokenWake, hostVars>>

FrameReady ==
    /\ pc = "sess_wait"
    /\ ~wokenMode
    /\ ~wokenWake
    /\ cmds = <<>>
    /\ link = "up"

\* A frame: it clears the probe; an Error frame is passed on to the host.
SessionFrame ==
    /\ FrameReady
    /\ pc' = "sess_check"
    /\ probe' = FALSE
    /\ reported' \in {reported, "Error"}
    /\ UNCHANGED <<backoff, link, pending, done, wokenMode, wokenWake, cmds, hostVars>>

\* Close frame or end of stream; a frame error or one that does not parse.
SessionClosed ==
    /\ FrameReady
    /\ SessionReconnect \/ SessionError
    /\ UNCHANGED <<backoff, pending, done, wokenMode, wokenWake, cmds, hostVars>>

\* The network goes away under the socket (environment).
LinkDies ==
    /\ link = "up"
    /\ link' = "dead"
    /\ UNCHANGED <<pc, backoff, probe, reported, pending, done, wokenMode, wokenWake, cmds, hostVars>>

-----------------------------------------------------------------------------
(* After a session, and wait_backoff *)

\* RECONNECT_STABLE_SESSION resets the delay; a stable clean close redials.
SessionEnded ==
    /\ pc \in {"exit_reconnect", "exit_error"}
    /\ \/ /\ idle
          /\ pc' = "top"
          /\ UNCHANGED backoff
       \/ /\ ~idle
          /\ \E stable \in BOOLEAN :
                /\ backoff' = IF stable THEN 1 ELSE backoff
                /\ pc' = IF stable /\ pc = "exit_reconnect" THEN "top" ELSE "back_check"
    /\ UNCHANGED <<link, probe, reported, pending, done, wokenMode, wokenWake, cmds, hostVars>>

\* requested.swap(false)
BackoffCheck ==
    /\ pc = "back_check"
    /\ requested' = FALSE
    /\ IF requested
       THEN pc' = "top" /\ backoff' = 1
       ELSE pc' = "back_arm" /\ UNCHANGED backoff
    /\ UNCHANGED <<link, probe, reported, pending, done, wokenMode, wokenWake, cmds, idle, clips, calls, host>>

BackoffArm ==
    /\ pc = "back_arm"
    /\ pc' = "back_wait"
    /\ UNCHANGED <<backoff, link, probe, reported, pending, done, wokenMode, wokenWake, cmds, hostVars>>

BackoffNotified ==
    /\ pc = "back_wait"
    /\ wokenWake
    /\ pc' = "back_check"
    /\ Unpark
    /\ UNCHANGED <<backoff, link, probe, reported, pending, done, cmds, hostVars>>

\* Mutant of BackoffElapsed: the delay doubles without the cap.
BackoffUncapped ==
    /\ pc = "back_wait"
    /\ pc' = "top"
    /\ backoff' = 2 * backoff
    /\ Unpark
    /\ UNCHANGED <<link, probe, reported, pending, done, cmds, hostVars>>

BackoffElapsed ==
    /\ pc = "back_wait"
    /\ pc' = "top"
    /\ backoff' = Min(2 * backoff, BackoffCap)
    /\ Unpark
    /\ UNCHANGED <<link, probe, reported, pending, done, cmds, hostVars>>

\* A panic anywhere on the thread is caught and reported.
Panic ==
    /\ pc \notin Ended
    /\ Return
    /\ reported' = "Error"
    /\ Unpark
    /\ UNCHANGED <<backoff, done, hostVars>>

-----------------------------------------------------------------------------
(* The host thread *)

\* cmd_tx.send: refused once the receiver is gone.
Enqueue(cmd) == cmds' = IF pc \in Ended THEN cmds ELSE Append(cmds, cmd)

HostSendClip ==
    /\ host = "ready"
    /\ clips < MaxClips
    /\ clips' = clips + 1
    /\ Enqueue(SendClip(clips + 1))
    /\ UNCHANGED <<workerVars, wokenMode, wokenWake, idle, requested, calls, host>>

Call(next) ==
    /\ host = "ready"
    /\ calls < MaxCalls
    /\ calls' = calls + 1
    /\ host' = next

HostQueue ==
    /\ Call("ready")
    /\ \E cmd \in {FetchRecent, RefreshLan} : Enqueue(cmd)
    /\ UNCHANGED <<workerVars, wokenMode, wokenWake, idle, requested, clips>>

\* set_reconnect_idle_mode: the store, then the notification.
HostSetIdle ==
    /\ Call("notifyMode")
    /\ idle' = ~idle
    /\ UNCHANGED <<workerVars, wokenMode, wokenWake, cmds, requested, clips>>

HostNotifyMode ==
    /\ host = "notifyMode"
    /\ wokenMode' = (wokenMode \/ pc \in {"susp_wait", "sess_wait"})
    /\ host' = IF FetchAfterResume /\ ~idle THEN "fetch" ELSE "ready"
    /\ UNCHANGED <<workerVars, wokenWake, cmds, idle, requested, clips, calls>>

\* The Android host's leaveStandby ends with fetch_recent().
HostFetch ==
    /\ host = "fetch"
    /\ host' = "ready"
    /\ Enqueue(FetchRecent)
    /\ UNCHANGED <<workerVars, wokenMode, wokenWake, idle, requested, clips, calls>>

HostReconnectNow ==
    /\ Call("notifyWake")
    /\ requested' = TRUE
    /\ UNCHANGED <<workerVars, wokenMode, wokenWake, cmds, idle, clips>>

HostNotifyWake ==
    /\ host = "notifyWake"
    /\ wokenWake' = (wokenWake \/ pc \in {"back_wait", "sess_wait"})
    /\ host' = "ready"
    /\ UNCHANGED <<workerVars, wokenMode, cmds, idle, requested, clips, calls>>

\* stop() and Drop: queue Stop, then join the thread.
HostStop ==
    /\ Call("join")
    /\ Enqueue(Stop)
    /\ UNCHANGED <<workerVars, wokenMode, wokenWake, idle, requested, clips>>

HostJoined ==
    /\ host = "join"
    /\ pc \in Ended
    /\ host' = "joined"
    /\ UNCHANGED <<workerVars, wokenMode, wokenWake, cmds, idle, requested, clips, calls>>

-----------------------------------------------------------------------------
Suspend == SuspendCheck \/ SuspendArm \/ SuspendCmd \/ SuspendStop \/ SuspendNotified

Session ==
    \/ Flush \/ FlushDone \/ SessionCheck \/ SessionArm \/ SessionDeadline
    \/ SessionPing \/ SessionModeNotified \/ SessionWakeNotified
    \/ SessionCmd \/ SessionStop \/ SessionFrame \/ SessionClosed

Backoff == SessionEnded \/ BackoffCheck \/ BackoffArm \/ BackoffNotified \/ BackoffElapsed

Dial == DialOk \/ DialFailed

Worker == Gate \/ Suspend \/ Dial \/ Session \/ Backoff

Host ==
    \/ HostSendClip \/ HostQueue \/ HostSetIdle \/ HostNotifyMode \/ HostFetch
    \/ HostReconnectNow \/ HostNotifyWake \/ HostStop \/ HostJoined

Next == Worker \/ Panic \/ LinkDies \/ Host

Spec == Init /\ [][Next]_vars

\* The worker thread and a host call that has begun run on; deadlines, pings
\* and commands are not overtaken for ever by frames, which the select ranks
\* last.  The host's calls, panics and the network are unconstrained.
Fairness ==
    /\ WF_vars(Worker)
    /\ SF_vars(SessionDeadline)
    /\ SF_vars(SessionCmd \/ SessionStop)
    /\ WF_vars(HostNotifyMode \/ HostFetch \/ HostNotifyWake \/ HostJoined)

FairSpec == Spec /\ Fairness

-----------------------------------------------------------------------------
(* What the worker promises *)

\* The commands reach the relay in the order the host gave them, each at most
\* once, through suspend, resume, failed flushes and reconnects.
OutboxView == INSTANCE Outbox
    WITH queue <- pending \o cmds, done <- done, closed <- (pc \in Ended)

ImplementsOutbox == OutboxView!Spec

\* The state last reported through on_state is never better than the truth:
\* Connected is only shown in a session, Connecting only while dialling, and a
\* suspended or waiting worker has said so.
HonestState ==
    /\ reported = "Connected" => pc \in InSession
    /\ reported = "Connecting" => pc = "dial"
    /\ pc \in Suspended => reported = "Disconnected"

\* Outside a session no socket and no probe survive, and inside the select loop
\* nothing is left of pending_cmds, so a newer command cannot overtake it.
SessionScope ==
    /\ pc \notin InSession => link = "none" /\ ~probe
    /\ pc \in InSession => link # "none"
    /\ pc \in {"sess_check", "sess_arm", "sess_wait"} => pending = <<>>

\* set_reconnect_idle_mode(true) ends in hard suspend, wherever it finds the
\* worker: dialling, in a session that lost the notification, backing off.
IdleSuspends == idle ~> (pc \in Suspended \/ ~idle \/ pc \in Ended)

\* set_reconnect_idle_mode(false) gets the worker out of hard suspend.
ResumeReconnects == ~idle ~> (pc \notin Suspended \/ idle)

\* stop() returns: the worker ends once Stop is queued.
StopTerminates == host = "join" ~> host = "joined"

\* The relay answers in the end: dials do not fail for ever.
RelayReachable == ([]<>(pc = "dial")) => []<>(pc = "flush")

\* With a reachable relay stop() does return, also out of standby, from a dead
\* link and with commands queued before Stop.
StopTerminatesWhenReachable == RelayReachable => StopTerminates

Queued(n) == \E i \in DOMAIN (pending \o cmds) : (pending \o cmds)[i] = SendClip(n)

\* With a reachable relay a clip does not stay queued for ever while the host
\* is out of standby.
ClipLeavesQueue == RelayReachable => \A n \in Clips : Queued(n) ~> (~Queued(n) \/ idle)
=============================================================================
