---------------------------- MODULE FileTransfer ----------------------------
(***************************************************************************)
(* LAN file transfer: send_file_to_stream and receive_offered_file in      *)
(* core/src/lan.rs over OutgoingFile and IncomingFileWriter in             *)
(* core/src/file_transfer.rs.  Several transfers, each on a TCP connection *)
(* of its own, arrive at one receiver and one receive directory.           *)
(*                                                                         *)
(* A file is a sequence of blocks, a chunk is one block, and the sha256 of *)
(* a file is the file.  The source file is not locked: its owner may       *)
(* change it at any time, and stat, hash and each read are separate steps. *)
(***************************************************************************)
EXTENDS Integers, Sequences, FiniteSetsExt

CONSTANTS
    Transfers,
    Names,
    NameOf,     \* transfer -> sanitized file name
    Contents,   \* what a source file may hold: sequences of blocks
    Original,   \* what it holds at first
    WIRE_CAP,   \* frames the socket buffers take before a write waits
    MAX_SAME,   \* last suffix unique_destination_path tries (9999)
    MaxEdits,   \* bound of the model: changes of source files
    MaxFaults,  \* bound of the model: cut connections, killed receivers, timeouts,
                \* disk errors
    None

Blocks == UNION {{c[i] : i \in DOMAIN c} : c \in Contents}
Files == Seq(Blocks)
Paths == Names \X (0..MAX_SAME)     \* <<n, 0>> is "n", <<n, i>> is "n (i)"

ASSUME FileAssumption ==
    /\ NameOf \in [Transfers -> Names]
    /\ MAX_SAME \in Nat /\ MaxEdits \in Nat /\ MaxFaults \in Nat
    /\ \A c \in Contents : c \in Seq({c[i] : i \in DOMAIN c})
    /\ Original \in Contents /\ WIRE_CAP \in Nat \ {0}
    /\ None \notin Contents \cup Files \cup Transfers \cup Paths

VARIABLES
    src,        \* transfer -> the source file now
    snd,        \* transfer -> the sender's call
    rcv,        \* transfer -> the receiver's session
    toR, toS,   \* transfer -> frames on the connection, per direction
    cut,        \* transfer -> the connection broke
    disk,       \* path -> [data, owner], or None
    part,       \* part file -> data, or None
    enabled,    \* the host has called set_file_receive_dir
    versions,   \* history: transfer -> everything its source file has held
    excused,    \* history: transfer -> something happened to it that is not
                \* the doing of the program or of another transfer
    edits, faults

senderVars == <<src, snd, toR, versions, edits>>
receiverVars == <<rcv, toS, disk, part, enabled>>
vars == <<senderVars, receiverVars, cut, excused, faults>>

PartFiles == Paths \X Transfers

\* Mutant of PartPath: the transfer id is not part of the name.
PartPathByName(p, t) == <<p, CHOOSE u \in Transfers : TRUE>>

\* part_path_for
PartPath(p, t) == <<p, t>>

SenderPcs == {"idle", "stat", "hash", "hello", "peer", "accept", "stream", "sent", "failed"}
ReceiverPcs == {"none", "hello", "first", "recv", "control", "done", "failed", "killed"}
Frames ==
    [type : {"Hello", "Complete", "Accept", "Reject", "Cancel"}]
    \cup [type : {"Offer"}, size : Nat, hash : Contents]
    \cup [type : {"Chunk"}, offset : Nat, data : Blocks]
Frame(type) == [type |-> type]
Chunk(offset, data) == [type |-> "Chunk", offset |-> offset, data |-> data]

TypeOK ==
    /\ src \in [Transfers -> Contents]
    /\ snd \in [Transfers -> [pc : SenderPcs, size : Nat, hash : Contents \cup {None},
                              offset : Nat]]
    /\ rcv \in [Transfers -> [pc : ReceiverPcs, size : Nat, hash : Contents \cup {None},
                              path : Paths \cup {None}]]
    /\ toR \in [Transfers -> Seq(Frames)] /\ toS \in [Transfers -> Seq(Frames)]
    /\ disk \in [Paths -> [data : Files, owner : Transfers \cup {None}] \cup {None}]
    /\ part \in [PartFiles -> Files \cup {None}]
    /\ versions \in [Transfers -> SUBSET Contents]
    /\ cut \in [Transfers -> BOOLEAN] /\ excused \in [Transfers -> BOOLEAN]
    /\ enabled \in BOOLEAN
    /\ edits \in 0..MaxEdits /\ faults \in 0..MaxFaults

Init ==
    /\ src = [t \in Transfers |-> Original]
    /\ snd = [t \in Transfers |-> [pc |-> "idle", size |-> 0, hash |-> None, offset |-> 0]]
    /\ rcv = [t \in Transfers |-> [pc |-> "none", size |-> 0, hash |-> None, path |-> None]]
    /\ toR = [t \in Transfers |-> <<>>] /\ toS = [t \in Transfers |-> <<>>]
    /\ \E there \in SUBSET Names :      \* files of the user
          disk = [p \in Paths |-> IF p[2] = 0 /\ p[1] \in there
                                  THEN [data |-> <<>>, owner |-> None] ELSE None]
    /\ part = [f \in PartFiles |-> None]
    /\ versions = [t \in Transfers |-> {src[t]}]
    /\ cut = [t \in Transfers |-> FALSE] /\ excused = [t \in Transfers |-> FALSE]
    /\ enabled = FALSE
    /\ edits = 0 /\ faults = 0

SenderGone(t) == cut[t] \/ snd[t].pc \in {"sent", "failed"}
ReceiverGone(t) == cut[t] \/ rcv[t].pc \in {"done", "failed", "killed"}

Excuse(t) == excused' = [excused EXCEPT ![t] = TRUE]
SenderAt(t, pc) == snd[t].pc = pc
ReceiverAt(t, pc, type) == rcv[t].pc = pc /\ toR[t] # <<>> /\ Head(toR[t]).type = type

-----------------------------------------------------------------------------
(* The sender: send_file_to_peer *)

Write(t, frame, pc) ==
    /\ Len(toR[t]) < WIRE_CAP
    /\ toR' = [toR EXCEPT ![t] = Append(@, frame)]
    /\ snd' = [snd EXCEPT ![t].pc = pc]

\* A candidate accepts the connection; the receiver's run_peer writes its Hello.
Dial(t) ==
    /\ SenderAt(t, "idle")
    /\ snd' = [snd EXCEPT ![t].pc = "stat"]
    /\ rcv' = [rcv EXCEPT ![t].pc = "hello"]
    /\ toS' = [toS EXCEPT ![t] = <<Frame("Hello")>>]
    /\ UNCHANGED <<src, toR, versions, edits, disk, part, enabled, cut, excused, faults>>

\* No candidate, none reachable, or the path cannot be sent (OutgoingFile::open).
SendRefused(t) ==
    /\ snd[t].pc \in {"idle", "stat"}
    /\ snd' = [snd EXCEPT ![t].pc = "failed"]
    /\ Excuse(t)
    /\ UNCHANGED <<src, toR, versions, edits, receiverVars, cut, faults>>

\* OutgoingFile::open: length first, then the hash of what is there by then.
Stat(t) ==
    /\ SenderAt(t, "stat")
    /\ snd' = [snd EXCEPT ![t].pc = "hash", ![t].size = Len(src[t])]
    /\ UNCHANGED <<src, toR, versions, edits, receiverVars, cut, excused, faults>>

HashFile(t) ==
    /\ SenderAt(t, "hash")
    /\ snd' = [snd EXCEPT ![t].pc = "hello", ![t].hash = src[t]]
    /\ UNCHANGED <<src, toR, versions, edits, receiverVars, cut, excused, faults>>

SendHello(t) ==
    /\ SenderAt(t, "hello")
    /\ Write(t, Frame("Hello"), "peer")
    /\ UNCHANGED <<src, versions, edits, receiverVars, cut, excused, faults>>

Read(t, type) ==
    /\ toS[t] # <<>> /\ Head(toS[t]).type = type
    /\ toS' = [toS EXCEPT ![t] = Tail(@)]
    /\ UNCHANGED <<rcv, disk, part, enabled>>

\* The Hello names the expected device and the offer goes out.
SendOffer(t) ==
    /\ SenderAt(t, "peer")
    /\ Read(t, "Hello")
    /\ Write(t, [type |-> "Offer", size |-> snd[t].size, hash |-> snd[t].hash], "accept")
    /\ UNCHANGED <<src, versions, edits, cut, excused, faults>>

\* It names another device: the address is out of date.
WrongPeer(t) ==
    /\ SenderAt(t, "peer")
    /\ Read(t, "Hello")
    /\ snd' = [snd EXCEPT ![t].pc = "failed"]
    /\ Excuse(t)
    /\ UNCHANGED <<src, toR, versions, edits, cut, faults>>

ReadAnswer(t) ==
    /\ SenderAt(t, "accept")
    /\ \/ Read(t, "Accept") /\ snd' = [snd EXCEPT ![t].pc = "stream"]
       \/ Read(t, "Reject") /\ snd' = [snd EXCEPT ![t].pc = "failed"]
    /\ UNCHANGED <<src, toR, versions, edits, cut, excused, faults>>

\* Mutant of SenderEof: end of stream is not noticed while waiting for the answer.
SenderEofInHello(t) ==
    /\ SenderAt(t, "peer")
    /\ toS[t] = <<>> /\ ReceiverGone(t)
    /\ snd' = [snd EXCEPT ![t].pc = "failed"]
    /\ UNCHANGED <<src, toR, versions, edits, receiverVars, cut, excused, faults>>

\* read_frame reports that the peer is gone.
SenderEof(t) ==
    /\ snd[t].pc \in {"peer", "accept"}
    /\ toS[t] = <<>> /\ ReceiverGone(t)
    /\ snd' = [snd EXCEPT ![t].pc = "failed"]
    /\ UNCHANGED <<src, toR, versions, edits, receiverVars, cut, excused, faults>>

\* read_chunk reads the file as it is now.
SendChunk(t) ==
    /\ SenderAt(t, "stream")
    /\ snd[t].offset < Len(src[t])
    /\ Len(toR[t]) < WIRE_CAP
    /\ toR' = [toR EXCEPT ![t] = Append(@, Chunk(snd[t].offset, src[t][snd[t].offset + 1]))]
    /\ snd' = [snd EXCEPT ![t].offset = @ + 1]
    /\ UNCHANGED <<src, versions, edits, receiverVars, cut, excused, faults>>

\* At end of file the call returns SentFile; no answer is awaited.
SendComplete(t) ==
    /\ SenderAt(t, "stream")
    /\ snd[t].offset >= Len(src[t])
    /\ Write(t, Frame("Complete"), "sent")
    /\ UNCHANGED <<src, versions, edits, receiverVars, cut, excused, faults>>

\* A write to a peer that is gone may also fail at once.
WriteFails(t) ==
    /\ snd[t].pc \in {"hello", "stream"}
    /\ ReceiverGone(t)
    /\ snd' = [snd EXCEPT ![t].pc = "failed"]
    /\ UNCHANGED <<src, toR, versions, edits, receiverVars, cut, excused, faults>>

SenderStep(t) ==
    \/ Stat(t) \/ HashFile(t) \/ SendHello(t) \/ SendOffer(t) \/ WrongPeer(t)
    \/ ReadAnswer(t) \/ SenderEof(t) \/ SendChunk(t) \/ SendComplete(t) \/ WriteFails(t)

-----------------------------------------------------------------------------
(* The receiver: run_peer up to the classification, receive_offered_file *)

Take(t) == toR' = [toR EXCEPT ![t] = Tail(@)]
SenderSame == UNCHANGED <<src, snd, versions, edits>>

\* Mutant of DropPart: the part file stays.
DropNothing(t) == part' = part

\* IncomingFileWriter is dropped unfinished: its part file goes.
DropPart(t) ==
    part' = IF rcv[t].pc = "recv" THEN [part EXCEPT ![PartPath(rcv[t].path, t)] = None]
                                  ELSE part

SessionFails(t) ==
    /\ rcv' = [rcv EXCEPT ![t].pc = "failed"]
    /\ DropPart(t)
    /\ UNCHANGED <<disk, enabled>>

ReadHello(t) ==
    /\ ReceiverAt(t, "hello", "Hello")
    /\ Take(t)
    /\ rcv' = [rcv EXCEPT ![t].pc = "first"]
    /\ UNCHANGED <<toS, disk, part, enabled, cut, excused, faults>> /\ SenderSame

\* Five seconds without a Hello; the sender may still be hashing.
HelloTimeout(t) ==
    /\ faults < MaxFaults /\ faults' = faults + 1
    /\ rcv[t].pc = "hello" /\ toR[t] = <<>>
    /\ SessionFails(t)
    /\ Excuse(t)
    /\ UNCHANGED <<toR, toS, cut>> /\ SenderSame

\* Five seconds without a first frame: taken for a control peer of an old
\* build, which ignores file frames and ends when it idles.
FirstTimeout(t) ==
    /\ faults < MaxFaults /\ faults' = faults + 1
    /\ rcv[t].pc = "first" /\ toR[t] = <<>>
    /\ rcv' = [rcv EXCEPT ![t].pc = "control"]
    /\ Excuse(t)
    /\ UNCHANGED <<toR, toS, disk, part, enabled, cut>> /\ SenderSame

ControlStep(t) ==
    /\ rcv[t].pc = "control"
    /\ \/ /\ toR[t] # <<>>
          /\ Take(t)
          /\ UNCHANGED <<rcv, disk, part, enabled>>
       \/ /\ toR[t] = <<>>
          /\ SessionFails(t)
          /\ UNCHANGED toR
    /\ UNCHANGED <<toS, cut, excused, faults>> /\ SenderSame

\* unique_destination_path: the first suffix that is free now.
FreeSuffixes(n) == {i \in 0..MAX_SAME : disk[<<n, i>>] = None}
FreePath(n) == <<n, Min(FreeSuffixes(n))>>

\* IncomingFileWriter::accept and FileAccept ...
AcceptOffer(t) ==
    /\ ReceiverAt(t, "first", "Offer")
    /\ enabled
    /\ FreeSuffixes(NameOf[t]) # {}
    /\ LET p == FreePath(NameOf[t]) IN
          /\ part[PartPath(p, t)] = None       \* create_new
          /\ part' = [part EXCEPT ![PartPath(p, t)] = <<>>]
          /\ rcv' = [rcv EXCEPT ![t] = [pc |-> "recv", path |-> p,
                         size |-> Head(toR[t]).size, hash |-> Head(toR[t]).hash]]
    /\ toS' = [toS EXCEPT ![t] = Append(@, Frame("Accept"))]
    /\ Take(t)
    /\ UNCHANGED <<disk, enabled, cut, excused, faults>> /\ SenderSame

\* ... or FileReject: receiving is off, no name is free, or accept() failed.
RejectOffer(t) ==
    /\ ReceiverAt(t, "first", "Offer")
    /\ \/ (~enabled \/ FreeSuffixes(NameOf[t]) = {}) /\ Excuse(t)
       \/ /\ enabled /\ FreeSuffixes(NameOf[t]) # {}
          /\ part[PartPath(FreePath(NameOf[t]), t)] # None
          /\ UNCHANGED excused
    /\ SessionFails(t)
    /\ toS' = [toS EXCEPT ![t] = Append(@, Frame("Reject"))]
    /\ Take(t)
    /\ UNCHANGED <<cut, faults>> /\ SenderSame

Written(t) == part[PartPath(rcv[t].path, t)]

\* write_chunk
WriteChunk(t) ==
    /\ ReceiverAt(t, "recv", "Chunk")
    /\ LET frame == Head(toR[t])
           fits == frame.offset = Len(Written(t)) /\ Len(Written(t)) + 1 <= rcv[t].size
       IN  IF fits
           THEN /\ part' = [part EXCEPT ![PartPath(rcv[t].path, t)] = Append(@, frame.data)]
                /\ UNCHANGED <<rcv, toS, disk, enabled>>
           ELSE /\ SessionFails(t)
                /\ toS' = [toS EXCEPT ![t] = Append(@, Frame("Cancel"))]
    /\ Take(t)
    /\ UNCHANGED <<cut, excused, faults>> /\ SenderSame

\* Mutant of Verified: the last chunk is expected after the end.
VerifiedBelowSize(t) == Len(Written(t)) < rcv[t].size /\ Written(t) = rcv[t].hash

\* Mutant of Verified: only the length is compared.
RightLength(t) == Len(Written(t)) = rcv[t].size

Verified(t) == Len(Written(t)) = rcv[t].size /\ Written(t) = rcv[t].hash

\* finish: verify, then rename the part file, which replaces what is there.
FinishFile(t) ==
    /\ ReceiverAt(t, "recv", "Complete")
    /\ IF Verified(t)
       THEN /\ disk' = [disk EXCEPT ![rcv[t].path] = [data |-> Written(t), owner |-> t]]
            /\ part' = [part EXCEPT ![PartPath(rcv[t].path, t)] = None]
            /\ rcv' = [rcv EXCEPT ![t].pc = "done"]
            /\ UNCHANGED enabled
       ELSE SessionFails(t)
    /\ Take(t)
    /\ UNCHANGED <<toS, cut, excused, faults>> /\ SenderSame

\* create_new, write_all, sync_all or rename reports an error.
DiskFails(t) ==
    /\ faults < MaxFaults /\ faults' = faults + 1
    /\ \E answer \in {<<"first", "Offer", <<Frame("Reject")>> >>,
                      <<"recv", "Chunk", <<Frame("Cancel")>> >>,
                      <<"recv", "Complete", <<>> >>} :
          /\ ReceiverAt(t, answer[1], answer[2])
          /\ toS' = [toS EXCEPT ![t] = @ \o answer[3]]
    /\ SessionFails(t)
    /\ Take(t)
    /\ Excuse(t)
    /\ UNCHANGED cut /\ SenderSame

ReceiverEof(t) ==
    /\ rcv[t].pc \in {"hello", "first", "recv"}
    /\ toR[t] = <<>> /\ SenderGone(t)
    /\ SessionFails(t)
    /\ UNCHANGED <<toR, toS, cut, excused, faults>> /\ SenderSame

ReceiverStep(t) ==
    \/ ReadHello(t) \/ ControlStep(t) \/ AcceptOffer(t) \/ RejectOffer(t)
    \/ WriteChunk(t) \/ FinishFile(t) \/ ReceiverEof(t)

SetReceiveDir ==
    /\ ~enabled
    /\ enabled' = TRUE
    /\ UNCHANGED <<senderVars, rcv, toS, disk, part, cut, excused, faults>>

-----------------------------------------------------------------------------
(* The environment *)

\* The owner changes the source file.
Edit(t, c) ==
    /\ edits < MaxEdits /\ edits' = edits + 1
    /\ c # src[t]
    /\ src' = [src EXCEPT ![t] = c]
    /\ versions' = [versions EXCEPT ![t] = @ \cup {c}]
    /\ Excuse(t)
    /\ UNCHANGED <<snd, toR, receiverVars, cut, faults>>

\* The connection breaks and what is in flight is lost from some point on.
Cut(t) ==
    /\ faults < MaxFaults /\ faults' = faults + 1
    /\ rcv[t].pc # "none" /\ ~cut[t]
    /\ cut' = [cut EXCEPT ![t] = TRUE]
    /\ \E n \in 0..Len(toR[t]) : toR' = [toR EXCEPT ![t] = SubSeq(@, 1, n)]
    /\ \E n \in 0..Len(toS[t]) : toS' = [toS EXCEPT ![t] = SubSeq(@, 1, n)]
    /\ Excuse(t)
    /\ UNCHANGED <<src, snd, versions, edits, rcv, disk, part, enabled>>

\* The receiver's process is killed: no destructor runs.
Kill ==
    /\ faults < MaxFaults /\ faults' = faults + 1
    /\ rcv' = [t \in Transfers |->
                  IF rcv[t].pc \in {"none", "done", "failed"} THEN rcv[t]
                  ELSE [rcv[t] EXCEPT !.pc = "killed"]]
    /\ excused' = [t \in Transfers |-> excused[t] \/ rcv[t].pc # "none"]
    /\ UNCHANGED <<senderVars, toS, disk, part, enabled, cut>>

Next ==
    \/ SetReceiveDir \/ Kill
    \/ \E t \in Transfers :
          \/ Dial(t) \/ SendRefused(t) \/ SenderStep(t)
          \/ ReceiverStep(t) \/ HelloTimeout(t) \/ FirstTimeout(t) \/ DiskFails(t)
          \/ Cut(t) \/ \E c \in Contents : Edit(t, c)

Spec == Init /\ [][Next]_vars

\* Both ends of an open connection run, and a socket whose peer is gone
\* reports it.  Nothing is assumed of the timeouts, the host or the network.
FairSpec ==
    /\ Spec
    /\ \A t \in Transfers : WF_vars(SenderStep(t)) /\ WF_vars(ReceiverStep(t))

-----------------------------------------------------------------------------
(* What a transfer promises *)

\* A file that appears in the receive directory is, byte for byte, what the
\* source file was at some moment, however the source changed between stat,
\* hash and reads and however transfers share the directory.
NoTornFile ==
    \A p \in Paths : disk[p] # None /\ disk[p].owner # None =>
        disk[p].data \in versions[disk[p].owner]

\* A part file belongs to a session that is still receiving; only a killed
\* process leaves one behind.
NoOrphanPart ==
    \A f \in PartFiles : part[f] # None =>
        \E t \in Transfers : rcv[t].pc \in {"recv", "killed"} /\ f = PartPath(rcv[t].path, t)

\* Transfers do not make each other fail, not even two of one name at once.
FailsForCause == \A t \in Transfers : snd[t].pc = "failed" => excused[t]

\* What the sender reports as sent is in the receive directory sooner or later.
SentArrives ==
    \A t \in Transfers : snd[t].pc = "sent" ~> (rcv[t].pc = "done" \/ excused[t])

\* send_file_to_peer returns, wherever the receiver's session ends and whatever
\* it took the connection for.
SendReturns ==
    \A t \in Transfers : snd[t].pc # "idle" ~> snd[t].pc \in {"sent", "failed"}

\* Incoming files never overwrite existing files (file transfer design, line 54).
NeverOverwrites == [][\A p \in Paths : disk[p] # None => disk'[p] = disk[p]]_disk
=============================================================================
