------------------------- MODULE FileTransferProofs -------------------------
(***************************************************************************)
(* Proofs about LAN file transfer, for any number of transfers, names and  *)
(* file contents, any socket buffer, and any number of edits of the source *)
(* files, cut connections, kills, timeouts and disk errors.                *)
(***************************************************************************)
EXTENDS FileTransfer, SequenceTheorems, WellFoundedInduction, TLAPS

-----------------------------------------------------------------------------
(* The inductive invariant *)

\* A receiving session has its part file.
HasPart ==
    \A t \in Transfers : rcv[t].pc = "recv" =>
        rcv[t].path \in Paths /\ part[PartPath(rcv[t].path, t)] # None

\* Nor is an offer sent before the file is hashed.
HasHash == \A t \in Transfers : snd[t].pc \in {"hello", "peer"} => snd[t].hash \in Contents

\* Offers among these frames are of these versions of the file.
Honest(frames, V) ==
    \A i \in 1..Len(frames) : frames[i].type = "Offer" => frames[i].hash \in V

\* Whatever hash travels from OutgoingFile::open to finish, it is the hash of
\* the source file at some moment.
HashesAreOurs(t) ==
    /\ src[t] \in versions[t]
    /\ snd[t].pc \in {"hello", "peer"} => snd[t].hash \in versions[t]
    /\ Honest(toR[t], versions[t])
    /\ rcv[t].pc = "recv" => rcv[t].hash \in versions[t]

HashInv == \A t \in Transfers : HashesAreOurs(t)

\* What the sender has learnt of its file, step by step.
Knows(t) ==
    /\ snd[t].pc \notin {"idle", "stat"} => snd[t].size = Len(src[t])
    /\ snd[t].pc \notin {"idle", "stat", "hash"} => snd[t].hash = src[t]
    /\ snd[t].pc \notin {"stream", "sent"} => snd[t].offset = 0

Offer(t) == [type |-> "Offer", size |-> Len(src[t]), hash |-> src[t]]

\* Before the file flows: where both ends are and what is on the wire.
Opening(t) ==
    \/ /\ snd[t].pc = "idle" /\ rcv[t].pc = "none"
       /\ toR[t] = <<>> /\ toS[t] = <<>>
    \/ /\ snd[t].pc \in {"stat", "hash", "hello"} /\ rcv[t].pc = "hello"
       /\ toR[t] = <<>> /\ toS[t] = <<Frame("Hello")>>
    \/ /\ snd[t].pc = "peer" /\ toS[t] = <<Frame("Hello")>>
       /\ \/ rcv[t].pc = "hello" /\ toR[t] = <<Frame("Hello")>>
          \/ rcv[t].pc = "first" /\ toR[t] = <<>>
    \/ /\ snd[t].pc = "accept" /\ toS[t] = <<>>
       /\ \/ rcv[t].pc = "hello" /\ toR[t] = <<Frame("Hello"), Offer(t)>>
          \/ rcv[t].pc = "first" /\ toR[t] = <<Offer(t)>>

\* The receiver has taken the offer: what is written is a prefix of the source
\* file, and the wire holds the rest up to the sender's offset, in order.
Flowing(t) ==
    /\ rcv[t].pc = "recv" /\ rcv[t].size = Len(src[t]) /\ rcv[t].hash = src[t]
    /\ snd[t].pc \in {"accept", "stream", "sent"}
    /\ snd[t].offset <= Len(src[t]) /\ Len(Written(t)) <= snd[t].offset
    /\ toS[t] = IF snd[t].pc = "accept" THEN <<Frame("Accept")>> ELSE <<>>
    /\ \A i \in 1..Len(Written(t)) : Written(t)[i] = src[t][i]
    /\ Len(toR[t]) = snd[t].offset - Len(Written(t)) + (IF snd[t].pc = "sent" THEN 1 ELSE 0)
    /\ \A i \in 1..(snd[t].offset - Len(Written(t))) :
          toR[t][i] = Chunk(Len(Written(t)) + i - 1, src[t][Len(Written(t)) + i])
    /\ snd[t].pc = "sent" => /\ snd[t].offset = Len(src[t])
                             /\ toR[t][Len(toR[t])] = Frame("Complete")

Arrived(t) == snd[t].pc = "sent" /\ rcv[t].pc = "done" /\ toR[t] = <<>> /\ toS[t] = <<>>

\* A transfer to which nothing has happened is at one of these points.
Fine(t) == ~excused[t] => ~cut[t] /\ Knows(t) /\ (Opening(t) \/ Flowing(t) \/ Arrived(t))

AllFine == \A t \in Transfers : Fine(t)

\* No session before the sender dials.
IdleInv == \A t \in Transfers : snd[t].pc = "idle" => rcv[t].pc = "none"

TInv == TypeOK /\ HasPart /\ HasHash
IInv == TInv /\ IdleInv /\ NoOrphanPart /\ HashInv /\ NoTornFile /\ AllFine

\* One step of one transfer.
TransferStep(t) ==
    \/ Dial(t) \/ SendRefused(t) \/ SenderStep(t)
    \/ ReceiverStep(t) \/ HelloTimeout(t) \/ FirstTimeout(t) \/ DiskFails(t)
    \/ Cut(t) \/ \E c \in Contents : Edit(t, c)

-----------------------------------------------------------------------------
(* Files, paths and frames *)

\* Every content is a file: a sequence of blocks.
LEMMA ContentIsFile ==
    ASSUME NEW c \in Contents
    PROVE  /\ c \in Files /\ Len(c) \in Nat /\ DOMAIN c = 1..Len(c)
           /\ \A i \in 1..Len(c) : c[i] \in Blocks
<1> DEFINE B == {c[i] : i \in DOMAIN c}
<1>1. c \in Seq(B) /\ B \subseteq Blocks
  BY FileAssumption DEF Blocks
<1> HIDE DEF B
<1>2. c \in Seq(Blocks)
  BY <1>1
<1> QED
  BY <1>2 DEF Files

\* unique_destination_path finds a path when a suffix is free, and it is free.
LEMMA FreePathIsPath ==
    ASSUME NEW n \in Names, FreeSuffixes(n) # {}
    PROVE  FreePath(n) \in Paths
<1> DEFINE S == FreeSuffixes(n)
           less == {d \in Nat \X Nat : d[1] < d[2]}
<1>1. S \subseteq 0..MAX_SAME /\ S \subseteq Nat
  BY FileAssumption DEF FreeSuffixes
<1>2. IsWellFoundedOn(less, Nat)
  BY NatLessThanWellFounded DEF OpToRel
<1>3. PICK x \in S : \A y \in S : ~(<<y, x>> \in less)
  <2> HIDE DEF less
  <2> QED
    BY <1>1, <1>2, WFMin
<1>4. ASSUME NEW y \in S
      PROVE  x =< y
  <2>1. x \in Nat /\ y \in Nat
    BY <1>1
  <2>2. ~(y < x)
    BY <1>3, <2>1
  <2> QED
    BY <2>1, <2>2
<1>5. Min(S) \in S
  BY <1>4 DEF Min
<1> QED
  BY <1>1, <1>5 DEF FreePath, Paths

\* The frames that the two ends write.
LEMMA FrameTypes ==
    /\ \A type \in {"Hello", "Complete", "Accept", "Reject", "Cancel"} : Frame(type) \in Frames
    /\ \A n \in Nat, c \in Contents : [type |-> "Offer", size |-> n, hash |-> c] \in Frames
    /\ \A n \in Nat, b \in Blocks : Chunk(n, b) \in Frames
BY DEF Frames, Frame, Chunk

LEMMA FrameFields ==
    ASSUME NEW f \in Frames
    PROVE  /\ f.type = "Offer" => f.size \in Nat /\ f.hash \in Contents
           /\ f.type = "Chunk" => f.offset \in Nat /\ f.data \in Blocks
<1>1. CASE f \in [type : {"Hello", "Complete", "Accept", "Reject", "Cancel"}]
  BY <1>1
<1>2. CASE f \in [type : {"Offer"}, size : Nat, hash : Contents]
  BY <1>2
<1>3. CASE f \in [type : {"Chunk"}, offset : Nat, data : Blocks]
  BY <1>3
<1> QED
  BY <1>1, <1>2, <1>3 DEF Frames

\* What a read leaves on the wire.
LEMMA TailOf ==
    ASSUME NEW S, NEW s \in Seq(S), s # <<>>
    PROVE  /\ Head(s) \in S /\ Head(s) = s[1] /\ Len(s) \in Nat /\ Len(s) > 0
           /\ Tail(s) \in Seq(S) /\ Len(Tail(s)) = Len(s) - 1
           /\ \A i \in 1..(Len(s) - 1) : Tail(s)[i] = s[i + 1]
BY HeadTailProperties

-----------------------------------------------------------------------------
(* Types *)

SenderRecs == [pc : SenderPcs, size : Nat, hash : Contents \cup {None}, offset : Nat]
ReceiverRecs == [pc : ReceiverPcs, size : Nat, hash : Contents \cup {None},
                 path : Paths \cup {None}]

\* The assignments to a sender's call.
LEMMA SenderRecTypes ==
    ASSUME NEW f \in [Transfers -> SenderRecs], NEW t \in Transfers, NEW pc \in SenderPcs
    PROVE  /\ [f EXCEPT ![t].pc = pc] \in [Transfers -> SenderRecs]
           /\ \A n \in Nat : [f EXCEPT ![t].pc = pc, ![t].size = n] \in [Transfers -> SenderRecs]
           /\ \A c \in Contents :
                 [f EXCEPT ![t].pc = pc, ![t].hash = c] \in [Transfers -> SenderRecs]
           /\ [f EXCEPT ![t].offset = @ + 1] \in [Transfers -> SenderRecs]
<1>1. [f EXCEPT ![t].pc = pc] \in [Transfers -> SenderRecs]
  BY DEF SenderRecs
<1>2. ASSUME NEW n \in Nat
      PROVE  [f EXCEPT ![t].pc = pc, ![t].size = n] \in [Transfers -> SenderRecs]
  BY DEF SenderRecs
<1>3. ASSUME NEW c \in Contents
      PROVE  [f EXCEPT ![t].pc = pc, ![t].hash = c] \in [Transfers -> SenderRecs]
  BY DEF SenderRecs
<1>4. [f EXCEPT ![t].offset = @ + 1] \in [Transfers -> SenderRecs]
  BY DEF SenderRecs
<1> QED
  BY <1>1, <1>2, <1>3, <1>4

\* The assignments to a receiver's session.
LEMMA ReceiverRecTypes ==
    ASSUME NEW f \in [Transfers -> ReceiverRecs], NEW t \in Transfers, NEW pc \in ReceiverPcs,
           NEW r \in ReceiverRecs
    PROVE  /\ [f EXCEPT ![t].pc = pc] \in [Transfers -> ReceiverRecs]
           /\ [f EXCEPT ![t] = r] \in [Transfers -> ReceiverRecs]
BY DEF ReceiverRecs

\* Steps of the sender and of its environment.  An offer is not sent before
\* the file is hashed.
LEMMA SenderTypes ==
    ASSUME TInv, NEW t \in Transfers,
           \/ Dial(t) \/ SendRefused(t) \/ SenderStep(t) \/ Cut(t) \/ \E c \in Contents : Edit(t, c)
    PROVE  TInv'
<1> USE DEF senderVars, receiverVars, SenderAt, Read, Write, Excuse
<1>1. /\ src[t] \in Contents /\ Len(src[t]) \in Nat
      /\ toS[t] \in Seq(Frames) /\ toR[t] \in Seq(Frames)
      /\ toS[t] # <<>> => Tail(toS[t]) \in Seq(Frames)
      /\ snd \in [Transfers -> SenderRecs] /\ rcv \in [Transfers -> ReceiverRecs]
  BY ContentIsFile, TailOf DEF TInv, TypeOK, SenderRecs, ReceiverRecs
<1>2. CASE Dial(t)
  <2>1. <<Frame("Hello")>> \in Seq(Frames)
    BY FrameTypes
  <2>2. rcv' \in [Transfers -> ReceiverRecs]
    BY <1>2, <1>1, ReceiverRecTypes DEF Dial, ReceiverPcs
  <2>3. snd' \in [Transfers -> SenderRecs]
    BY <1>1, <1>2, SenderRecTypes DEF Dial, SenderPcs
  <2>4. HasPart' /\ HasHash'
    BY <1>1, <1>2 DEF TInv, HasPart, HasHash, Dial, SenderRecs, ReceiverRecs
  <2>5. TypeOK'
    BY <1>1, <1>2, <2>1, <2>2, <2>3 DEF TInv, TypeOK, Dial, SenderRecs, ReceiverRecs
  <2> QED
    BY <2>4, <2>5 DEF TInv
<1>3. CASE SendRefused(t)
  <2>1. snd' \in [Transfers -> SenderRecs]
    BY <1>1, <1>3, SenderRecTypes DEF SendRefused, SenderPcs
  <2> QED
    BY <1>1, <1>3, <2>1 DEF TInv, TypeOK, HasPart, HasHash, SendRefused, SenderRecs
<1>4. CASE Stat(t)
  <2>1. snd' \in [Transfers -> SenderRecs]
    BY ZenonT(60), <1>1, <1>4, SenderRecTypes DEF Stat, SenderPcs
  <2> QED
    BY SMTT(30), <1>1, <1>4, <2>1 DEF TInv, TypeOK, HasPart, HasHash, Stat, SenderRecs
<1>5. CASE HashFile(t)
  <2>1. snd' \in [Transfers -> SenderRecs]
    BY <1>1, <1>5, SenderRecTypes DEF HashFile, SenderPcs
  <2> QED
    BY SMTT(30), <1>1, <1>5, <2>1 DEF TInv, TypeOK, HasPart, HasHash, HashFile, SenderRecs
<1>6. CASE SendHello(t)
  <2>1. Append(toR[t], Frame("Hello")) \in Seq(Frames)
    BY <1>1, FrameTypes
  <2>2. snd' \in [Transfers -> SenderRecs]
    BY <1>1, <1>6, SenderRecTypes DEF SendHello, SenderPcs
  <2> QED
    BY SMTT(30), <1>1, <1>6, <2>1, <2>2 DEF TInv, TypeOK, HasPart, HasHash, SendHello, SenderRecs
<1>7. CASE SendOffer(t)
  <2>1. Append(toR[t], [type |-> "Offer", size |-> snd[t].size, hash |-> snd[t].hash]) \in Seq(Frames)
    BY <1>1, <1>7, FrameTypes DEF SenderRecs, SendOffer, TInv, HasHash
  <2>2. snd' \in [Transfers -> SenderRecs]
    BY <1>1, <1>7, SenderRecTypes DEF SendOffer, SenderPcs
  <2> QED
    BY <1>1, <1>7, <2>1, <2>2 DEF TInv, TypeOK, HasPart, HasHash, SendOffer, SenderRecs
<1>8. CASE WrongPeer(t)
  <2>1. snd' \in [Transfers -> SenderRecs]
    BY <1>1, <1>8, SenderRecTypes DEF WrongPeer, SenderPcs
  <2> QED
    BY <1>1, <1>8, <2>1 DEF TInv, TypeOK, HasPart, HasHash, WrongPeer, SenderRecs
<1>9. CASE ReadAnswer(t)
  <2>1. PICK pc \in {"stream", "failed"} : snd' = [snd EXCEPT ![t].pc = pc]
    BY <1>9 DEF ReadAnswer
  <2>2. snd' \in [Transfers -> SenderRecs]
    BY <1>1, <2>1, SenderRecTypes DEF SenderPcs
  <2>3. /\ toS' = [toS EXCEPT ![t] = Tail(@)] /\ toS[t] # <<>>
        /\ UNCHANGED <<src, toR, versions, edits, cut, excused, faults, rcv, disk, part, enabled>>
    BY <1>9 DEF ReadAnswer
  <2>4. HasHash'
    BY <1>1, <2>1, <2>3 DEF TInv, HasHash, SenderRecs
  <2> QED
    BY <1>1, <2>2, <2>3, <2>4 DEF TInv, TypeOK, HasPart, SenderRecs
<1>10. CASE SenderEof(t)
  <2>1. snd' \in [Transfers -> SenderRecs]
    BY <1>1, <1>10, SenderRecTypes DEF SenderEof, SenderPcs
  <2> QED
    BY <1>1, <1>10, <2>1 DEF TInv, TypeOK, HasPart, HasHash, SenderEof, SenderRecs
<1>11. CASE SendChunk(t)
  <2>1. snd[t].offset \in Nat /\ snd[t].offset + 1 \in 1..Len(src[t])
    BY <1>1, <1>11 DEF SendChunk, SenderRecs
  <2>2. Append(toR[t], Chunk(snd[t].offset, src[t][snd[t].offset + 1])) \in Seq(Frames)
    BY <1>1, <2>1, FrameTypes, ContentIsFile
  <2>3. snd' \in [Transfers -> SenderRecs]
    BY <1>1, <1>11, SenderRecTypes DEF SendChunk, SenderPcs
  <2> QED
    BY <1>1, <1>11, <2>1, <2>2, <2>3 DEF TInv, TypeOK, HasPart, HasHash, SendChunk, SenderRecs
<1>12. CASE SendComplete(t)
  <2>1. Append(toR[t], Frame("Complete")) \in Seq(Frames)
    BY <1>1, FrameTypes
  <2>2. snd' \in [Transfers -> SenderRecs]
    BY <1>1, <1>12, SenderRecTypes DEF SendComplete, SenderPcs
  <2> QED
    BY <1>1, <1>12, <2>1, <2>2 DEF TInv, TypeOK, HasPart, HasHash, SendComplete, SenderRecs
<1>13. CASE WriteFails(t)
  <2>1. snd' \in [Transfers -> SenderRecs]
    BY <1>1, <1>13, SenderRecTypes DEF WriteFails, SenderPcs
  <2> QED
    BY <1>1, <1>13, <2>1 DEF TInv, TypeOK, HasPart, HasHash, WriteFails, SenderRecs
<1>14. CASE Cut(t)
  <2>1. \A s \in Seq(Frames) : \A n \in 0..Len(s) : SubSeq(s, 1, n) \in Seq(Frames)
    BY SubSeqProperties
  <2> QED
    BY SMTT(30), <1>1, <1>14, <2>1, FileAssumption DEF TInv, TypeOK, HasPart, HasHash, Cut
<1>15. CASE \E c \in Contents : Edit(t, c)
  <2>1. PICK c \in Contents : Edit(t, c)
    BY <1>15
  <2>2. /\ src' \in [Transfers -> Contents]
        /\ versions' \in [Transfers -> SUBSET Contents]
        /\ excused' \in [Transfers -> BOOLEAN]
        /\ edits' \in 0..MaxEdits
    BY <2>1, FileAssumption DEF TInv, TypeOK, Edit
  <2> QED
    BY <2>1, <2>2 DEF TInv, TypeOK, HasPart, HasHash, Edit
<1> QED
  BY <1>2, <1>3, <1>4, <1>5, <1>6, <1>7, <1>8, <1>9, <1>10, <1>11, <1>12, <1>13, <1>14, <1>15 DEF SenderStep

\* A session that fails takes its part file with it.
LEMMA FailTypes ==
    ASSUME TypeOK, HasPart, NEW t \in Transfers, SessionFails(t)
    PROVE  /\ rcv' \in [Transfers -> ReceiverRecs]
           /\ part' \in [PartFiles -> Files \cup {None}]
           /\ HasPart'
<1>1. rcv \in [Transfers -> ReceiverRecs]
  BY DEF TypeOK, ReceiverRecs
<1>2. rcv' \in [Transfers -> ReceiverRecs]
  BY <1>1, ReceiverRecTypes DEF SessionFails, ReceiverPcs
<1>3. part' \in [PartFiles -> Files \cup {None}]
  BY DEF TypeOK, SessionFails, DropPart
<1>4. HasPart'
  <2> SUFFICES ASSUME NEW u \in Transfers, rcv'[u].pc = "recv"
               PROVE  rcv'[u].path \in Paths /\ part'[PartPath(rcv'[u].path, u)] # None
    BY DEF HasPart
  <2>1. u # t /\ rcv'[u] = rcv[u]
    BY <1>1 DEF SessionFails, ReceiverRecs
  <2>2. rcv[u].path \in Paths /\ part[PartPath(rcv[u].path, u)] # None
    BY <2>1 DEF HasPart
  <2>3. part'[PartPath(rcv[u].path, u)] = part[PartPath(rcv[u].path, u)]
    BY <2>1, <2>2 DEF SessionFails, DropPart, TypeOK, PartPath, PartFiles
  <2> QED
    BY <2>1, <2>2, <2>3
<1> QED
  BY <1>2, <1>3, <1>4

\* A fault is counted.
LEMMA OneMoreFault ==
    ASSUME TInv, faults < MaxFaults, faults' = faults + 1
    PROVE  faults' \in 0..MaxFaults
BY FileAssumption DEF TInv, TypeOK

\* Steps of the receiver.
LEMMA ReceiverTypes ==
    ASSUME TInv, NEW t \in Transfers,
           ReceiverStep(t) \/ HelloTimeout(t) \/ FirstTimeout(t) \/ DiskFails(t)
    PROVE  TInv'
<1> USE DEF ReceiverAt, Take, SenderSame, Excuse, TInv
<1>1. /\ toS[t] \in Seq(Frames) /\ toR[t] \in Seq(Frames)
      /\ toR[t] # <<>> => Head(toR[t]) \in Frames /\ Tail(toR[t]) \in Seq(Frames)
      /\ rcv \in [Transfers -> ReceiverRecs]
      /\ part \in [PartFiles -> Files \cup {None}]
  BY TailOf DEF TypeOK, ReceiverRecs
<1>2. \A type \in {"Accept", "Reject", "Cancel"} : Append(toS[t], Frame(type)) \in Seq(Frames)
  BY <1>1, FrameTypes
<1>3. CASE ReadHello(t)
  <2>1. rcv' \in [Transfers -> ReceiverRecs]
    BY <1>1, <1>3, ReceiverRecTypes DEF ReadHello, ReceiverPcs
  <2> QED
    BY ZenonT(60), <1>1, <1>3, <2>1 DEF TypeOK, HasPart, HasHash, ReadHello, ReceiverRecs
<1>4. CASE HelloTimeout(t)
  <2>1. SessionFails(t) /\ faults' \in 0..MaxFaults
    <3>1. SessionFails(t)
      BY <1>4 DEF HelloTimeout
    <3> QED
      BY <1>4, <3>1, OneMoreFault DEF HelloTimeout
  <2>2. /\ excused' \in [Transfers -> BOOLEAN]
        /\ UNCHANGED <<toR, toS, disk, enabled, cut, src, snd, versions, edits>>
    BY <1>4 DEF HelloTimeout, SessionFails, TypeOK
  <2> QED
    BY <1>1, <2>1, <2>2, FailTypes DEF TypeOK, HasHash, ReceiverRecs
<1>5. CASE FirstTimeout(t)
  <2>1. rcv' \in [Transfers -> ReceiverRecs]
    BY <1>1, <1>5, ReceiverRecTypes DEF FirstTimeout, ReceiverPcs
  <2>2. faults' \in 0..MaxFaults
    BY <1>5, OneMoreFault DEF FirstTimeout
  <2>3. /\ excused' \in [Transfers -> BOOLEAN]
        /\ rcv' = [rcv EXCEPT ![t].pc = "control"]
        /\ UNCHANGED <<toR, toS, disk, part, enabled, cut, src, snd, versions, edits>>
    BY <1>5 DEF FirstTimeout, TypeOK
  <2>4. HasPart'
    BY <1>1, <2>3 DEF HasPart, PartPath, ReceiverRecs
  <2> QED
    BY <1>1, <2>1, <2>2, <2>3, <2>4 DEF TypeOK, HasHash, ReceiverRecs
<1>6. CASE ControlStep(t)
  <2>1. CASE toR[t] # <<>>
    BY <1>1, <1>6, <2>1 DEF TypeOK, HasPart, HasHash, ControlStep
  <2>2. CASE toR[t] = <<>>
    BY <1>1, <1>6, <2>2, FailTypes DEF TypeOK, HasHash, ControlStep, SessionFails, ReceiverRecs
  <2> QED
    BY <2>1, <2>2
<1>7. CASE AcceptOffer(t)
  <2> DEFINE p == FreePath(NameOf[t])
             r == [pc |-> "recv", path |-> p, size |-> Head(toR[t]).size, hash |-> Head(toR[t]).hash]
  <2>1. p \in Paths /\ NameOf[t] \in Names
    BY <1>7, FreePathIsPath, FileAssumption DEF AcceptOffer
  <2>2. r \in ReceiverRecs
    BY <1>1, <1>7, <2>1, FrameFields DEF AcceptOffer, ReceiverRecs, ReceiverPcs
  <2>3. /\ rcv' = [rcv EXCEPT ![t] = r]
        /\ part' = [part EXCEPT ![PartPath(p, t)] = <<>>]
        /\ toR' = [toR EXCEPT ![t] = Tail(@)] /\ toR[t] # <<>>
        /\ toS' = [toS EXCEPT ![t] = Append(@, Frame("Accept"))]
        /\ UNCHANGED <<disk, enabled, cut, excused, faults, src, snd, versions, edits>>
    BY <1>7 DEF AcceptOffer
  <2>4. r.pc = "recv" /\ r.path = p
    OBVIOUS
  <2> HIDE DEF r, p
  <2>5. rcv' \in [Transfers -> ReceiverRecs]
    BY <1>1, <2>2, <2>3
  <2>6. /\ <<>> \in Files /\ <<>> # None /\ PartPath(p, t) \in PartFiles
        /\ part' \in [PartFiles -> Files \cup {None}]
    <3>1. <<>> \in Files
      BY DEF Files
    <3>2. <<>> # None
      BY <3>1, FileAssumption
    <3>3. PartPath(p, t) \in PartFiles
      BY <2>1 DEF PartPath, PartFiles
    <3> QED
      BY <1>1, <2>3, <3>1, <3>2, <3>3
  <2>7. HasPart'
    <3> SUFFICES ASSUME NEW u \in Transfers, rcv'[u].pc = "recv"
                 PROVE  rcv'[u].path \in Paths /\ part'[PartPath(rcv'[u].path, u)] # None
      BY DEF HasPart
    <3>1. CASE u = t
      BY <1>1, <2>1, <2>3, <2>4, <2>6, <3>1
    <3>2. CASE u # t
      BY <1>1, <2>1, <2>3, <2>6, <3>2 DEF HasPart, PartPath, PartFiles
    <3> QED
      BY <3>1, <3>2
  <2> QED
    BY <1>1, <1>2, <2>3, <2>5, <2>6, <2>7 DEF TypeOK, HasHash, ReceiverRecs
<1>8. CASE RejectOffer(t)
  <2>1. excused' \in [Transfers -> BOOLEAN]
    BY <1>8 DEF RejectOffer, TypeOK
  <2>2. /\ toR' = [toR EXCEPT ![t] = Tail(@)] /\ toR[t] # <<>>
        /\ toS' = [toS EXCEPT ![t] = Append(@, Frame("Reject"))]
        /\ UNCHANGED <<disk, enabled, cut, faults, src, snd, versions, edits>>
        /\ SessionFails(t)
    BY <1>8 DEF RejectOffer, SessionFails
  <2> QED
    BY <1>1, <1>2, <2>1, <2>2, FailTypes DEF TypeOK, HasHash, ReceiverRecs
<1>9. CASE WriteChunk(t)
  <2> DEFINE f == PartPath(rcv[t].path, t)
  <2>1. /\ f \in PartFiles /\ part[f] \in Files /\ part[f] # None
        /\ Head(toR[t]).data \in Blocks
    BY <1>1, <1>9, FrameFields DEF WriteChunk, HasPart, PartPath, PartFiles
  <2>2. Append(part[f], Head(toR[t]).data) \in Files
    BY <2>1 DEF Files
  <2>3. /\ toR' = [toR EXCEPT ![t] = Tail(@)] /\ toR[t] # <<>>
        /\ UNCHANGED <<disk, enabled, cut, excused, faults, src, snd, versions, edits>>
        /\ \/ part' = [part EXCEPT ![f] = Append(@, Head(toR[t]).data)] /\ UNCHANGED <<rcv, toS>>
           \/ SessionFails(t) /\ toS' = [toS EXCEPT ![t] = Append(@, Frame("Cancel"))]
    BY <1>9 DEF WriteChunk, SessionFails
  <2> HIDE DEF f
  <2>4. CASE part' = [part EXCEPT ![f] = Append(@, Head(toR[t]).data)] /\ UNCHANGED <<rcv, toS>>
    <3>1. /\ part' \in [PartFiles -> Files \cup {None}]
          /\ \A g \in PartFiles : part[g] # None => part'[g] # None
      BY <1>1, <2>1, <2>2, <2>4, FileAssumption
    <3>2. HasPart'
      BY <2>4, <3>1 DEF HasPart, PartPath, PartFiles
    <3> QED
      BY <1>1, <2>3, <2>4, <3>1, <3>2 DEF TypeOK, HasHash
  <2>5. CASE SessionFails(t) /\ toS' = [toS EXCEPT ![t] = Append(@, Frame("Cancel"))]
    BY <1>1, <1>2, <2>3, <2>5, FailTypes DEF TypeOK, HasHash, ReceiverRecs
  <2> QED
    BY <2>3, <2>4, <2>5
<1>10. CASE FinishFile(t)
  <2> DEFINE f == PartPath(rcv[t].path, t)
  <2>1. /\ f \in PartFiles /\ part[f] \in Files /\ part[f] # None /\ rcv[t].path \in Paths
    BY <1>1, <1>10 DEF FinishFile, HasPart, PartPath, PartFiles
  <2>2. /\ toR' = [toR EXCEPT ![t] = Tail(@)] /\ toR[t] # <<>>
        /\ UNCHANGED <<toS, enabled, cut, excused, faults, src, snd, versions, edits>>
        /\ \/ /\ disk' = [disk EXCEPT ![rcv[t].path] = [data |-> part[f], owner |-> t]]
              /\ part' = [part EXCEPT ![f] = None]
              /\ rcv' = [rcv EXCEPT ![t].pc = "done"]
           \/ SessionFails(t) /\ disk' = disk
    BY <1>10 DEF FinishFile, SessionFails, Written
  <2>3. CASE /\ disk' = [disk EXCEPT ![rcv[t].path] = [data |-> part[f], owner |-> t]]
             /\ part' = [part EXCEPT ![f] = None]
             /\ rcv' = [rcv EXCEPT ![t].pc = "done"]
    <3>1. rcv' \in [Transfers -> ReceiverRecs]
      BY <1>1, <2>3, ReceiverRecTypes DEF ReceiverPcs
    <3>2. part' \in [PartFiles -> Files \cup {None}]
      BY <1>1, <2>3
    <3>3. disk' \in [Paths -> [data : Files, owner : Transfers \cup {None}] \cup {None}]
      BY <2>1, <2>3 DEF TypeOK
    <3>4. HasPart'
      <4> SUFFICES ASSUME NEW u \in Transfers, rcv'[u].pc = "recv"
                   PROVE  rcv'[u].path \in Paths /\ part'[PartPath(rcv'[u].path, u)] # None
        BY DEF HasPart
      <4>1. u # t /\ rcv'[u] = rcv[u]
        BY <1>1, <2>3 DEF ReceiverRecs
      <4> QED
        BY <1>1, <2>3, <4>1 DEF HasPart, PartPath, PartFiles
    <3> QED
      BY <1>1, <2>2, <3>1, <3>2, <3>3, <3>4 DEF TypeOK, HasHash, ReceiverRecs
  <2>4. CASE SessionFails(t) /\ disk' = disk
    BY <1>1, <2>2, <2>4, FailTypes DEF TypeOK, HasHash, ReceiverRecs
  <2> QED
    BY <2>2, <2>3, <2>4
<1>11. CASE DiskFails(t)
  <2>1. PICK answer \in Seq(Frames) : toR[t] # <<>> /\ toS' = [toS EXCEPT ![t] = @ \o answer]
    <3>1. <<Frame("Reject")>> \in Seq(Frames) /\ <<Frame("Cancel")>> \in Seq(Frames)
          /\ <<>> \in Seq(Frames)
      BY FrameTypes
    <3>2. PICK a \in {<<"first", "Offer", <<Frame("Reject")>> >>,
                      <<"recv", "Chunk", <<Frame("Cancel")>> >>,
                      <<"recv", "Complete", <<>> >>} :
              toR[t] # <<>> /\ toS' = [toS EXCEPT ![t] = @ \o a[3]]
      BY <1>11 DEF DiskFails
    <3>3. a[3] = <<Frame("Reject")>> \/ a[3] = <<Frame("Cancel")>> \/ a[3] = <<>>
      BY <3>2
    <3>4. a[3] \in Seq(Frames)
      BY <3>1, <3>3
    <3> QED
      BY <3>2, <3>4
  <2>2. toS[t] \o answer \in Seq(Frames)
    BY <1>1
  <2>3. SessionFails(t) /\ faults' \in 0..MaxFaults
    <3>1. SessionFails(t)
      BY <1>11 DEF DiskFails
    <3> QED
      BY <1>11, <3>1, OneMoreFault DEF DiskFails
  <2>4. /\ toR' = [toR EXCEPT ![t] = Tail(@)]
        /\ excused' \in [Transfers -> BOOLEAN]
        /\ UNCHANGED <<disk, enabled, cut, src, snd, versions, edits>>
    BY <1>11 DEF DiskFails, SessionFails, TypeOK
  <2> QED
    BY <1>1, <2>1, <2>2, <2>3, <2>4, FailTypes DEF TypeOK, HasHash, ReceiverRecs
<1>12. CASE ReceiverEof(t)
  BY <1>1, <1>12, FailTypes DEF TypeOK, HasHash, ReceiverEof, SessionFails, ReceiverRecs
<1> QED
  BY <1>3, <1>4, <1>5, <1>6, <1>7, <1>8, <1>9, <1>10, <1>11, <1>12 DEF ReceiverStep

\* Steps that are not of one transfer.
LEMMA GlobalTypes ==
    ASSUME TInv, SetReceiveDir \/ Kill
    PROVE  TInv'
<1>1. CASE SetReceiveDir
  BY <1>1 DEF TInv, TypeOK, HasPart, HasHash, SetReceiveDir, senderVars
<1>2. CASE Kill
  <2>1. rcv \in [Transfers -> ReceiverRecs]
    BY DEF TInv, TypeOK, ReceiverRecs
  <2>2. \A t \in Transfers : rcv'[t] = rcv[t] \/ rcv'[t] = [rcv[t] EXCEPT !.pc = "killed"]
    BY <1>2 DEF Kill
  <2>3. rcv' \in [Transfers -> ReceiverRecs]
    <3>1. \A t \in Transfers : [rcv[t] EXCEPT !.pc = "killed"] \in ReceiverRecs
      BY <2>1 DEF ReceiverRecs, ReceiverPcs
    <3> QED
      BY <1>2, <2>1, <3>1 DEF Kill
  <2>4. HasPart'
    BY <1>2, <2>1, <2>2 DEF TInv, HasPart, Kill, PartPath, ReceiverRecs
  <2>5. excused' \in [Transfers -> BOOLEAN]
    BY <1>2 DEF Kill
  <2> QED
    BY <1>2, <2>3, <2>4, <2>5, FileAssumption
       DEF TInv, TypeOK, HasHash, Kill, senderVars, ReceiverRecs
<1> QED
  BY <1>1, <1>2

LEMMA TInvStep ==
    ASSUME TInv, [Next]_vars
    PROVE  TInv'
<1>1. CASE UNCHANGED vars
  BY <1>1 DEF TInv, TypeOK, HasPart, HasHash, vars, senderVars, receiverVars, PartPath
<1> QED
  BY <1>1, SenderTypes, ReceiverTypes, GlobalTypes DEF Next

LEMMA TInvInit ==
    ASSUME Init
    PROVE  TInv
<1>1. <<>> \in Files /\ <<>> \in Seq(Frames)
  BY DEF Files
<1>2. disk \in [Paths -> [data : Files, owner : Transfers \cup {None}] \cup {None}]
  BY <1>1 DEF Init
<1>3. \A t \in Transfers : snd[t] \in SenderRecs /\ rcv[t] \in ReceiverRecs
  BY DEF Init, SenderRecs, ReceiverRecs, SenderPcs, ReceiverPcs
<1>4. snd \in [Transfers -> SenderRecs] /\ rcv \in [Transfers -> ReceiverRecs]
  BY <1>3 DEF Init
<1>5. src \in [Transfers -> Contents] /\ versions \in [Transfers -> SUBSET Contents]
  BY FileAssumption DEF Init
<1>6. edits \in 0..MaxEdits /\ faults \in 0..MaxFaults
  BY FileAssumption DEF Init
<1>7. HasPart /\ HasHash
  BY DEF Init, HasPart, HasHash
<1>8. part \in [PartFiles -> Files \cup {None}]
  BY DEF Init
<1> QED
  BY <1>1, <1>2, <1>4, <1>5, <1>6, <1>7, <1>8 DEF Init, TInv, TypeOK, SenderRecs, ReceiverRecs

-----------------------------------------------------------------------------
(* One transfer does not touch another *)

Untouched(u) ==
    /\ snd'[u] = snd[u] /\ rcv'[u] = rcv[u] /\ toR'[u] = toR[u] /\ toS'[u] = toS[u]
    /\ src'[u] = src[u] /\ versions'[u] = versions[u]
    /\ cut'[u] = cut[u] /\ excused'[u] = excused[u]
    /\ \A p \in Paths : part'[<<p, u>>] = part[<<p, u>>]

LEMMA FailIsLocal ==
    ASSUME TInv, NEW t \in Transfers, SessionFails(t), NEW u \in Transfers, u # t
    PROVE  rcv'[u] = rcv[u] /\ \A p \in Paths : part'[<<p, u>>] = part[<<p, u>>]
BY DEF TInv, TypeOK, SessionFails, DropPart, PartPath, PartFiles

LEMMA Locality ==
    ASSUME TInv, NEW t \in Transfers, TransferStep(t), NEW u \in Transfers, u # t
    PROVE  Untouched(u)
<1> USE DEF TInv, TypeOK, senderVars, receiverVars, Excuse, SenderSame, Take, Read, Write
<1>1. CASE Dial(t)
  BY <1>1 DEF Dial, Untouched
<1>2. CASE SendRefused(t)
  BY <1>2 DEF SendRefused, Untouched
<1>3. CASE Stat(t) \/ HashFile(t) \/ SendHello(t)
  BY <1>3 DEF Stat, HashFile, SendHello, Untouched
<1>4. CASE SendOffer(t) \/ WrongPeer(t)
  BY <1>4 DEF SendOffer, WrongPeer, Untouched
<1>5. CASE ReadAnswer(t)
  BY <1>5 DEF ReadAnswer, Untouched
<1>6. CASE SenderEof(t) \/ WriteFails(t)
  BY <1>6 DEF SenderEof, WriteFails, Untouched
<1>7. CASE SendChunk(t) \/ SendComplete(t)
  BY <1>7 DEF SendChunk, SendComplete, Untouched
<1>8. CASE ReadHello(t)
  BY <1>8 DEF ReadHello, Untouched
<1>9. CASE ControlStep(t)
  <2>1. CASE toR[t] # <<>>
    BY <1>9, <2>1 DEF ControlStep, Untouched
  <2>2. CASE toR[t] = <<>>
    <3>1. SessionFails(t)
      BY <1>9, <2>2 DEF ControlStep
    <3> QED
      BY <1>9, <2>2, <3>1, FailIsLocal DEF ControlStep, Untouched
  <2> QED
    BY <2>1, <2>2
<1>10. CASE AcceptOffer(t)
  BY <1>10 DEF AcceptOffer, Untouched, PartPath, PartFiles
<1>11. CASE RejectOffer(t)
  <2>1. SessionFails(t)
    BY <1>11 DEF RejectOffer
  <2>2. excused'[u] = excused[u]
    BY <1>11 DEF RejectOffer
  <2> QED
    BY <1>11, <2>1, <2>2, FailIsLocal DEF RejectOffer, Untouched
<1>12. CASE WriteChunk(t)
  <2>1. /\ UNCHANGED <<cut, excused, src, snd, versions>>
        /\ toR'[u] = toR[u] /\ toS'[u] = toS[u]
        /\ \/ SessionFails(t)
           \/ /\ rcv' = rcv
              /\ \E b : part' = [part EXCEPT ![PartPath(rcv[t].path, t)] = b]
    BY <1>12 DEF WriteChunk
  <2> QED
    BY <2>1, FailIsLocal DEF Untouched, PartPath, PartFiles
<1>13. CASE FinishFile(t)
  <2>1. /\ UNCHANGED <<cut, excused, src, snd, versions>>
        /\ toR'[u] = toR[u] /\ toS'[u] = toS[u]
        /\ \/ SessionFails(t)
           \/ /\ rcv' = [rcv EXCEPT ![t].pc = "done"]
              /\ part' = [part EXCEPT ![PartPath(rcv[t].path, t)] = None]
    BY <1>13 DEF FinishFile
  <2> QED
    BY <2>1, FailIsLocal DEF Untouched, PartPath, PartFiles
<1>14. CASE ReceiverEof(t)
  <2>1. SessionFails(t)
    BY <1>14 DEF ReceiverEof
  <2> QED
    BY <1>14, <2>1, FailIsLocal DEF ReceiverEof, Untouched
<1>15. CASE HelloTimeout(t)
  <2>1. SessionFails(t)
    BY <1>15 DEF HelloTimeout
  <2> QED
    BY <1>15, <2>1, FailIsLocal DEF HelloTimeout, Untouched
<1>16. CASE FirstTimeout(t)
  BY <1>16 DEF FirstTimeout, Untouched
<1>17. CASE DiskFails(t)
  <2>1. SessionFails(t)
    BY <1>17 DEF DiskFails
  <2>2. toS'[u] = toS[u]
    BY <1>17 DEF DiskFails
  <2>3. /\ UNCHANGED <<cut, src, snd, versions>>
        /\ toR'[u] = toR[u] /\ excused'[u] = excused[u]
    BY <1>17 DEF DiskFails
  <2> QED
    BY <2>1, <2>2, <2>3, FailIsLocal DEF Untouched
<1>18. CASE Cut(t)
  BY <1>18 DEF Cut, Untouched
<1>19. CASE \E c \in Contents : Edit(t, c)
  BY <1>19 DEF Edit, Untouched
<1> QED
  BY <1>1, <1>2, <1>3, <1>4, <1>5, <1>6, <1>7, <1>8, <1>9, <1>10, <1>11, <1>12, <1>13, <1>14,
     <1>15, <1>16, <1>17, <1>18, <1>19 DEF TransferStep, SenderStep, ReceiverStep

-----------------------------------------------------------------------------
(* Part files *)

\* NoOrphanPart, file by file: the part file of a transfer is where its own
\* session says.
OwnPart(t) ==
    \A p \in Paths : part[<<p, t>>] # None =>
        rcv[t].pc \in {"recv", "killed"} /\ rcv[t].path = p

LEMMA OrphanIsOwn ==
    ASSUME NoOrphanPart, NEW t \in Transfers
    PROVE  OwnPart(t)
<1> SUFFICES ASSUME NEW p \in Paths, part[<<p, t>>] # None
             PROVE  rcv[t].pc \in {"recv", "killed"} /\ rcv[t].path = p
  BY DEF OwnPart
<1>1. PICK u \in Transfers : rcv[u].pc \in {"recv", "killed"} /\ <<p, t>> = PartPath(rcv[u].path, u)
  BY DEF NoOrphanPart, PartFiles
<1> QED
  BY <1>1 DEF PartPath

\* A session that fails or finishes was the only holder of its part file.
LEMMA DropKeepsOwn ==
    ASSUME TInv, NEW t \in Transfers, OwnPart(t), rcv[t].pc # "killed",
           DropPart(t) \/ (/\ rcv[t].pc = "recv"
                           /\ part' = [part EXCEPT ![PartPath(rcv[t].path, t)] = None])
    PROVE  OwnPart(t)'
BY ZenonT(60) DEF TInv, TypeOK, HasPart, OwnPart, DropPart, PartPath, PartFiles

LEMMA OwnPartStep ==
    ASSUME TInv, IdleInv, NEW t \in Transfers, TransferStep(t), OwnPart(t)
    PROVE  OwnPart(t)'
<1> USE DEF senderVars, receiverVars, SenderSame
<1>1. ASSUME UNCHANGED part, rcv'[t] = rcv[t] \/ rcv[t].pc \notin {"recv", "killed"}
      PROVE  OwnPart(t)'
  BY <1>1 DEF OwnPart
<1>2. ASSUME SessionFails(t), rcv[t].pc # "killed"
      PROVE  OwnPart(t)'
  BY <1>2, DropKeepsOwn DEF SessionFails
<1>3. CASE Dial(t) \/ FirstTimeout(t) \/ ReadHello(t)
  BY <1>1, <1>3 DEF Dial, FirstTimeout, ReadHello, ReceiverAt, IdleInv, SenderAt
<1>4. CASE SendRefused(t) \/ SenderStep(t) \/ Cut(t) \/ \E c \in Contents : Edit(t, c)
  <2>1. UNCHANGED <<part, rcv>>
    BY <1>4 DEF SendRefused, SenderStep, Stat, HashFile, SendHello, SendOffer, WrongPeer,
                ReadAnswer, SenderEof, SendChunk, SendComplete, WriteFails, Cut, Edit, Read
  <2> QED
    BY <1>1, <2>1
<1>5. CASE ControlStep(t)
  <2>1. CASE toR[t] # <<>>
    BY <1>1, <1>5, <2>1 DEF ControlStep
  <2>2. CASE toR[t] = <<>>
    BY <1>2, <1>5, <2>2 DEF ControlStep
  <2> QED
    BY <2>1, <2>2
<1>6. CASE RejectOffer(t) \/ ReceiverEof(t) \/ HelloTimeout(t)
  BY <1>2, <1>6 DEF RejectOffer, ReceiverEof, HelloTimeout, ReceiverAt
<1>7. CASE DiskFails(t)
  <2>1. SessionFails(t)
    BY <1>7 DEF DiskFails
  <2>2. rcv[t].pc \in {"first", "recv"}
    BY <1>7 DEF DiskFails, ReceiverAt
  <2> QED
    BY <1>2, <2>1, <2>2
<1>8. CASE AcceptOffer(t)
  <2>1. rcv[t].pc = "first"
    BY <1>8 DEF AcceptOffer, ReceiverAt
  <2>2. \A p \in Paths : part[<<p, t>>] = None
    BY <2>1 DEF OwnPart
  <2> DEFINE q == FreePath(NameOf[t])
  <2>3. /\ part' = [part EXCEPT ![<<q, t>>] = <<>>]
        /\ rcv' = [rcv EXCEPT ![t] = [pc |-> "recv", path |-> q,
                       size |-> Head(toR[t]).size, hash |-> Head(toR[t]).hash]]
    BY <1>8 DEF AcceptOffer, PartPath
  <2> HIDE DEF q
  <2>4. /\ rcv'[t].pc = "recv" /\ rcv'[t].path = q
        /\ \A p \in Paths : p # q => part'[<<p, t>>] = None
    BY <2>2, <2>3 DEF TInv, TypeOK, PartFiles
  <2> QED
    BY <2>4 DEF OwnPart
<1>9. CASE WriteChunk(t)
  <2>1. /\ rcv[t].pc = "recv"
        /\ \/ SessionFails(t)
           \/ /\ rcv' = rcv
              /\ \E b : part' = [part EXCEPT ![PartPath(rcv[t].path, t)] = b]
    BY <1>9 DEF WriteChunk, ReceiverAt
  <2>2. CASE SessionFails(t)
    BY <1>2, <2>1, <2>2
  <2>3. CASE /\ rcv' = rcv
             /\ \E b : part' = [part EXCEPT ![PartPath(rcv[t].path, t)] = b]
    <3>1. \A p \in Paths : p # rcv[t].path => part'[<<p, t>>] = part[<<p, t>>]
      BY <2>3 DEF PartPath, TInv, TypeOK, PartFiles
    <3> QED
      BY <2>1, <2>3, <3>1 DEF OwnPart
  <2> QED
    BY <2>1, <2>2, <2>3
<1>10. CASE FinishFile(t)
  <2>1. /\ rcv[t].pc = "recv"
        /\ \/ SessionFails(t)
           \/ part' = [part EXCEPT ![PartPath(rcv[t].path, t)] = None]
    BY <1>10 DEF FinishFile, ReceiverAt
  <2> QED
    BY <1>2, <2>1, DropKeepsOwn
<1> QED
  BY <1>3, <1>4, <1>5, <1>6, <1>7, <1>8, <1>9, <1>10 DEF TransferStep, ReceiverStep

\* Only a killed process leaves a part file behind.
LEMMA OrphanStep ==
    ASSUME TInv, IdleInv, NoOrphanPart, [Next]_vars
    PROVE  NoOrphanPart'
<1>1. \A t \in Transfers : OwnPart(t)
  BY OrphanIsOwn
<1>2. CASE \E t \in Transfers : TransferStep(t)
  <2>1. PICK t \in Transfers : TransferStep(t)
    BY <1>2
  <2>2. ASSUME NEW u \in Transfers, u # t
        PROVE  OwnPart(u)'
    BY <1>1, <2>1, <2>2, Locality DEF Untouched, OwnPart
  <2>3. (\A u \in Transfers : OwnPart(u))'
    BY <1>1, <2>1, <2>2, OwnPartStep
  <2>4. ASSUME NEW f \in PartFiles, part'[f] # None
        PROVE  \E u \in Transfers : rcv'[u].pc \in {"recv", "killed"} /\ f = PartPath(rcv'[u].path, u)
    <3>1. f[1] \in Paths /\ f[2] \in Transfers /\ f = <<f[1], f[2]>>
      BY DEF PartFiles
    <3>2. rcv'[f[2]].pc \in {"recv", "killed"} /\ rcv'[f[2]].path = f[1]
      BY <2>3, <2>4, <3>1 DEF OwnPart
    <3> QED
      BY <3>1, <3>2 DEF PartPath
  <2> QED
    BY <2>4 DEF NoOrphanPart
<1>3. CASE Kill
  <2>1. part' = part /\ \A t \in Transfers : rcv[t].pc \in {"recv", "killed"} =>
            rcv'[t].pc = "killed" /\ rcv'[t].path = rcv[t].path
    BY <1>3 DEF Kill, TInv, TypeOK
  <2> QED
    BY <2>1 DEF NoOrphanPart, PartPath
<1>4. CASE SetReceiveDir \/ UNCHANGED vars
  BY <1>4 DEF SetReceiveDir, vars, senderVars, receiverVars, NoOrphanPart, PartPath
<1> QED
  BY <1>2, <1>3, <1>4 DEF Next, TransferStep

LEMMA IdleStep ==
    ASSUME TInv, IdleInv, [Next]_vars
    PROVE  IdleInv'
<1>1. CASE \E t \in Transfers : TransferStep(t)
  <2>1. PICK t \in Transfers : TransferStep(t)
    BY <1>1
  <2>2. snd \in [Transfers -> SenderRecs] /\ rcv \in [Transfers -> ReceiverRecs]
    BY DEF TInv, TypeOK, SenderRecs, ReceiverRecs
  <2>3. CASE Dial(t) \/ SendRefused(t) \/ SenderStep(t) \/ Cut(t) \/ \E c \in Contents : Edit(t, c)
    <3>1. snd'[t].pc # "idle" \/ UNCHANGED <<snd, rcv>>
      BY <2>2, <2>3 DEF Dial, SendRefused, SenderStep, Stat, HashFile, SendHello, SendOffer,
           WrongPeer, ReadAnswer, SenderEof, SendChunk, SendComplete, WriteFails, Cut, Edit, Write,
           SenderAt, SenderRecs, senderVars, receiverVars
    <3> QED
      BY <2>1, <3>1, Locality DEF Untouched, IdleInv
  <2>4. CASE ReceiverStep(t) \/ HelloTimeout(t) \/ FirstTimeout(t) \/ DiskFails(t)
    <3>1. rcv[t].pc # "none" /\ snd' = snd
      BY <2>4 DEF ReceiverStep, HelloTimeout, FirstTimeout, DiskFails, ReadHello, ControlStep,
           AcceptOffer, RejectOffer, WriteChunk, FinishFile, ReceiverEof, ReceiverAt, SenderSame
    <3> QED
      BY <2>1, <3>1, Locality DEF Untouched, IdleInv
  <2> QED
    BY <2>1, <2>3, <2>4 DEF TransferStep
<1>2. CASE Kill
  BY <1>2 DEF Kill, IdleInv, senderVars
<1>3. CASE SetReceiveDir \/ UNCHANGED vars
  BY <1>3 DEF SetReceiveDir, vars, senderVars, receiverVars, IdleInv
<1> QED
  BY <1>1, <1>2, <1>3 DEF Next, TransferStep

-----------------------------------------------------------------------------
(* No torn file *)

\* Reading, losing and sending frames keeps the offers honest.
LEMMA HonestFrames ==
    ASSUME NEW V, NEW s \in Seq(Frames), Honest(s, V)
    PROVE  /\ s # <<>> => /\ Honest(Tail(s), V)
                          /\ Head(s).type = "Offer" => Head(s).hash \in V
           /\ \A n \in 0..Len(s) : Honest(SubSeq(s, 1, n), V)
           /\ \A f \in Frames : (f.type = "Offer" => f.hash \in V) => Honest(Append(s, f), V)
<1>1. ASSUME s # <<>>
      PROVE  Honest(Tail(s), V) /\ (Head(s).type = "Offer" => Head(s).hash \in V)
  BY <1>1, TailOf DEF Honest
<1>2. ASSUME NEW n \in 0..Len(s)
      PROVE  Honest(SubSeq(s, 1, n), V)
  BY <1>2, SubSeqProperties DEF Honest
<1>3. ASSUME NEW f \in Frames, f.type = "Offer" => f.hash \in V
      PROVE  Honest(Append(s, f), V)
  BY <1>3 DEF Honest
<1> QED
  BY <1>1, <1>2, <1>3

\* Steps of the sender and of its environment: an offer carries the hash of
\* what the file held when it was hashed.
LEMMA SenderHashes ==
    ASSUME TInv, IdleInv, NEW t \in Transfers, HashesAreOurs(t),
           \/ Dial(t) \/ SendRefused(t) \/ SenderStep(t) \/ Cut(t) \/ \E c \in Contents : Edit(t, c)
    PROVE  HashesAreOurs(t)'
<1> USE DEF senderVars, receiverVars, SenderAt, Read, Write
<1>1. /\ toR[t] \in Seq(Frames) /\ toR \in [Transfers -> Seq(Frames)]
      /\ snd \in [Transfers -> SenderRecs] /\ rcv \in [Transfers -> ReceiverRecs]
      /\ src \in [Transfers -> Contents] /\ versions \in [Transfers -> SUBSET Contents]
  BY DEF TInv, TypeOK, SenderRecs, ReceiverRecs
<1>2. ASSUME UNCHANGED <<src, versions, toR>>, rcv'[t] = rcv[t],
             snd'[t].pc \in {"hello", "peer"} => snd'[t].hash \in versions[t]
      PROVE  HashesAreOurs(t)'
  BY <1>2 DEF HashesAreOurs
<1>3. ASSUME NEW f \in Frames, f.type = "Offer" => f.hash \in versions[t],
             toR' = [toR EXCEPT ![t] = Append(@, f)], UNCHANGED <<src, versions>>, rcv' = rcv,
             snd'[t].pc \in {"hello", "peer"} => snd'[t].hash \in versions[t]
      PROVE  HashesAreOurs(t)'
  <2>1. toR'[t] = Append(toR[t], f)
    BY <1>1, <1>3
  <2>2. Honest(toR'[t], versions[t])
    BY <1>1, <1>3, <2>1, HonestFrames DEF HashesAreOurs
  <2> QED
    BY <1>3, <2>2 DEF HashesAreOurs
<1>4. CASE Dial(t)
  <2>1. UNCHANGED <<src, versions, toR>> /\ snd'[t].pc = "stat" /\ rcv'[t].pc = "hello"
    BY <1>1, <1>4 DEF Dial, SenderRecs, ReceiverRecs
  <2> QED
    BY <2>1 DEF HashesAreOurs
<1>5. CASE SendRefused(t) \/ Stat(t) \/ HashFile(t)
  BY <1>1, <1>2, <1>5 DEF SendRefused, Stat, HashFile, SenderRecs, HashesAreOurs
<1>6. CASE WrongPeer(t) \/ SenderEof(t) \/ WriteFails(t)
  BY <1>1, <1>2, <1>6 DEF WrongPeer, SenderEof, WriteFails, SenderRecs
<1>7. CASE ReadAnswer(t)
  <2>1. UNCHANGED <<src, versions, toR, rcv>> /\ snd'[t].pc \in {"stream", "failed"}
    BY <1>1, <1>7 DEF ReadAnswer, SenderRecs
  <2> QED
    BY <1>2, <2>1
<1>8. CASE SendHello(t)
  <2>1. Frame("Hello") \in Frames /\ Frame("Hello").type # "Offer"
    BY FrameTypes DEF Frame
  <2>2. /\ toR' = [toR EXCEPT ![t] = Append(@, Frame("Hello"))]
        /\ UNCHANGED <<src, versions>> /\ rcv' = rcv
        /\ snd[t].pc = "hello" /\ snd'[t].hash = snd[t].hash
    BY <1>1, <1>8 DEF SendHello, SenderRecs
  <2> QED
    BY <1>3, <2>1, <2>2 DEF HashesAreOurs
<1>9. CASE SendOffer(t)
  <2> DEFINE f == [type |-> "Offer", size |-> snd[t].size, hash |-> snd[t].hash]
  <2>1. snd[t].hash \in versions[t] /\ snd[t].hash \in Contents /\ snd[t].size \in Nat
    BY <1>1, <1>9 DEF SendOffer, HashesAreOurs, SenderRecs
  <2>2. f \in Frames /\ f.type = "Offer" /\ f.hash = snd[t].hash
    BY <2>1, FrameTypes
  <2>3. /\ toR' = [toR EXCEPT ![t] = Append(@, f)]
        /\ UNCHANGED <<src, versions>> /\ rcv' = rcv /\ snd'[t].pc = "accept"
    BY <1>1, <1>9 DEF SendOffer, SenderRecs
  <2> HIDE DEF f
  <2> QED
    BY <1>3, <2>1, <2>2, <2>3
<1>10. CASE SendChunk(t)
  <2> DEFINE f == Chunk(snd[t].offset, src[t][snd[t].offset + 1])
  <2>1. snd[t].offset \in Nat /\ snd[t].offset + 1 \in 1..Len(src[t]) /\ src[t] \in Contents
    BY <1>1, <1>10, ContentIsFile DEF SendChunk, SenderRecs
  <2>2. f \in Frames
    BY <2>1, FrameTypes, ContentIsFile
  <2>3. f.type # "Offer"
    BY DEF Chunk
  <2>4. /\ toR' = [toR EXCEPT ![t] = Append(@, f)]
        /\ UNCHANGED <<src, versions>> /\ rcv' = rcv /\ snd'[t].pc = "stream"
    BY <1>1, <1>10 DEF SendChunk, SenderRecs
  <2> HIDE DEF f
  <2> QED
    BY <1>3, <2>2, <2>3, <2>4
<1>11. CASE SendComplete(t)
  <2>1. Frame("Complete") \in Frames /\ Frame("Complete").type # "Offer"
    BY FrameTypes DEF Frame
  <2>2. /\ toR' = [toR EXCEPT ![t] = Append(@, Frame("Complete"))]
        /\ UNCHANGED <<src, versions>> /\ rcv' = rcv /\ snd'[t].pc = "sent"
    BY <1>1, <1>11 DEF SendComplete, SenderRecs
  <2> QED
    BY <1>3, <2>1, <2>2
<1>12. CASE Cut(t)
  <2>1. PICK n \in 0..Len(toR[t]) : toR' = [toR EXCEPT ![t] = SubSeq(@, 1, n)]
    BY <1>12 DEF Cut
  <2>2. Honest(toR'[t], versions[t])
    BY <1>1, <2>1, HonestFrames DEF HashesAreOurs
  <2> QED
    BY <1>12, <2>2 DEF Cut, HashesAreOurs
<1>13. CASE \E c \in Contents : Edit(t, c)
  <2>1. PICK c \in Contents : Edit(t, c)
    BY <1>13
  <2>2. src'[t] = c /\ versions'[t] = versions[t] \cup {c} /\ UNCHANGED <<snd, toR, rcv>>
    BY <1>1, <2>1 DEF Edit
  <2> QED
    BY <2>2 DEF HashesAreOurs, Honest
<1> QED
  BY <1>4, <1>5, <1>6, <1>7, <1>8, <1>9, <1>10, <1>11, <1>12, <1>13 DEF SenderStep

\* Steps of the receiver: it takes the hash from an offer.
LEMMA ReceiverHashes ==
    ASSUME TInv, NEW t \in Transfers, HashesAreOurs(t),
           ReceiverStep(t) \/ HelloTimeout(t) \/ FirstTimeout(t) \/ DiskFails(t)
    PROVE  HashesAreOurs(t)'
<1> USE DEF ReceiverAt, Take, SenderSame
<1>1. /\ toR[t] \in Seq(Frames) /\ toR \in [Transfers -> Seq(Frames)]
      /\ rcv \in [Transfers -> ReceiverRecs]
  BY DEF TInv, TypeOK, ReceiverRecs
<1>2. SenderSame /\ (toR' = toR \/ (Take(t) /\ toR[t] # <<>>))
  BY DEF ReceiverStep, HelloTimeout, FirstTimeout, DiskFails, ReadHello, ControlStep,
         AcceptOffer, RejectOffer, WriteChunk, FinishFile, ReceiverEof
<1>3. Honest(toR'[t], versions[t])
  <2>1. Honest(toR[t], versions[t])
    BY DEF HashesAreOurs
  <2>2. CASE toR[t] # <<>> /\ toR'[t] = Tail(toR[t])
    <3>1. Honest(Tail(toR[t]), versions[t])
      BY <1>1, <2>1, <2>2, HonestFrames
    <3> QED
      BY <2>2, <3>1
  <2> QED
    BY <1>1, <1>2, <2>1, <2>2
<1>4. ASSUME rcv'[t].pc = "recv" => rcv'[t].hash \in versions[t]
      PROVE  HashesAreOurs(t)'
  BY <1>2, <1>3, <1>4 DEF HashesAreOurs
<1>5. CASE AcceptOffer(t)
  <2>1. rcv'[t].hash = Head(toR[t]).hash /\ toR[t] # <<>> /\ Head(toR[t]).type = "Offer"
    BY <1>1, <1>5 DEF AcceptOffer
  <2> QED
    BY <1>1, <1>4, <2>1, HonestFrames DEF HashesAreOurs
<1>6. ASSUME rcv' = rcv \/ \E pc \in {"first", "control", "done", "failed"} :
                               rcv' = [rcv EXCEPT ![t].pc = pc]
      PROVE  HashesAreOurs(t)'
  BY <1>1, <1>4, <1>6 DEF HashesAreOurs, ReceiverRecs
<1>7. CASE ~AcceptOffer(t)
  <2>1. rcv' = rcv \/ \E pc \in {"first", "control", "done", "failed"} :
                          rcv' = [rcv EXCEPT ![t].pc = pc]
    BY <1>7 DEF ReceiverStep, HelloTimeout, FirstTimeout, DiskFails, ReadHello, ControlStep,
         RejectOffer, WriteChunk, FinishFile, ReceiverEof, SessionFails
  <2> QED
    BY <1>6, <2>1
<1> QED
  BY <1>5, <1>7

LEMMA HashStep ==
    ASSUME TInv, IdleInv, HashInv, [Next]_vars
    PROVE  HashInv'
<1>1. CASE \E t \in Transfers : TransferStep(t)
  <2>1. PICK t \in Transfers : TransferStep(t)
    BY <1>1
  <2>2. HashesAreOurs(t)'
    BY <2>1, SenderHashes, ReceiverHashes DEF TransferStep, HashInv
  <2>3. ASSUME NEW u \in Transfers, u # t
        PROVE  HashesAreOurs(u)'
    BY <2>1, <2>3, Locality DEF Untouched, HashInv, HashesAreOurs
  <2> QED
    BY <2>2, <2>3 DEF HashInv
<1>2. CASE Kill
  <2>1. \A t \in Transfers : rcv'[t] = rcv[t] \/ rcv'[t].pc = "killed"
    BY <1>2 DEF Kill, TInv, TypeOK
  <2> QED
    BY <1>2, <2>1 DEF Kill, senderVars, HashInv, HashesAreOurs
<1>3. CASE SetReceiveDir \/ UNCHANGED vars
  BY SMTT(30), <1>3 DEF SetReceiveDir, vars, senderVars, receiverVars, HashInv, HashesAreOurs
<1> QED
  BY <1>1, <1>2, <1>3 DEF Next, TransferStep

\* What the history holds stays in it.
LEMMA VersionsGrow ==
    ASSUME TInv, [Next]_vars, NEW u \in Transfers
    PROVE  versions[u] \subseteq versions'[u]
<1>1. CASE UNCHANGED versions
  BY <1>1
<1>2. CASE \E t \in Transfers, c \in Contents : Edit(t, c)
  BY <1>2 DEF Edit, TInv, TypeOK
<1> QED
  BY ZenonT(60), <1>1, <1>2 DEF Next, vars, senderVars, SetReceiveDir, Kill, Dial, SendRefused, SenderStep,
     Stat, HashFile, SendHello, SendOffer, WrongPeer, ReadAnswer, SenderEof, SendChunk,
     SendComplete, WriteFails, Cut, ReceiverStep, HelloTimeout, FirstTimeout, DiskFails, ReadHello,
     ControlStep, AcceptOffer, RejectOffer, WriteChunk, FinishFile, ReceiverEof, SenderSame

\* A file appears in the receive directory when it is verified.
LEMMA TornStep ==
    ASSUME TInv, HashInv, NoTornFile, [Next]_vars
    PROVE  NoTornFile'
<1>1. CASE UNCHANGED disk
  <2> SUFFICES ASSUME NEW p \in Paths, disk[p] # None, disk[p].owner # None
               PROVE  disk[p].data \in versions'[disk[p].owner]
    BY <1>1 DEF NoTornFile
  <2>1. disk[p].owner \in Transfers /\ disk[p].data \in versions[disk[p].owner]
    BY DEF NoTornFile, TInv, TypeOK
  <2> QED
    BY <2>1, VersionsGrow
<1>2. CASE \E t \in Transfers : FinishFile(t)
  <2>1. PICK t \in Transfers : FinishFile(t)
    BY <1>2
  <2>2. CASE Verified(t)
    <3>1. /\ disk' = [disk EXCEPT ![rcv[t].path] = [data |-> Written(t), owner |-> t]]
          /\ versions' = versions /\ rcv[t].pc = "recv" /\ Written(t) = rcv[t].hash
      BY <2>1, <2>2 DEF FinishFile, SenderSame, ReceiverAt, Verified
    <3>2. Written(t) \in versions[t]
      BY <3>1 DEF HashInv, HashesAreOurs
    <3> SUFFICES ASSUME NEW p \in Paths, disk'[p] # None, disk'[p].owner # None
                 PROVE  disk'[p].data \in versions[disk'[p].owner]
      BY <3>1 DEF NoTornFile
    <3>3. CASE p = rcv[t].path
      BY <3>1, <3>2, <3>3 DEF TInv, TypeOK
    <3>4. CASE p # rcv[t].path
      BY <3>1, <3>4 DEF NoTornFile, TInv, TypeOK
    <3> QED
      BY <3>3, <3>4
  <2>3. CASE ~Verified(t)
    BY <1>1, <2>1, <2>3 DEF FinishFile, SessionFails
  <2> QED
    BY <2>2, <2>3
<1> QED
  BY ZenonT(60), <1>1, <1>2 DEF Next, vars, receiverVars, SetReceiveDir, Kill, Dial, SendRefused, SenderStep,
     Stat, HashFile, SendHello, SendOffer, WrongPeer, ReadAnswer, SenderEof, SendChunk,
     SendComplete, WriteFails, Cut, Edit, ReceiverStep, HelloTimeout, FirstTimeout, DiskFails,
     ReadHello, ControlStep, AcceptOffer, RejectOffer, WriteChunk, ReceiverEof, SessionFails, Read

-----------------------------------------------------------------------------
(* No failure without a cause *)

LEMMA ShortSeqs ==
    ASSUME NEW f, NEW g
    PROVE  /\ Append(<<>>, f) = <<f>> /\ Append(<<f>>, g) = <<f, g>>
           /\ Head(<<f>>) = f /\ Head(<<f, g>>) = f
           /\ Tail(<<f>>) = <<>> /\ Tail(<<f, g>>) = <<g>>
           /\ <<f>> # <<>> /\ <<f, g>> # <<>>
<1>1. Append(<<>>, f) = <<f>> /\ Append(<<f>>, g) = <<f, g>>
  <2>1. Append(<<>>, f) = <<f>>
    OBVIOUS
  <2>2. <<f>> \in Seq({f, g}) /\ <<f, g>> \in Seq({f, g})
    OBVIOUS
  <2>3. Append(<<f>>, g) \in Seq({f, g}) /\ Len(Append(<<f>>, g)) = Len(<<f, g>>)
        /\ \A i \in 1..Len(<<f, g>>) : Append(<<f>>, g)[i] = <<f, g>>[i]
    BY <2>2, AppendProperties
  <2>4. Append(<<f>>, g) = <<f, g>>
    BY <2>2, <2>3, SeqEqual
  <2> QED
    BY <2>1, <2>4
<1>2. Head(<<f>>) = f /\ Head(<<f, g>>) = f /\ <<f>> # <<>> /\ <<f, g>> # <<>>
  OBVIOUS
<1>3. Tail(<<f>>) = <<>>
  OBVIOUS
<1>4. Tail(<<f, g>>) = <<g>>
  OBVIOUS
<1> QED
  BY <1>1, <1>2, <1>3, <1>4

LEMMA KindsOf ==
    /\ \A type \in {"Hello", "Complete", "Accept", "Reject", "Cancel"} : Frame(type).type = type
    /\ \A n, b : Chunk(n, b).type = "Chunk" /\ Chunk(n, b).offset = n /\ Chunk(n, b).data = b
    /\ \A t : /\ Offer(t).type = "Offer" /\ Offer(t).size = Len(src[t])
              /\ Offer(t).hash = src[t]
BY DEF Frame, Chunk, Offer

\* The sender's steps before the file flows.
LEMMA OpeningSends ==
    ASSUME TInv, NEW t \in Transfers, ~excused[t], Fine(t),
           Dial(t) \/ Stat(t) \/ HashFile(t) \/ SendHello(t) \/ SendOffer(t)
    PROVE  Fine(t)'
<1> USE DEF senderVars, receiverVars, SenderAt, Write, Read
<1>1. /\ snd \in [Transfers -> SenderRecs] /\ rcv \in [Transfers -> ReceiverRecs]
      /\ toR \in [Transfers -> Seq(Frames)] /\ toS \in [Transfers -> Seq(Frames)]
  BY DEF TInv, TypeOK, SenderRecs, ReceiverRecs
<1>2. ~cut[t] /\ Knows(t) /\ (Opening(t) \/ Flowing(t) \/ Arrived(t))
  BY DEF Fine
<1>3. snd[t].pc \in {"idle", "stat", "hash", "hello", "peer"}
  BY DEF Dial, Stat, HashFile, SendHello, SendOffer
<1>4. Opening(t)
  BY <1>2, <1>3 DEF Flowing, Arrived
<1>5. UNCHANGED <<cut, src>>
  BY DEF Dial, Stat, HashFile, SendHello, SendOffer
<1>6. SUFFICES Knows(t)' /\ Opening(t)'
  BY <1>2, <1>5 DEF Fine
<1>7. CASE Dial(t)
  <2>1. toR[t] = <<>> /\ snd[t].offset = 0
    BY <1>2, <1>4, <1>7 DEF Dial, Opening, Knows
  <2>2. /\ snd'[t].pc = "stat" /\ snd'[t].offset = 0 /\ rcv'[t].pc = "hello"
        /\ toR'[t] = <<>> /\ toS'[t] = <<Frame("Hello")>>
    BY <1>1, <1>7, <2>1 DEF Dial, SenderRecs, ReceiverRecs
  <2> QED
    BY <2>2 DEF Knows, Opening
<1>8. CASE Stat(t)
  <2>1. rcv[t].pc = "hello" /\ toR[t] = <<>> /\ toS[t] = <<Frame("Hello")>> /\ snd[t].offset = 0
    BY <1>2, <1>4, <1>8 DEF Stat, Opening, Knows
  <2>2. /\ snd'[t].pc = "hash" /\ snd'[t].offset = 0 /\ snd'[t].size = Len(src[t])
        /\ rcv'[t] = rcv[t] /\ toR'[t] = toR[t] /\ toS'[t] = toS[t]
    BY <1>1, <1>8, <2>1 DEF Stat, SenderRecs
  <2> QED
    BY <1>5, <2>1, <2>2 DEF Knows, Opening
<1>9. CASE HashFile(t)
  <2>1. /\ rcv[t].pc = "hello" /\ toR[t] = <<>> /\ toS[t] = <<Frame("Hello")>>
        /\ snd[t].offset = 0 /\ snd[t].size = Len(src[t])
    BY <1>2, <1>4, <1>9 DEF HashFile, Opening, Knows
  <2>2. /\ snd'[t].pc = "hello" /\ snd'[t].offset = 0 /\ snd'[t].size = Len(src[t])
        /\ snd'[t].hash = src[t]
        /\ rcv'[t] = rcv[t] /\ toR'[t] = toR[t] /\ toS'[t] = toS[t]
    BY <1>1, <1>9, <2>1 DEF HashFile, SenderRecs
  <2> QED
    BY <1>5, <2>1, <2>2 DEF Knows, Opening
<1>10. CASE SendHello(t)
  <2>1. /\ rcv[t].pc = "hello" /\ toR[t] = <<>> /\ toS[t] = <<Frame("Hello")>>
        /\ snd[t].offset = 0 /\ snd[t].size = Len(src[t]) /\ snd[t].hash = src[t]
    BY <1>2, <1>4, <1>10 DEF SendHello, Opening, Knows
  <2>2. /\ snd'[t].pc = "peer" /\ snd'[t].offset = 0 /\ snd'[t].size = Len(src[t])
        /\ snd'[t].hash = src[t]
        /\ rcv'[t] = rcv[t] /\ toS'[t] = toS[t]
    BY <1>1, <1>10, <2>1 DEF SendHello, SenderRecs
  <2>3. toR'[t] = <<Frame("Hello")>>
    BY <1>1, <1>10, <2>1, ShortSeqs DEF SendHello
  <2> QED
    BY <1>5, <2>1, <2>2, <2>3 DEF Knows, Opening
<1>11. CASE SendOffer(t)
  <2>1. /\ toS[t] = <<Frame("Hello")>>
        /\ \/ rcv[t].pc = "hello" /\ toR[t] = <<Frame("Hello")>>
           \/ rcv[t].pc = "first" /\ toR[t] = <<>>
        /\ snd[t].offset = 0 /\ snd[t].size = Len(src[t]) /\ snd[t].hash = src[t]
    BY <1>2, <1>4, <1>11 DEF SendOffer, Opening, Knows
  <2>2. /\ snd'[t].pc = "accept" /\ snd'[t].offset = 0 /\ snd'[t].size = Len(src[t])
        /\ snd'[t].hash = src[t] /\ rcv'[t] = rcv[t]
    BY <1>1, <1>11, <2>1 DEF SendOffer, SenderRecs
  <2>3. toR'[t] = Append(toR[t], Offer(t)) /\ toS'[t] = Tail(toS[t])
    BY <1>1, <1>11, <2>1 DEF SendOffer, Offer
  <2>4. /\ toS'[t] = <<>>
        /\ \/ rcv'[t].pc = "hello" /\ toR'[t] = <<Frame("Hello"), Offer(t)>>
           \/ rcv'[t].pc = "first" /\ toR'[t] = <<Offer(t)>>
    BY <2>1, <2>2, <2>3, ShortSeqs
  <2>5. Offer(t)' = Offer(t)
    BY <1>5 DEF Offer
  <2>6. Opening(t)'
    BY <2>2, <2>4, <2>5 DEF Opening
  <2> QED
    BY <1>5, <2>2, <2>6 DEF Knows
<1> QED
  BY <1>7, <1>8, <1>9, <1>10, <1>11

\* The receiver's steps before the file flows.  No part file of another session
\* is in the way of an offer.
LEMMA OpeningReads ==
    ASSUME TInv, NEW t \in Transfers, ~excused[t], ~excused'[t], Fine(t), OwnPart(t),
           ReadHello(t) \/ AcceptOffer(t) \/ RejectOffer(t)
    PROVE  Fine(t)'
<1> USE DEF ReceiverAt, Take, SenderSame
<1>1. /\ rcv \in [Transfers -> ReceiverRecs]
      /\ toR \in [Transfers -> Seq(Frames)] /\ toS \in [Transfers -> Seq(Frames)]
      /\ src[t] \in Contents /\ Len(src[t]) \in Nat
      /\ part \in [PartFiles -> Files \cup {None}]
  BY ContentIsFile DEF TInv, TypeOK, ReceiverRecs
<1>2. ~cut[t] /\ Knows(t) /\ (Opening(t) \/ Flowing(t) \/ Arrived(t))
  BY DEF Fine
<1>3. rcv[t].pc \in {"hello", "first"} /\ toR[t] # <<>>
  BY DEF ReadHello, AcceptOffer, RejectOffer
<1>4. Opening(t)
  BY <1>2, <1>3 DEF Flowing, Arrived
<1>5. CASE ReadHello(t)
  <2>1. \/ /\ snd[t].pc = "peer" /\ toS[t] = <<Frame("Hello")>> /\ toR[t] = <<Frame("Hello")>>
        \/ /\ snd[t].pc = "accept" /\ toS[t] = <<>> /\ toR[t] = <<Frame("Hello"), Offer(t)>>
    BY <1>3, <1>4, <1>5 DEF ReadHello, Opening
  <2>2. /\ rcv'[t].pc = "first" /\ toR'[t] = Tail(toR[t])
        /\ UNCHANGED <<snd, toS, src, cut>>
    BY <1>1, <1>5 DEF ReadHello, ReceiverRecs
  <2>3. \/ /\ snd[t].pc = "peer" /\ toS[t] = <<Frame("Hello")>> /\ toR'[t] = <<>>
        \/ /\ snd[t].pc = "accept" /\ toS[t] = <<>> /\ toR'[t] = <<Offer(t)>>
    <3>1. CASE snd[t].pc = "peer" /\ toS[t] = <<Frame("Hello")>> /\ toR[t] = <<Frame("Hello")>>
      BY <2>2, <3>1, ShortSeqs
    <3>2. CASE snd[t].pc = "accept" /\ toS[t] = <<>> /\ toR[t] = <<Frame("Hello"), Offer(t)>>
      <4>1. Tail(<<Frame("Hello"), Offer(t)>>) = <<Offer(t)>>
        BY ShortSeqs
      <4> QED
        BY <2>2, <3>2, <4>1
    <3> QED
      BY <2>1, <3>1, <3>2
  <2>4. Offer(t)' = Offer(t)
    BY <2>2 DEF Offer
  <2>5. Opening(t)'
    BY <2>2, <2>3, <2>4 DEF Opening
  <2> QED
    BY <1>2, <2>2, <2>5 DEF Fine, Knows
<1>6. CASE AcceptOffer(t)
  <2>1. snd[t].pc = "accept" /\ toS[t] = <<>> /\ toR[t] = <<Offer(t)>> /\ snd[t].offset = 0
    BY <1>2, <1>3, <1>4, <1>6 DEF AcceptOffer, Opening, Knows
  <2> DEFINE q == FreePath(NameOf[t])
  <2>2. q \in Paths
    BY <1>6, FreePathIsPath, FileAssumption DEF AcceptOffer
  <2>3. /\ part' = [part EXCEPT ![<<q, t>>] = <<>>]
        /\ rcv'[t] = [pc |-> "recv", path |-> q,
                      size |-> Head(toR[t]).size, hash |-> Head(toR[t]).hash]
        /\ toR'[t] = Tail(toR[t]) /\ toS'[t] = Append(toS[t], Frame("Accept"))
        /\ UNCHANGED <<snd, src, cut>>
    BY <1>1, <1>6 DEF AcceptOffer, PartPath
  <2>4. Head(toR[t]) = Offer(t) /\ toR'[t] = <<>> /\ toS'[t] = <<Frame("Accept")>>
    BY <2>1, <2>3, ShortSeqs
  <2>5. /\ rcv'[t].pc = "recv" /\ rcv'[t].path = q
        /\ rcv'[t].size = Len(src[t]) /\ rcv'[t].hash = src[t]
    BY <2>3, <2>4, KindsOf
  <2> HIDE DEF q
  <2>6. part'[<<rcv'[t].path, t>>] = <<>>
    BY <1>1, <2>2, <2>3, <2>5 DEF PartFiles
  <2>7. Written(t)' = <<>>
    BY <2>6 DEF Written, PartPath
  <2>8. Flowing(t)'
    BY SMTT(30), <1>1, <2>1, <2>3, <2>4, <2>5, <2>7 DEF Flowing
  <2> QED
    BY <1>2, <2>3, <2>8 DEF Fine, Knows
<1>7. CASE RejectOffer(t)
  <2>1. ~Excuse(t)
    BY DEF Excuse, TInv, TypeOK
  <2>2. /\ FreeSuffixes(NameOf[t]) # {} /\ rcv[t].pc = "first"
        /\ part[PartPath(FreePath(NameOf[t]), t)] # None
    BY <1>7, <2>1 DEF RejectOffer
  <2>3. FreePath(NameOf[t]) \in Paths
    BY <2>2, FreePathIsPath, FileAssumption
  <2> QED
    BY <2>2, <2>3 DEF OwnPart, PartPath
<1> QED
  BY <1>5, <1>6, <1>7

\* The sender's steps while the file flows.
LEMMA FlowingSends ==
    ASSUME TInv, NEW t \in Transfers, ~excused[t], Fine(t),
           ReadAnswer(t) \/ SendChunk(t) \/ SendComplete(t)
    PROVE  Fine(t)'
<1> USE DEF SenderAt, Write, Read
<1>1. /\ snd \in [Transfers -> SenderRecs]
      /\ toR \in [Transfers -> Seq(Frames)] /\ toS \in [Transfers -> Seq(Frames)]
      /\ src[t] \in Contents /\ Len(src[t]) \in Nat
      /\ snd[t].offset \in Nat
  BY ContentIsFile DEF TInv, TypeOK, SenderRecs
<1>2. ~cut[t] /\ Knows(t) /\ (Opening(t) \/ Flowing(t) \/ Arrived(t))
  BY DEF Fine
<1>3. /\ snd[t].pc \in {"accept", "stream"}
      /\ snd[t].pc = "accept" => toS[t] # <<>>
  BY DEF ReadAnswer, SendChunk, SendComplete
<1>4. Flowing(t)
  BY <1>2, <1>3 DEF Opening, Arrived
<1>5. UNCHANGED <<cut, src, rcv, part>> /\ snd'[t].size = snd[t].size /\ snd'[t].hash = snd[t].hash
  BY <1>1 DEF ReadAnswer, SendChunk, SendComplete, SenderRecs, receiverVars
<1>6. Written(t)' = Written(t) /\ Written(t) \in Files /\ Len(Written(t)) \in Nat
  <2>1. Written(t) \in Files
    BY <1>4 DEF TInv, TypeOK, HasPart, Flowing, Written, PartPath, PartFiles
  <2> QED
    BY <1>5, <2>1 DEF Written, PartPath, Files
<1>7. SUFFICES Knows(t)' /\ Flowing(t)'
  BY <1>2, <1>5 DEF Fine
<1>8. CASE ReadAnswer(t)
  <2>1. snd[t].pc = "accept" /\ toS[t] = <<Frame("Accept")>> /\ snd[t].offset = 0
    BY <1>2, <1>4, <1>8 DEF ReadAnswer, Flowing, Knows
  <2>2. Head(toS[t]) = Frame("Accept") /\ Frame("Accept").type = "Accept"
    BY <2>1, ShortSeqs, KindsOf
  <2>3. /\ toS' = [toS EXCEPT ![t] = Tail(@)] /\ snd' = [snd EXCEPT ![t].pc = "stream"]
        /\ toR' = toR
    BY <1>8, <2>2 DEF ReadAnswer
  <2>4. toS'[t] = <<>>
    BY <1>1, <2>1, <2>3, ShortSeqs
  <2>5. snd'[t].pc = "stream" /\ snd'[t].offset = snd[t].offset
    BY <1>1, <2>3 DEF SenderRecs
  <2>6. Knows(t)'
    BY <1>2, <1>5, <2>1, <2>5 DEF Knows
  <2> QED
    BY <1>4, <1>5, <1>6, <2>1, <2>3, <2>4, <2>5, <2>6 DEF Flowing
<1>9. CASE SendChunk(t)
  <2> DEFINE o == snd[t].offset
             w == Len(Written(t))
             f == Chunk(o, src[t][o + 1])
  <2>1. /\ snd[t].pc = "stream" /\ o < Len(src[t]) /\ toS' = toS
        /\ toR'[t] = Append(toR[t], f)
        /\ snd'[t].pc = "stream" /\ snd'[t].offset = o + 1
    BY <1>1, <1>9 DEF SendChunk, SenderRecs, receiverVars
  <2>2. /\ w <= o /\ Len(toR[t]) = o - w
        /\ \A i \in 1..(o - w) : toR[t][i] = Chunk(w + i - 1, src[t][w + i])
    BY <1>1, <1>4, <1>6, <2>1 DEF Flowing
  <2>3. o \in Nat /\ w \in Nat /\ toR[t] \in Seq(Frames)
    BY <1>1, <1>6
  <2>4. f \in Frames
    <3>1. o + 1 \in 1..Len(src[t])
      BY <1>1, <2>1, <2>3
    <3> QED
      BY <1>1, <2>3, <3>1, FrameTypes, ContentIsFile
  <2>5. /\ Len(toR'[t]) = o + 1 - w
        /\ toR'[t][o - w + 1] = f
        /\ \A i \in 1..(o - w) : toR'[t][i] = toR[t][i]
    <3> HIDE DEF f, o, w
    <3> QED
      BY <2>1, <2>2, <2>3, <2>4, AppendProperties
  <2>6. ASSUME NEW i \in 1..(o + 1 - w)
        PROVE  toR'[t][i] = Chunk(w + i - 1, src[t][w + i])
    <3>1. CASE i \in 1..(o - w)
      BY <2>2, <2>5, <3>1
    <3>2. CASE i = o - w + 1
      <4>1. w + i - 1 = o /\ w + i = o + 1
        BY SMTT(30), <2>3, <3>2
      <4> QED
        BY <2>5, <3>2, <4>1
    <3>3. i \in 1..(o - w) \/ i = o - w + 1
      <4> HIDE DEF f, o, w
      <4> QED
        BY <2>2, <2>3
    <3> QED
      BY <3>1, <3>2, <3>3
  <2>7. o + 1 <= Len(src[t]) /\ w <= o + 1
    BY <1>1, <2>1, <2>2, <2>3
  <2>8. Knows(t)'
    BY <1>2, <1>5, <2>1 DEF Knows
  <2>9. Flowing(t)'
    <3> HIDE DEF f, o
    <3> QED
      BY SMTT(30), <1>4, <1>5, <1>6, <2>1, <2>3, <2>5, <2>6, <2>7 DEF Flowing
  <2> QED
    BY <2>8, <2>9
<1>10. CASE SendComplete(t)
  <2> DEFINE o == snd[t].offset
             w == Len(Written(t))
  <2>1. /\ snd[t].pc = "stream" /\ o >= Len(src[t]) /\ toS' = toS
        /\ toR'[t] = Append(toR[t], Frame("Complete"))
        /\ snd'[t].pc = "sent" /\ snd'[t].offset = o
    BY <1>1, <1>10 DEF SendComplete, SenderRecs, receiverVars
  <2>2. /\ w <= o /\ Len(toR[t]) = o - w /\ o = Len(src[t])
        /\ \A i \in 1..(o - w) : toR[t][i] = Chunk(w + i - 1, src[t][w + i])
    <3>1. o <= Len(src[t]) /\ w <= o /\ Len(toR[t]) = o - w + 0
      BY <1>4, <2>1 DEF Flowing
    <3>2. \A i \in 1..(o - w) : toR[t][i] = Chunk(w + i - 1, src[t][w + i])
      BY <1>4 DEF Flowing
    <3>3. o \in Nat /\ w \in Nat /\ Len(src[t]) \in Nat
      BY <1>1, <1>6
    <3>4. Len(toR[t]) = o - w /\ o = Len(src[t])
      <4> HIDE DEF o, w
      <4> QED
        BY <2>1, <3>1, <3>3
    <3> QED
      BY <3>1, <3>2, <3>4
  <2>3. Frame("Complete") \in Frames /\ w \in Nat /\ o \in Nat
    BY <1>1, <1>6, FrameTypes
  <2>4. /\ Len(toR'[t]) = o - w + 1
        /\ toR'[t][Len(toR'[t])] = Frame("Complete")
        /\ \A i \in 1..(o - w) : toR'[t][i] = toR[t][i]
    <3> HIDE DEF o, w
    <3> QED
      BY <1>1, <2>1, <2>2, <2>3, AppendProperties
  <2>5. Knows(t)'
    BY <1>2, <1>5, <2>1 DEF Knows
  <2>6. Flowing(t)'
    BY <1>4, <1>5, <1>6, <2>1, <2>2, <2>4 DEF Flowing
  <2> QED
    BY <2>5, <2>6
<1> QED
  BY <1>8, <1>9, <1>10

\* The receiver's steps while the file flows: every chunk fits, and the file is
\* the source file when Complete is read.
LEMMA FlowingReads ==
    ASSUME TInv, NEW t \in Transfers, ~excused[t], Fine(t), WriteChunk(t) \/ FinishFile(t)
    PROVE  Fine(t)'
<1> USE DEF ReceiverAt, Take, SenderSame
<1> DEFINE o == snd[t].offset
           w == Len(Written(t))
           c == src[t]
<1>1. /\ snd \in [Transfers -> SenderRecs] /\ rcv \in [Transfers -> ReceiverRecs]
      /\ toR \in [Transfers -> Seq(Frames)]
      /\ c \in Contents /\ c \in Files /\ Len(c) \in Nat
      /\ o \in Nat /\ part \in [PartFiles -> Files \cup {None}]
  BY ContentIsFile DEF TInv, TypeOK, SenderRecs, ReceiverRecs
<1>2. ~cut[t] /\ Knows(t) /\ (Opening(t) \/ Flowing(t) \/ Arrived(t))
  BY DEF Fine
<1>3. rcv[t].pc = "recv" /\ toR[t] # <<>>
  BY DEF WriteChunk, FinishFile
<1>4. Flowing(t)
  BY <1>2, <1>3 DEF Opening, Arrived
<1>5. /\ rcv[t].path \in Paths /\ PartPath(rcv[t].path, t) \in PartFiles
      /\ Written(t) \in Files /\ w \in Nat
  <2>1. rcv[t].path \in Paths /\ PartPath(rcv[t].path, t) \in PartFiles /\ Written(t) \in Files
    BY <1>1, <1>3 DEF TInv, HasPart, Written, PartPath, PartFiles
  <2> QED
    BY <2>1 DEF Files
<1>6. /\ UNCHANGED <<cut, src, snd>>
      /\ toR'[t] = Tail(toR[t])
  BY <1>1 DEF WriteChunk, FinishFile
<1>7. /\ rcv[t].size = Len(c) /\ rcv[t].hash = c
      /\ o <= Len(c) /\ w <= o
      /\ \A i \in 1..w : Written(t)[i] = c[i]
      /\ Len(toR[t]) = o - w + (IF snd[t].pc = "sent" THEN 1 ELSE 0)
      /\ \A i \in 1..(o - w) : toR[t][i] = Chunk(w + i - 1, c[w + i])
      /\ snd[t].pc = "sent" => o = Len(c) /\ toR[t][Len(toR[t])] = Frame("Complete")
  BY <1>4 DEF Flowing
<1>8. /\ Head(toR[t]) = toR[t][1] /\ Len(toR[t]) > 0
      /\ Tail(toR[t]) \in Seq(Frames) /\ Len(Tail(toR[t])) = Len(toR[t]) - 1
      /\ \A i \in 1..(Len(toR[t]) - 1) : Tail(toR[t])[i] = toR[t][i + 1]
  BY <1>1, <1>3, TailOf
<1> HIDE DEF o, w, c
<1>9. CASE WriteChunk(t)
  <2>1. w < o
    <3>1. ASSUME w = o
          PROVE  FALSE
      <4>1. snd[t].pc = "sent" /\ Len(toR[t]) = 1
        BY <1>1, <1>5, <1>7, <1>8, <3>1
      <4>2. Head(toR[t]) = Frame("Complete")
        BY <1>7, <1>8, <4>1
      <4> QED
        BY <1>9, <4>2, KindsOf DEF WriteChunk
    <3> QED
      BY <1>1, <1>5, <1>7, <3>1
  <2>2. Head(toR[t]) = Chunk(w, c[w + 1])
    <3>1. toR[t][1] = Chunk(w + 1 - 1, c[w + 1])
      BY <1>1, <1>5, <1>7, <2>1
    <3>2. w + 1 - 1 = w
      BY <1>5
    <3> QED
      BY <1>8, <3>1, <3>2
  <2>3. /\ Head(toR[t]).offset = w /\ w + 1 <= rcv[t].size
        /\ Head(toR[t]).data = c[w + 1]
    BY <1>1, <1>5, <1>7, <2>1, <2>2, KindsOf
  <2>4. /\ part' = [part EXCEPT ![PartPath(rcv[t].path, t)] = Append(@, Head(toR[t]).data)]
        /\ rcv' = rcv /\ toS' = toS
    BY <1>9, <2>3 DEF WriteChunk, w
  <2>5. Written(t)' = Append(Written(t), c[w + 1])
    BY <1>1, <1>5, <2>3, <2>4 DEF Written, PartPath, PartFiles
  <2>6. /\ Len(Written(t)') = w + 1
        /\ \A i \in 1..w : Written(t)'[i] = Written(t)[i]
        /\ Written(t)'[w + 1] = c[w + 1]
    <3>1. w + 1 \in 1..Len(c) /\ c[w + 1] \in Blocks /\ Written(t) \in Seq(Blocks)
      BY <1>1, <1>5, <1>7, <2>1, ContentIsFile DEF Files
    <3> QED
      BY <2>5, <3>1, AppendProperties DEF w
  <2>7. \A i \in 1..(w + 1) : Written(t)'[i] = c[i]
    BY <1>5, <1>7, <2>6
  <2>8. ASSUME NEW i \in 1..(o - (w + 1))
        PROVE  toR'[t][i] = Chunk((w + 1) + i - 1, c[(w + 1) + i])
    <3>1. i + 1 \in 1..(o - w) /\ i \in 1..(Len(toR[t]) - 1)
      BY <1>1, <1>5, <1>7, <2>1
    <3>2. toR'[t][i] = Chunk(w + (i + 1) - 1, c[w + (i + 1)])
      BY <1>6, <1>7, <1>8, <3>1
    <3>3. w + (i + 1) - 1 = (w + 1) + i - 1 /\ w + (i + 1) = (w + 1) + i
      BY <1>5
    <3> QED
      BY <3>2, <3>3
  <2>9. Len(toR'[t]) = o - (w + 1) + (IF snd[t].pc = "sent" THEN 1 ELSE 0)
    BY <1>1, <1>5, <1>6, <1>7, <1>8
  <2>10. snd[t].pc = "sent" => toR'[t][Len(toR'[t])] = Frame("Complete")
    BY <1>1, <1>5, <1>6, <1>7, <1>8, <2>1, <2>9
  <2>11. w + 1 <= o
    BY <1>1, <1>5, <2>1
  <2>12. Flowing(t)'
    BY <1>4, <1>6, <1>7, <2>4, <2>6, <2>7, <2>8, <2>9, <2>10, <2>11 DEF Flowing, o, c
  <2> QED
    BY <1>2, <1>6, <2>12 DEF Fine, Knows
<1>10. CASE FinishFile(t)
  <2>1. w = o
    <3>1. ASSUME w < o
          PROVE  FALSE
      <4>1. Head(toR[t]) = Chunk(w + 1 - 1, c[w + 1])
        BY <1>1, <1>5, <1>7, <1>8, <3>1
      <4> QED
        BY <1>10, <4>1, KindsOf DEF FinishFile
    <3> QED
      BY <1>1, <1>5, <1>7, <3>1
  <2>2. snd[t].pc = "sent" /\ Len(toR[t]) = 1 /\ w = Len(c)
    BY <1>1, <1>5, <1>7, <1>8, <2>1
  <2>3. Written(t) = c
    BY <1>1, <1>5, <1>7, <2>2, SeqEqual DEF Files, w
  <2>4. Verified(t)
    BY <1>7, <2>2, <2>3 DEF Verified, w
  <2>5. rcv' = [rcv EXCEPT ![t].pc = "done"] /\ toS' = toS
    BY <1>10, <2>4 DEF FinishFile
  <2>6. rcv'[t].pc = "done" /\ toR'[t] = <<>> /\ toS[t] = <<>>
    <3>1. rcv'[t].pc = "done"
      BY <1>1, <2>5 DEF ReceiverRecs
    <3>2. toR'[t] = <<>>
      <4>1. Len(Tail(toR[t])) = 0
        BY <1>8, <2>2
      <4>2. Tail(toR[t]) = <<>>
        BY <1>8, <4>1, EmptySeq
      <4> QED
        BY <1>6, <4>2
    <3>3. toS[t] = <<>>
      BY <1>4, <2>2 DEF Flowing
    <3> QED
      BY <3>1, <3>2, <3>3
  <2> QED
    BY <1>2, <1>6, <2>2, <2>5, <2>6 DEF Fine, Knows, Arrived
<1> QED
  BY <1>9, <1>10

\* What a transfer to which nothing has happened cannot do.
LEMMA NeverOnCourse ==
    ASSUME TInv, NEW t \in Transfers, ~excused[t], Fine(t)
    PROVE  ~SenderEof(t) /\ ~WriteFails(t) /\ ~ControlStep(t) /\ ~ReceiverEof(t)
<1> USE DEF SenderGone, ReceiverGone
<1>1. ~cut[t] /\ Knows(t) /\ (Opening(t) \/ Flowing(t) \/ Arrived(t))
  BY DEF Fine
<1>2. \A f : <<f>> # <<>>
  BY ShortSeqs
<1>3. Flowing(t) => Len(Written(t)) \in Nat /\ snd[t].offset \in Nat
  <2>1. Flowing(t) => Written(t) \in Files
    BY DEF TInv, TypeOK, HasPart, Flowing, Written, PartPath, PartFiles
  <2> QED
    BY <2>1 DEF TInv, TypeOK, Files
<1>4. ~SenderEof(t)
  BY <1>1, <1>2 DEF SenderEof, Opening, Flowing, Arrived
<1>5. ~WriteFails(t)
  BY <1>1 DEF WriteFails, Opening, Flowing, Arrived
<1>6. ~ControlStep(t)
  BY <1>1 DEF ControlStep, Opening, Flowing, Arrived
<1>7. ~ReceiverEof(t)
  <2>1. CASE Opening(t) \/ Arrived(t)
    BY <1>1, <2>1 DEF ReceiverEof, Opening, Arrived
  <2>2. CASE Flowing(t)
    <3>1. snd[t].pc = "sent" => Len(toR[t]) > 0
      BY <1>3, <2>2 DEF Flowing
    <3> QED
      BY <1>1, <2>2, <3>1 DEF ReceiverEof, Flowing
  <2> QED
    BY <1>1, <2>1, <2>2
<1> QED
  BY <1>4, <1>5, <1>6, <1>7

LEMMA FineStep ==
    ASSUME TInv, NEW t \in Transfers, TransferStep(t), Fine(t), OwnPart(t)
    PROVE  Fine(t)'
<1>1. excused \in [Transfers -> BOOLEAN]
  BY DEF TInv, TypeOK
<1>2. CASE \/ SendRefused(t) \/ WrongPeer(t) \/ HelloTimeout(t) \/ FirstTimeout(t)
           \/ DiskFails(t) \/ Cut(t) \/ \E c \in Contents : Edit(t, c)
  <2>1. Excuse(t)
    BY <1>2 DEF SendRefused, WrongPeer, HelloTimeout, FirstTimeout, DiskFails, Cut, Edit
  <2> QED
    BY <1>1, <2>1 DEF Excuse, Fine
<1>3. CASE excused[t]
  <2>1. excused' = excused \/ Excuse(t)
    BY DEF TransferStep, SenderStep, ReceiverStep, Dial, SendRefused, Stat, HashFile, SendHello,
       SendOffer, WrongPeer, ReadAnswer, SenderEof, SendChunk, SendComplete, WriteFails, Cut, Edit,
       HelloTimeout, FirstTimeout, DiskFails, ReadHello, ControlStep, AcceptOffer, RejectOffer,
       WriteChunk, FinishFile, ReceiverEof
  <2> QED
    BY <1>1, <1>3, <2>1 DEF Excuse, Fine
<1>4. CASE ~excused[t] /\ ~excused'[t]
  BY <1>2, <1>4, OpeningSends, OpeningReads, FlowingSends, FlowingReads, NeverOnCourse
     DEF TransferStep, SenderStep, ReceiverStep
<1>5. CASE excused'[t]
  BY <1>5 DEF Fine
<1> QED
  BY <1>3, <1>4, <1>5

LEMMA AllFineStep ==
    ASSUME TInv, NoOrphanPart, AllFine, [Next]_vars
    PROVE  AllFine'
<1>1. CASE \E t \in Transfers : TransferStep(t)
  <2>1. PICK t \in Transfers : TransferStep(t)
    BY <1>1
  <2>2. Fine(t)'
    BY <2>1, FineStep, OrphanIsOwn DEF AllFine
  <2>3. ASSUME NEW u \in Transfers, u # t
        PROVE  Fine(u)'
    <3>1. Fine(u) /\ Untouched(u)
      BY <2>1, <2>3, Locality DEF AllFine
    <3>2. rcv[u].pc = "recv" => Written(u)' = Written(u)
      BY <3>1 DEF Untouched, TInv, HasPart, Written, PartPath
    <3>3. Knows(u)' = Knows(u) /\ Opening(u)' = Opening(u) /\ Arrived(u)' = Arrived(u)
      BY <3>1 DEF Untouched, Knows, Opening, Arrived, Offer
    <3>4. Flowing(u) => Flowing(u)'
      BY <3>1, <3>2 DEF Untouched, Flowing
    <3> QED
      BY <3>1, <3>3, <3>4 DEF Untouched, Fine
  <2> QED
    BY <2>2, <2>3 DEF AllFine
<1>2. CASE Kill
  <2> SUFFICES ASSUME NEW t \in Transfers
               PROVE  Fine(t)'
    BY DEF AllFine
  <2>1. CASE rcv[t].pc # "none"
    <3>1. excused'[t]
      BY <1>2, <2>1 DEF Kill
    <3> QED
      BY <3>1 DEF Fine
  <2>2. CASE rcv[t].pc = "none"
    <3>1. rcv'[t] = rcv[t] /\ excused'[t] = excused[t] /\ UNCHANGED <<snd, src, toR, toS, cut>>
      BY <1>2, <2>2 DEF Kill, senderVars, TInv, TypeOK
    <3>2. Fine(t)
      BY DEF AllFine
    <3> QED
      BY <2>2, <3>1, <3>2 DEF Fine, Knows, Opening, Flowing, Arrived, Offer
  <2> QED
    BY <2>1, <2>2
<1>3. CASE SetReceiveDir \/ UNCHANGED vars
  <2>1. UNCHANGED <<snd, src, rcv, toR, toS, part, cut, excused>>
    BY <1>3 DEF SetReceiveDir, vars, senderVars, receiverVars
  <2> SUFFICES ASSUME NEW t \in Transfers
               PROVE  Fine(t)'
    BY DEF AllFine
  <2>2. Written(t)' = Written(t)
    BY <2>1 DEF Written, PartPath
  <2>3. Knows(t)' = Knows(t) /\ Opening(t)' = Opening(t) /\ Arrived(t)' = Arrived(t)
    BY <2>1 DEF Knows, Opening, Arrived, Offer
  <2>4. Flowing(t) => Flowing(t)'
    BY <2>1, <2>2 DEF Flowing
  <2> QED
    BY <2>1, <2>3, <2>4 DEF AllFine, Fine
<1> QED
  BY <1>1, <1>2, <1>3 DEF Next, TransferStep

-----------------------------------------------------------------------------
(* The theorems *)

LEMMA InitInv ==
    ASSUME Init
    PROVE  IInv
<1>1. IdleInv /\ NoOrphanPart /\ NoTornFile
  BY DEF Init, IdleInv, NoOrphanPart, NoTornFile
<1>2. HashInv
  BY DEF Init, HashInv, HashesAreOurs, Honest
<1>3. AllFine
  BY DEF Init, AllFine, Fine, Knows, Opening
<1> QED
  BY <1>1, <1>2, <1>3, TInvInit DEF IInv

LEMMA IInvStep ==
    ASSUME IInv, [Next]_vars
    PROVE  IInv'
BY TInvStep, IdleStep, OrphanStep, HashStep, TornStep, AllFineStep DEF IInv

LEMMA InvHolds == Spec => []IInv
BY InitInv, IInvStep, PTL DEF Spec

\* Whatever the order of offers, chunks, edits, cuts and kills, the state is of
\* the declared types and a receiving session has its part file.
THEOREM TypeCorrect == Spec => []TypeOK
<1>1. IInv => TypeOK
  BY DEF IInv, TInv
<1> QED
  BY <1>1, InvHolds, PTL

\* A file that finish renames into the receive directory is what its source
\* file was at some moment: the hash that OutgoingFile::open took reaches the
\* verification unchanged, and no other session writes the part file.
THEOREM NoTornFileHolds == Spec => []NoTornFile
<1>1. IInv => NoTornFile
  BY DEF IInv
<1> QED
  BY <1>1, InvHolds, PTL

\* Dropping IncomingFileWriter removes the part file on every path out of
\* receive_offered_file; only a killed process leaves one.
THEOREM NoOrphanPartHolds == Spec => []NoOrphanPart
<1>1. IInv => NoOrphanPart
  BY DEF IInv
<1> QED
  BY <1>1, InvHolds, PTL

\* send_file_to_peer fails for a cause of its own: an edit, a cut, a refusal, a
\* timeout, a disk error, a kill, and never because of another transfer.
THEOREM FailsForCauseHolds == Spec => []FailsForCause
<1>1. IInv => FailsForCause
  BY DEF IInv, AllFine, Fine, FailsForCause, Opening, Flowing, Arrived
<1> QED
  BY <1>1, InvHolds, PTL
=============================================================================
