-------------------------- MODULE HostBridgeProofs --------------------------
(***************************************************************************)
(* Proofs about the Windows host, for any number of texts, images and      *)
(* fetching threads, any length of the histories and of the list of        *)
(* hashes, and any number of copies, remote clips, commands and failures.  *)
(***************************************************************************)
EXTENDS HostBridge, SequenceTheorems, FiniteSetTheorems, WellFoundedInduction, TLAPS

-----------------------------------------------------------------------------
(* The inductive invariant *)

\* A handler that runs was started, and it holds what it took.
HandlerInv ==
    /\ mode = "none" => handler = Waiting /\ events = 0
    /\ handler.pc \in StorePcs => handler.item \in Images
    /\ handler.pc = "echo" => handler.item \in Texts
    /\ \A f \in Fetchers : fetch[f].pc # "idle" => fetch[f].img \in Images
    /\ ui.pc \in StorePcs => ui.img \in Images
    /\ ui.pc = "idle" => ui = Unlocked

\* The only entry that can be listed as sending is the newest one.
SendingIsNewest ==
    /\ \A i \in DOMAIN files : files[i].status = "sending" => i = 1 /\ ui.pc \in {"file", "hung"}
    /\ ui.pc = "file" => files # <<>>

\* remember_hash saw the image, though it may have dropped it since.
Remembered(img) == Contains(recent, img) \/ img \in forgotten

\* A received image is remembered before it gets to the clipboard.
ImagesRemembered ==
    /\ \A f \in Fetchers : fetch[f].pc \in {"push", "bytes", "write"} => Remembered(fetch[f].img)
    /\ clip.item \in Images /\ ~clip.mine => Remembered(clip.item)
    /\ handler.pc = "hash" /\ ~handler.mine => Remembered(handler.item)
    /\ handler.pc = "publish" /\ ~handler.mine => handler.item \in forgotten

\* Echoes that may still come: clipboard changes the handler has not read,
\* what it has read, what is about to be written, and a poller that is about to
\* start and will take what is on the clipboard for new.
Unseen ==
    CASE mode = "native" -> events
      [] mode = "poller" -> IF clip.item \in Texts /\ clip.item # handler.lastText THEN 1 ELSE 0
      [] OTHER -> 0
Reading == IF handler.pc = "echo" \/ (mode = "native" /\ handler.pc = "text") THEN 1 ELSE 0
Writing == IF worker # None THEN 1 ELSE 0
Fetching == Cardinality({f \in Fetchers : fetch[f].pc # "idle"})
Restarting == IF ui.next = "start" \/ ui.pc \in {"start", "wire", "spawn"} THEN 1 ELSE 0

\* Each of them has been paid for by a copy, a remote clip or a command.
Slack ==
    remote + copies + commands - (echoes + Unseen + Reading + Writing + Fetching + Restarting)

Marked(text) == echo # None /\ echo.text = text

\* When a text that a remote clip wrote is not the one that is marked, the
\* marked one is still to be written or to be read, or never will be.
EchoInv ==
    /\ Slack >= 0
    /\ worker # None => Marked(worker)
    /\ worker = None /\ clip.item \in Texts /\ ~clip.mine /\ ~Marked(clip.item) => Slack >= 1
    /\ worker = None /\ handler.pc = "echo" /\ ~handler.mine /\ ~Marked(handler.item) =>
          Unseen >= 1 \/ Slack >= 1

\* start runs after stop, which has ended the handler.
StartAfterStop == ui.pc \in {"start", "wire", "spawn"} => mode = "none"

TInv == TypeOK /\ HandlerInv
IInv == TInv /\ SendingIsNewest /\ ListedIsSavable /\ ImagesRemembered /\ ImageEchoNeedsEviction
        /\ StartAfterStop /\ EchoInv /\ EchoesDieOut

-----------------------------------------------------------------------------
(* Sequences *)

LEMMA MinIsLeast ==
    ASSUME NEW S \in SUBSET Nat, S # {}
    PROVE  Min(S) \in S /\ \A y \in S : Min(S) <= y
<1> DEFINE less == {d \in Nat \X Nat : d[1] < d[2]}
<1>1. IsWellFoundedOn(less, Nat)
  BY NatLessThanWellFounded DEF OpToRel
<1>2. PICK x \in S : \A y \in S : ~(<<y, x>> \in less)
  <2> HIDE DEF less
  <2> QED
    BY <1>1, WFMin
<1>3. ASSUME NEW y \in S
      PROVE  x =< y
  <2>1. x \in Nat /\ y \in Nat
    OBVIOUS
  <2>2. ~(y < x)
    BY <1>2, <2>1
  <2> QED
    BY <2>1, <2>2
<1> QED
  BY <1>3 DEF Min

\* VecDeque::remove.
LEMMA RemoveAtIs ==
    ASSUME NEW S, NEW s \in Seq(S), NEW n \in 1..Len(s)
    PROVE  /\ RemoveAt(s, n) \in Seq(S) /\ Len(RemoveAt(s, n)) = Len(s) - 1
           /\ \A i \in 1..(Len(s) - 1) :
                 RemoveAt(s, n)[i] = IF i < n THEN s[i] ELSE s[i + 1]
<1> DEFINE left == SubSeq(s, 1, n - 1)
           right == SubSeq(s, n + 1, Len(s))
<1>1. /\ left \in Seq(S) /\ Len(left) = n - 1
      /\ \A i \in 1..(n - 1) : left[i] = s[i]
  BY SubSeqProperties
<1>2. /\ right \in Seq(S) /\ Len(right) = Len(s) - n
      /\ \A i \in 1..(Len(s) - n) : right[i] = s[n + i]
  BY SubSeqProperties
<1> HIDE DEF left, right
<1>3. /\ left \o right \in Seq(S) /\ Len(left \o right) = Len(s) - 1
      /\ \A i \in 1..(Len(s) - 1) :
            (left \o right)[i] = IF i < n THEN s[i] ELSE s[i + 1]
  <2>1. left \o right \in Seq(S) /\ Len(left \o right) = Len(s) - 1
    <3>1. left \o right \in Seq(S) /\ Len(left \o right) = Len(left) + Len(right)
      BY <1>1, <1>2, ConcatProperties
    <3>2. (n - 1) + (Len(s) - n) = Len(s) - 1
      OBVIOUS
    <3> QED
      BY <1>1, <1>2, <3>1, <3>2
  <2>2. ASSUME NEW i \in 1..(Len(s) - 1), i < n
        PROVE  (left \o right)[i] = s[i]
    BY <1>1, <1>2, <2>2
  <2>3. ASSUME NEW i \in 1..(Len(s) - 1), ~(i < n)
        PROVE  (left \o right)[i] = s[i + 1]
    <3>1. i - (n - 1) \in 1..(Len(s) - n) /\ n + (i - (n - 1)) = i + 1
      BY <2>3
    <3>2. right[i - (n - 1)] = s[i + 1]
      BY <1>2, <3>1
    <3> QED
      BY <1>1, <1>2, <2>3, <3>2
  <2> QED
    BY <2>1, <2>2, <2>3
<1> QED
  BY <1>3 DEF RemoveAt, left, right

\* Removing the first occurrence of an element loses no other element.
LEMMA RemoveFirstKeeps ==
    ASSUME NEW S, NEW s \in Seq(S), NEW h
    PROVE  /\ RemoveFirst(s, h) \in Seq(S)
           /\ Len(RemoveFirst(s, h)) <= Len(s)
           /\ \A e : Contains(s, e) /\ e # h => Contains(RemoveFirst(s, h), e)
<1>1. CASE ~\E i \in 1..Len(s) : s[i] = h
  BY <1>1 DEF RemoveFirst
<1>2. CASE \E i \in 1..Len(s) : s[i] = h
  <2> DEFINE I == {i \in 1..Len(s) : s[i] = h}
             n == Min(I)
  <2>1. n \in 1..Len(s) /\ s[n] = h
    <3>1. I \in SUBSET Nat /\ I # {}
      BY <1>2
    <3>2. Min(I) \in I
      BY <3>1, MinIsLeast
    <3> QED
      BY <3>2
  <2>2. RemoveFirst(s, h) = RemoveAt(s, n)
    BY <1>2 DEF RemoveFirst, SelectInSeq
  <2> HIDE DEF I, n
  <2>3. /\ RemoveAt(s, n) \in Seq(S) /\ Len(RemoveAt(s, n)) = Len(s) - 1
        /\ \A i \in 1..(Len(s) - 1) : RemoveAt(s, n)[i] = IF i < n THEN s[i] ELSE s[i + 1]
    BY <2>1, RemoveAtIs
  <2>4. ASSUME NEW e, Contains(s, e), e # h
        PROVE  Contains(RemoveAt(s, n), e)
    <3>1. PICK i \in 1..Len(s) : s[i] = e
      BY <2>4 DEF Contains
    <3>2. CASE i < n
      BY <2>1, <2>3, <3>1, <3>2 DEF Contains
    <3>3. CASE i > n
      <4>1. i - 1 \in 1..(Len(s) - 1) /\ ~(i - 1 < n) /\ (i - 1) + 1 = i
        BY <2>1, <3>3
      <4>2. RemoveAt(s, n)[i - 1] = e
        BY <2>3, <3>1, <4>1
      <4> QED
        BY <2>3, <4>1, <4>2 DEF Contains
    <3> QED
      BY <2>1, <2>4, <3>1, <3>2, <3>3
  <2> QED
    BY <2>2, <2>3, <2>4
<1> QED
  BY <1>1, <1>2

\* push_front, and pop_back when the queue is too long.
LEMMA PushedFront ==
    ASSUME NEW S, NEW s \in Seq(S), NEW e \in S
    PROVE  LET h == <<e>> \o s
           IN  /\ h \in Seq(S) /\ Len(h) = Len(s) + 1 /\ h[1] = e
               /\ \A i \in 2..Len(h) : h[i] = s[i - 1]
               /\ Front(h) \in Seq(S) /\ Len(Front(h)) = Len(s)
               /\ \A i \in 1..Len(s) : Front(h)[i] = h[i]
               /\ Last(h) \in S /\ Last(h) = h[Len(h)]
<1> DEFINE h == <<e>> \o s
<1>1. h \in Seq(S) /\ Len(h) = Len(s) + 1 /\ h[1] = e
      /\ \A i \in 2..Len(h) : h[i] = s[i - 1]
  OBVIOUS
<1> HIDE DEF h
<1>2. /\ Front(h) \in Seq(S) /\ Len(Front(h)) = Len(s)
      /\ \A i \in 1..Len(s) : Front(h)[i] = h[i]
  BY <1>1, SubSeqProperties DEF Front
<1>3. Last(h) \in S /\ Last(h) = h[Len(h)]
  BY <1>1 DEF Last
<1> QED
  BY <1>1, <1>2, <1>3 DEF h

-----------------------------------------------------------------------------
(* The helpers of the bridge *)

ClipRecs == [item : Items \cup {None}, mine : BOOLEAN]
FetchRecs == [pc : {"idle", "fetch", "push", "bytes", "write"}, img : Images \cup {None}]
HandlerRecs == [pc : StorePcs \cup {"idle", "text", "echo"},
                item : Items \cup {None}, mine : BOOLEAN,
                lastText : Texts \cup {None}, lastImage : Images \cup {None}]
UiRecs == [pc : StorePcs \cup {"idle", "file", "hung", "stop", "join", "start", "wire",
                               "spawn", "exited"},
           img : Images \cup {None}, left : Nat, next : {"idle", "start", "exited"}]
FileRecs == [id : 1..MaxCommands, status : {"sending", "ended"}]

\* remember_hash forgets only what falls off the front.
LEMMA Remembering ==
    ASSUME recent \in Seq(Images), Len(recent) <= HASH_CAP, forgotten \subseteq Images,
           NEW h \in Images, RememberHash(h)
    PROVE  /\ recent' \in Seq(Images) /\ Len(recent') <= HASH_CAP /\ forgotten' \subseteq Images
           /\ forgotten \subseteq forgotten'
           /\ \A img : Remembered(img) \/ img = h => Remembered(img)'
<1> DEFINE r == RemoveFirst(recent, h)
           q == Append(r, h)
<1>1. /\ r \in Seq(Images) /\ Len(r) <= Len(recent)
      /\ \A e : Contains(recent, e) /\ e # h => Contains(r, e)
  BY RemoveFirstKeeps
<1>2. /\ recent' = IF Len(q) > HASH_CAP THEN Tail(q) ELSE q
      /\ forgotten' = IF Len(q) > HASH_CAP THEN forgotten \cup {Head(q)} ELSE forgotten
  BY DEF RememberHash
<1> HIDE DEF r
<1>3. /\ q \in Seq(Images) /\ q # <<>> /\ Len(q) = Len(r) + 1
      /\ \A i \in 1..Len(r) : q[i] = r[i]
      /\ q[Len(r) + 1] = h
  BY <1>1, AppendProperties
<1>4. \A e : Contains(recent, e) \/ e = h => Contains(q, e)
  <2>1. ASSUME NEW e, Contains(recent, e), e # h
        PROVE  Contains(q, e)
    <3>1. PICK i \in 1..Len(r) : r[i] = e
      BY <1>1, <2>1 DEF Contains
    <3>2. i \in 1..Len(q) /\ q[i] = e
      BY <1>1, <1>3, <3>1
    <3> QED
      BY <3>2 DEF Contains
  <2>2. Contains(q, h)
    BY <1>1, <1>3 DEF Contains
  <2> QED
    BY <2>1, <2>2
<1> HIDE DEF q
<1>5. /\ Head(q) \in Images /\ Tail(q) \in Seq(Images) /\ Len(Tail(q)) = Len(q) - 1
      /\ Head(q) = q[1] /\ \A i \in 1..(Len(q) - 1) : Tail(q)[i] = q[i + 1]
  BY <1>3, HeadTailProperties
<1>6. ASSUME NEW e, Contains(q, e), e # Head(q)
      PROVE  Contains(Tail(q), e)
  <2>1. PICK i \in 1..Len(q) : q[i] = e
    BY <1>6 DEF Contains
  <2>2. i - 1 \in 1..(Len(q) - 1) /\ (i - 1) + 1 = i
    BY <1>3, <1>5, <1>6, <2>1
  <2>3. Tail(q)[i - 1] = e
    BY <1>5, <2>1, <2>2
  <2> QED
    BY <1>5, <2>2, <2>3 DEF Contains
<1>7. /\ recent' \in Seq(Images) /\ Len(recent') <= HASH_CAP
  BY <1>1, <1>2, <1>3, <1>5, BridgeAssumption
<1>8. forgotten' \subseteq Images /\ forgotten \subseteq forgotten'
  BY <1>2, <1>5
<1>9. ASSUME NEW img, Remembered(img) \/ img = h
      PROVE  Remembered(img)'
  BY <1>2, <1>4, <1>6, <1>9 DEF Remembered
<1> QED
  BY <1>7, <1>8, <1>9

\* store_history: what is listed was listed before or is the new entry, and
\* bytes go only with the entry that goes, or leave a twin behind.
LEMMA Pushing ==
    ASSUME history \in Seq(Ids), Len(history) <= HISTORY_LIMIT, bytes \subseteq Ids,
           twins \subseteq Ids, NEW id \in Ids, PushHistory(id)
    PROVE  /\ history' \in Seq(Ids) /\ Len(history') <= HISTORY_LIMIT
           /\ bytes' \subseteq Ids /\ twins' \subseteq Ids
           /\ \A i \in DOMAIN history' :
                 \/ history'[i] = id
                 \/ \E j \in DOMAIN history : history'[i] = history[j]
           /\ \A i \in DOMAIN history' :
                 history'[i] \in bytes \cup twins => history'[i] \in bytes' \cup twins'
<1> DEFINE h == <<id>> \o history
<1>1. /\ h \in Seq(Ids) /\ Len(h) = Len(history) + 1 /\ h[1] = id
      /\ \A i \in 2..Len(h) : h[i] = history[i - 1]
      /\ Front(h) \in Seq(Ids) /\ Len(Front(h)) = Len(history)
      /\ \A i \in 1..Len(history) : Front(h)[i] = h[i]
      /\ Last(h) \in Ids
  BY SMTT(30), PushedFront
<1>2. /\ history' = IF Len(h) > HISTORY_LIMIT THEN Front(h) ELSE h
      /\ bytes' = IF Len(h) > HISTORY_LIMIT THEN bytes \ {Last(h)} ELSE bytes
      /\ twins' = IF Len(h) > HISTORY_LIMIT /\ Contains(Front(h), Last(h))
                  THEN twins \cup {Last(h)} ELSE twins
  BY DEF PushHistory
<1> HIDE DEF h
<1>3. history' \in Seq(Ids) /\ Len(history') <= HISTORY_LIMIT
  BY <1>1, <1>2, BridgeAssumption
<1>4. bytes' \subseteq Ids /\ twins' \subseteq Ids
  BY <1>1, <1>2
<1>5. ASSUME NEW i \in DOMAIN history'
      PROVE  i \in 1..Len(h) /\ history'[i] = h[i]
  BY SMTT(30), <1>1, <1>2, <1>5
<1>6. ASSUME NEW i \in DOMAIN history'
      PROVE  history'[i] = id \/ \E j \in DOMAIN history : history'[i] = history[j]
  <2>1. i \in 1..Len(h) /\ history'[i] = h[i]
    BY <1>5
  <2>2. CASE i = 1
    BY <1>1, <2>1, <2>2
  <2>3. CASE i # 1
    <3>1. i \in 2..Len(h) /\ i - 1 \in DOMAIN history
      BY <1>1, <2>1, <2>3
    <3> QED
      BY <1>1, <2>1, <3>1
  <2> QED
    BY <2>2, <2>3
<1>7. ASSUME NEW i \in DOMAIN history', history'[i] \in bytes \cup twins
      PROVE  history'[i] \in bytes' \cup twins'
  <2>1. CASE Len(h) > HISTORY_LIMIT /\ history'[i] = Last(h)
    <3>1. Contains(Front(h), Last(h))
      BY <1>2, <2>1 DEF Contains
    <3> QED
      BY <1>2, <2>1, <3>1
  <2>2. CASE ~(Len(h) > HISTORY_LIMIT /\ history'[i] = Last(h))
    BY <1>2, <1>7, <2>2
  <2> QED
    BY <2>1, <2>2
<1> QED
  BY <1>3, <1>4, <1>6, <1>7

\* store_file_history: the new entry is in front, and the entries behind it were
\* listed before, the replaced one not among them.
LEMMA Upserting ==
    ASSUME files \in Seq(FileRecs), Len(files) <= HISTORY_LIMIT,
           NEW entry \in FileRecs, Upsert(entry)
    PROVE  /\ files' \in Seq(FileRecs) /\ Len(files') <= HISTORY_LIMIT
           /\ files' # <<>> /\ files'[1] = entry
           /\ \A i \in DOMAIN files' : i # 1 =>
                 \E j \in DOMAIN files :
                    /\ files'[i] = files[j]
                    /\ entry.id = files[1].id => j # 1
<1> DEFINE rest == RemoveFirstMatch(files, LAMBDA e : e.id = entry.id)
<1>1. /\ rest \in Seq(FileRecs) /\ Len(rest) <= Len(files)
      /\ \A i \in DOMAIN rest : \E j \in DOMAIN files :
            rest[i] = files[j] /\ (entry.id = files[1].id => j # 1)
  <2>1. CASE ~\E i \in 1..Len(files) : files[i].id = entry.id
    <3>1. rest = files
      BY <2>1 DEF RemoveFirstMatch
    <3>2. files # <<>> => entry.id # files[1].id
      BY <2>1
    <3> HIDE DEF rest
    <3>3. ASSUME NEW i \in DOMAIN rest
          PROVE  \E j \in DOMAIN files :
                    rest[i] = files[j] /\ (entry.id = files[1].id => j # 1)
      BY <3>1, <3>2, <3>3
    <3> QED
      BY <3>1, <3>3
  <2>2. CASE \E i \in 1..Len(files) : files[i].id = entry.id
    <3> DEFINE I == {i \in 1..Len(files) : files[i].id = entry.id}
               n == Min(I)
    <3>1. rest = RemoveAt(files, n)
      BY <2>2 DEF RemoveFirstMatch, SelectInSeq
    <3>2. I \in SUBSET Nat /\ I # {}
      BY <2>2
    <3>3. n \in I /\ \A y \in I : n <= y
      BY <3>2, MinIsLeast
    <3>4. n \in 1..Len(files) /\ (entry.id = files[1].id => n = 1)
      BY <3>3
    <3> HIDE DEF n, I, rest
    <3>5. /\ rest \in Seq(FileRecs) /\ Len(rest) = Len(files) - 1
          /\ \A i \in 1..(Len(files) - 1) : rest[i] = IF i < n THEN files[i] ELSE files[i + 1]
      BY <3>1, <3>4, RemoveAtIs
    <3>6. ASSUME NEW i \in DOMAIN rest
          PROVE  \E j \in DOMAIN files :
                    rest[i] = files[j] /\ (entry.id = files[1].id => j # 1)
      <4>1. i \in 1..(Len(files) - 1)
        BY <3>5
      <4>2. CASE i < n
        BY <3>4, <3>5, <4>1, <4>2
      <4>3. CASE ~(i < n)
        <5>1. i + 1 \in DOMAIN files /\ i + 1 # 1 /\ rest[i] = files[i + 1]
          BY <3>5, <4>1, <4>3
        <5> QED
          BY <5>1
      <4> QED
        BY <4>2, <4>3
    <3> QED
      BY <3>5, <3>6
  <2> QED
    BY <2>1, <2>2
<1>2. PICK r \in Seq(FileRecs) :
          /\ Len(r) <= Len(files)
          /\ \A i \in DOMAIN r : \E j \in DOMAIN files :
                r[i] = files[j] /\ (entry.id = files[1].id => j # 1)
          /\ files' = IF Len(<<entry>> \o r) > HISTORY_LIMIT THEN Front(<<entry>> \o r)
                                                             ELSE <<entry>> \o r
  <2>1. files' = IF Len(<<entry>> \o rest) > HISTORY_LIMIT THEN Front(<<entry>> \o rest)
                                                           ELSE <<entry>> \o rest
    BY DEF Upsert
  <2> HIDE DEF rest
  <2> QED
    BY <1>1, <2>1
<1> DEFINE h == <<entry>> \o r
<1>8. files' = IF Len(h) > HISTORY_LIMIT THEN Front(h) ELSE h
  BY <1>2
<1>3. /\ h \in Seq(FileRecs) /\ Len(h) = Len(r) + 1 /\ h[1] = entry
      /\ \A i \in 2..Len(h) : h[i] = r[i - 1]
      /\ Front(h) \in Seq(FileRecs) /\ Len(Front(h)) = Len(r)
      /\ \A i \in 1..Len(r) : Front(h)[i] = h[i]
  <2>1. h \in Seq(FileRecs) /\ Len(h) = Len(r) + 1
    BY PushedFront
  <2>2. h[1] = entry
    BY PushedFront
  <2>3. \A i \in 2..Len(h) : h[i] = r[i - 1]
    BY PushedFront
  <2>4. Front(h) \in Seq(FileRecs) /\ Len(Front(h)) = Len(r)
    BY PushedFront
  <2>5. \A i \in 1..Len(r) : Front(h)[i] = h[i]
    BY PushedFront
  <2> QED
    BY <2>1, <2>2, <2>3, <2>4, <2>5
<1> HIDE DEF h
<1>4. files' \in Seq(FileRecs) /\ Len(files') <= HISTORY_LIMIT
  <2>1. CASE Len(h) > HISTORY_LIMIT
    <3>1. files' = Front(h)
      BY <1>8, <2>1
    <3>2. Len(r) <= Len(files) /\ Len(r) \in Nat /\ Len(files) \in Nat /\ HISTORY_LIMIT \in Nat
      BY <1>2, BridgeAssumption
    <3> QED
      BY <1>3, <3>1, <3>2
  <2>2. CASE ~(Len(h) > HISTORY_LIMIT)
    BY <1>2, <1>3, <1>8, <2>2, BridgeAssumption
  <2> QED
    BY <2>1, <2>2
<1>5. /\ Len(files') >= 1
      /\ \A i \in DOMAIN files' : i \in 1..Len(h) /\ files'[i] = h[i]
  <2>1. CASE Len(h) > HISTORY_LIMIT
    <3>1. files' = Front(h) /\ DOMAIN files' = 1..Len(r)
      BY <1>2, <1>3, <1>8, <1>4, <2>1
    <3>2. Len(r) \in Nat /\ Len(r) >= 1
      BY <1>2, <1>3, <1>8, <2>1, BridgeAssumption
    <3> QED
      BY <1>3, <3>1, <3>2
  <2>2. CASE ~(Len(h) > HISTORY_LIMIT)
    <3>1. files' = h /\ DOMAIN files' = 1..Len(h)
      BY <1>2, <1>3, <1>8, <1>4, <2>2
    <3> QED
      BY <1>2, <1>3, <1>8, <3>1
  <2> QED
    BY <2>1, <2>2
<1>6. files' # <<>> /\ files'[1] = entry
  BY <1>3, <1>4, <1>5
<1>7. ASSUME NEW i \in DOMAIN files', i # 1
      PROVE  \E j \in DOMAIN files :
                files'[i] = files[j] /\ (entry.id = files[1].id => j # 1)
  <2>1. i \in 2..Len(h) /\ files'[i] = h[i]
    BY <1>3, <1>5, <1>7
  <2>2. i - 1 \in DOMAIN r /\ files'[i] = r[i - 1]
    BY <1>2, <1>3, <1>8, <2>1
  <2> QED
    BY <1>2, <2>2
<1> QED
  BY <1>4, <1>6, <1>7

-----------------------------------------------------------------------------
(* Types *)

LEMMA Records ==
    TypeOK <=>
    /\ clip \in ClipRecs
    /\ session \in {"off", "new", "on"} /\ mode \in {"none", "native", "poller"}
    /\ events \in Nat
    /\ echo \in [text : Texts, fresh : BOOLEAN] \cup {None}
    /\ recent \in Seq(Images) /\ Len(recent) <= HASH_CAP
    /\ worker \in Texts \cup {None}
    /\ fetch \in [Fetchers -> FetchRecs]
    /\ handler \in HandlerRecs
    /\ ui \in UiRecs
    /\ quitting \in BOOLEAN /\ owed \in BOOLEAN
    /\ history \in Seq(Ids) /\ Len(history) <= HISTORY_LIMIT
    /\ bytes \subseteq Ids
    /\ files \in Seq(FileRecs)
    /\ Len(files) <= HISTORY_LIMIT
    /\ copies \in 0..MaxCopies /\ remote \in 0..MaxRemote
    /\ commands \in 0..MaxCommands /\ faults \in 0..MaxFaults /\ echoes \in Nat
    /\ echoed \subseteq Images /\ forgotten \subseteq Images /\ twins \subseteq Ids
BY DEF TypeOK, ClipRecs, FetchRecs, HandlerRecs, UiRecs, FileRecs

LEMMA RecordsNext ==
    ASSUME clip' \in ClipRecs,
           session' \in {"off", "new", "on"}, mode' \in {"none", "native", "poller"},
           events' \in Nat,
           echo' \in [text : Texts, fresh : BOOLEAN] \cup {None},
           recent' \in Seq(Images), Len(recent') <= HASH_CAP,
           worker' \in Texts \cup {None},
           fetch' \in [Fetchers -> FetchRecs],
           handler' \in HandlerRecs,
           ui' \in UiRecs,
           quitting' \in BOOLEAN, owed' \in BOOLEAN,
           history' \in Seq(Ids), Len(history') <= HISTORY_LIMIT,
           bytes' \subseteq Ids,
           files' \in Seq(FileRecs),
           Len(files') <= HISTORY_LIMIT,
           copies' \in 0..MaxCopies, remote' \in 0..MaxRemote,
           commands' \in 0..MaxCommands, faults' \in 0..MaxFaults, echoes' \in Nat,
           echoed' \subseteq Images, forgotten' \subseteq Images, twins' \subseteq Ids
    PROVE  TypeOK'
BY DEF TypeOK, ClipRecs, FetchRecs, HandlerRecs, UiRecs, FileRecs

\* How the handler's thread moves.
LEMMA HandlerMoves ==
    ASSUME handler \in HandlerRecs, clip \in ClipRecs
    PROVE  /\ \A pc \in StorePcs \cup {"idle", "text", "echo"} : HandlerGoes(pc) =>
                 /\ handler' \in HandlerRecs /\ handler'.pc = pc
                 /\ handler'.item = handler.item /\ handler'.mine = handler.mine
                 /\ handler'.lastText = handler.lastText
           /\ HandlerEnds => /\ handler' \in HandlerRecs /\ handler'.pc = "idle"
                             /\ handler'.lastText = handler.lastText
           /\ \A pc \in StorePcs \cup {"idle", "text", "echo"} :
              \A t \in Texts \cup {None}, i \in Images \cup {None} : HandlerTakes(pc, t, i) =>
                 /\ handler' \in HandlerRecs /\ handler'.pc = pc
                 /\ handler'.item = clip.item /\ handler'.mine = clip.mine
                 /\ handler'.lastText = IF mode = "poller" THEN t ELSE None
<1>1. ASSUME NEW pc \in StorePcs \cup {"idle", "text", "echo"}, HandlerGoes(pc)
      PROVE  /\ handler' \in HandlerRecs /\ handler'.pc = pc
             /\ handler'.item = handler.item /\ handler'.mine = handler.mine
             /\ handler'.lastText = handler.lastText
  BY <1>1 DEF HandlerGoes, HandlerRecs
<1>2. ASSUME HandlerEnds
      PROVE  /\ handler' \in HandlerRecs /\ handler'.pc = "idle"
             /\ handler'.lastText = handler.lastText
  BY <1>2 DEF HandlerEnds, HandlerRecs
<1>3. ASSUME NEW pc \in StorePcs \cup {"idle", "text", "echo"},
             NEW t \in Texts \cup {None}, NEW i \in Images \cup {None}, HandlerTakes(pc, t, i)
      PROVE  /\ handler' \in HandlerRecs /\ handler'.pc = pc
             /\ handler'.item = clip.item /\ handler'.mine = clip.mine
             /\ handler'.lastText = IF mode = "poller" THEN t ELSE None
  <2>1. clip.item \in Items \cup {None} /\ clip.mine \in BOOLEAN
    BY DEF ClipRecs
  <2>2. PICK lt \in Texts \cup {None}, li \in Images \cup {None} :
           /\ lt = IF mode = "poller" THEN t ELSE None
           /\ handler' = [handler EXCEPT !.pc = pc, !.item = clip.item, !.mine = clip.mine,
                              !.lastText = lt, !.lastImage = li]
    <3>1. /\ (IF mode = "poller" THEN t ELSE None) \in Texts \cup {None}
          /\ (IF mode = "poller" THEN i ELSE None) \in Images \cup {None}
      BY <1>3
    <3> QED
      BY <1>3, <3>1, Zenon DEF HandlerTakes
  <2>3. handler' = [pc |-> pc, item |-> clip.item, mine |-> clip.mine,
                    lastText |-> lt, lastImage |-> li]
    BY <2>2 DEF HandlerRecs
  <2>4. /\ handler' \in HandlerRecs
    BY <1>3, <2>1, <2>3 DEF HandlerRecs
  <2>5. /\ handler'.pc = pc /\ handler'.item = clip.item /\ handler'.mine = clip.mine
        /\ handler'.lastText = lt
    BY <2>3
  <2> QED
    BY <2>2, <2>4, <2>5
<1> QED
  BY <1>1, <1>2, <1>3

\* How the command moves.
LEMMA UiMoves ==
    ASSUME ui \in UiRecs
    PROVE  /\ Unlocked \in UiRecs /\ Unlocked.pc = "idle" /\ Unlocked.next = "idle"
           /\ \A pc \in StorePcs \cup {"idle", "file", "hung", "stop", "join", "start", "wire",
                                       "spawn", "exited"} : UiGoes(pc) =>
                 ui' \in UiRecs /\ ui'.pc = pc /\ ui'.img = ui.img /\ ui'.next = ui.next
BY DEF UiRecs, UiGoes, Unlocked

\* How the thread of a received image moves.
LEMMA FetchMoves ==
    ASSUME fetch \in [Fetchers -> FetchRecs], NEW f \in Fetchers
    PROVE  /\ \A pc \in {"idle", "fetch", "push", "bytes", "write"} : FetchGoes(f, pc) =>
                 /\ fetch' \in [Fetchers -> FetchRecs]
                 /\ fetch'[f].pc = pc /\ fetch'[f].img = fetch[f].img
                 /\ \A g \in Fetchers : g # f => fetch'[g] = fetch[g]
           /\ FetchEnds(f) =>
                 /\ fetch' \in [Fetchers -> FetchRecs] /\ fetch'[f].pc = "idle"
                 /\ \A g \in Fetchers : g # f => fetch'[g] = fetch[g]
<1>1. Idle \in FetchRecs /\ Idle.pc = "idle"
  BY DEF Idle, FetchRecs
<1>2. ASSUME NEW pc \in {"idle", "fetch", "push", "bytes", "write"}, FetchGoes(f, pc)
      PROVE  /\ fetch' \in [Fetchers -> FetchRecs]
             /\ fetch'[f].pc = pc /\ fetch'[f].img = fetch[f].img
             /\ \A g \in Fetchers : g # f => fetch'[g] = fetch[g]
  BY <1>2 DEF FetchGoes, FetchRecs
<1>3. ASSUME FetchEnds(f)
      PROVE  /\ fetch' \in [Fetchers -> FetchRecs] /\ fetch'[f].pc = "idle"
             /\ \A g \in Fetchers : g # f => fetch'[g] = fetch[g]
  BY <1>1, <1>3 DEF FetchEnds
<1> QED
  BY <1>2, <1>3

\* What is put on the clipboard.
LEMMA ClipMoves ==
    ASSUME clip \in ClipRecs, events \in Nat, NEW item \in Items, SetClipboard(item)
    PROVE  /\ clip' \in ClipRecs /\ clip'.item = item /\ clip'.mine = FALSE
           /\ events' \in Nat /\ events' = IF mode = "native" THEN events + 1 ELSE events
           /\ owed' \in BOOLEAN /\ UNCHANGED <<copies, faults>>
<1>1. /\ clip' = [item |-> item, mine |-> FALSE] /\ owed' = FALSE
      /\ events' = IF mode = "native" THEN events + 1 ELSE events
      /\ UNCHANGED <<copies, faults>>
  BY DEF SetClipboard, Posted
<1>2. owed' \in BOOLEAN
  BY <1>1
<1>3. clip' \in ClipRecs /\ clip'.item = item /\ clip'.mine = FALSE
  BY <1>1 DEF ClipRecs
<1>4. events' \in Nat
  BY <1>1
<1> QED
  BY <1>1, <1>2, <1>3, <1>4

LEMMA OwedIsBoolean ==
    ASSUME owed \in BOOLEAN
    PROVE  (\A left : Missed(left) \in BOOLEAN) /\ Settled \in BOOLEAN
BY DEF Missed, Settled

\* Another application holds the clipboard.
LEMMA BusyCounts ==
    ASSUME TypeOK, ClipboardBusy
    PROVE  faults' \in 0..MaxFaults
BY SMTT(30), BridgeAssumption DEF TypeOK, ClipboardBusy

-----------------------------------------------------------------------------
(* Types, and what a running handler holds *)

\* How a message, or a round of the poller, begins.
LEMMA UpdateMoves ==
    ASSUME TypeOK, ClipboardUpdate
    PROVE  /\ mode # "none" /\ events' \in Nat /\ ui' \in UiRecs
           /\ ui'.pc = ui.pc /\ ui'.img = ui.img /\ ui'.next = ui.next
           /\ ui.pc = "idle" => ui' = ui
           /\ mode = "native" => events > 0 /\ events' = events - 1
           /\ mode = "poller" => events' = events
<1>1. ui \in UiRecs /\ events \in Nat
  BY Records
<1>2. CASE mode = "native" /\ events > 0 /\ events' = events - 1
           /\ (ui.pc = "join" => ui.left > 0)
           /\ ui' = IF ui.pc = "join" THEN [ui EXCEPT !.left = @ - 1] ELSE ui
  <2>1. CASE ui.pc = "join"
    <3>1. ui' = [ui EXCEPT !.left = ui.left - 1] /\ ui.left > 0
      BY <1>2, <2>1
    <3>2. ui' \in UiRecs /\ ui'.pc = ui.pc /\ ui'.img = ui.img /\ ui'.next = ui.next
      BY <1>1, <3>1 DEF UiRecs
    <3> QED
      BY <1>1, <1>2, <2>1, <3>2
  <2>2. CASE ui.pc # "join"
    BY <1>1, <1>2, <2>2
  <2> QED
    BY <2>1, <2>2
<1>3. CASE mode = "poller" /\ UNCHANGED <<events, ui>>
  BY <1>1, <1>3
<1> QED
  BY <1>2, <1>3 DEF ClipboardUpdate

\* A step of the clipboard handler.
LEMMA HandlerTypes ==
    ASSUME TInv, HandlerStep
    PROVE  TInv'
<1> USE Records DEF TInv
<1>1. CASE ReadImage
  <2>1. /\ mode # "none" /\ events' \in Nat /\ ui' \in UiRecs
        /\ ui'.pc = ui.pc /\ ui'.img = ui.img /\ (ui.pc = "idle" => ui' = ui)
    BY <1>1, UpdateMoves DEF ReadImage
  <2>2. /\ handler' \in HandlerRecs
        /\ \/ handler'.pc = "hash" /\ handler'.item \in Images
           \/ handler'.pc = "text"
    <3>1. CASE clip.item \in Images /\ HandlerTakes("hash", None, clip.item)
      BY <3>1, HandlerMoves DEF StorePcs
    <3>2. CASE HandlerGoes("text")
      BY <3>2, HandlerMoves
    <3> QED
      BY <1>1, <3>1, <3>2 DEF ReadImage
  <2>3. owed' \in BOOLEAN /\ faults' \in 0..MaxFaults
    <3>1. CASE UNCHANGED <<owed, faults>>
      BY <3>1
    <3>2. CASE ClipboardBusy /\ owed' = Missed(events')
      BY <3>2, OwedIsBoolean, BusyCounts
    <3> QED
      BY <1>1, <3>1, <3>2 DEF ReadImage
  <2>4. UNCHANGED <<clip, session, mode, echo, worker, fetch, quitting, files, copies, remote,
                    commands, recent, forgotten, history, bytes, twins, echoes, echoed>>
    BY <1>1 DEF ReadImage, HandlerOnly, HandlerShares
  <2>5. TypeOK'
    BY <2>1, <2>2, <2>3, <2>4, RecordsNext
  <2>6. HandlerInv'
    BY <2>1, <2>2, <2>4, Zenon DEF HandlerInv, StorePcs
  <2> QED
    BY <2>5, <2>6
<1>2. CASE ReadText
  <2>1. mode # "none"
    BY <1>2 DEF ReadText, HandlerAt, HandlerInv, Waiting
  <2>2. /\ handler' \in HandlerRecs
        /\ \/ handler'.pc = "echo" /\ handler'.item \in Texts
           \/ handler'.pc = "idle"
    <3>1. CASE clip.item \in Texts /\ HandlerTakes("echo", clip.item, None)
      BY <3>1, HandlerMoves
    <3>2. CASE HandlerEnds
      BY <3>2, HandlerMoves
    <3> QED
      BY <1>2, <3>1, <3>2 DEF ReadText
  <2>3. owed' \in BOOLEAN /\ faults' \in 0..MaxFaults
    <3>1. CASE UNCHANGED <<owed, faults>>
      BY <3>1
    <3>2. CASE \E b \in BOOLEAN : owed' = (owed /\ b) /\ UNCHANGED faults
      BY <3>2
    <3>3. CASE ClipboardBusy /\ owed' = Missed(events)
      BY <3>3, OwedIsBoolean, BusyCounts
    <3> QED
      BY <1>2, <3>1, <3>2, <3>3 DEF ReadText
  <2>4. UNCHANGED <<clip, session, mode, echo, worker, fetch, quitting, files, copies, remote,
                    commands, recent, forgotten, history, bytes, twins, echoes, echoed,
                    events, ui>>
    BY <1>2 DEF ReadText, HandlerOnly, HandlerShares
  <2>5. TypeOK'
    BY <2>2, <2>3, <2>4, RecordsNext
  <2>6. HandlerInv'
    BY <2>1, <2>2, <2>4, Zenon DEF HandlerInv, StorePcs
  <2> QED
    BY <2>5, <2>6
<1>3. CASE TryPublishText
  <2>1. mode # "none"
    BY <1>3 DEF TryPublishText, HandlerAt, HandlerInv, Waiting
  <2>2. handler' \in HandlerRecs /\ handler'.pc = "idle"
    BY <1>3, HandlerMoves DEF TryPublishText
  <2>3. owed' \in BOOLEAN /\ echoes' \in Nat
    <3>1. owed' \in BOOLEAN
      BY <1>3, OwedIsBoolean DEF TryPublishText
    <3>2. echoes' \in {echoes, echoes + 1}
      BY <1>3 DEF TryPublishText
    <3> QED
      BY <3>1, <3>2
  <2>4. UNCHANGED <<clip, session, mode, echo, worker, fetch, quitting, files, copies, remote,
                    commands, recent, forgotten, history, bytes, twins, echoed,
                    events, ui, faults>>
    BY <1>3 DEF TryPublishText, HandlerOnly
  <2>5. TypeOK'
    BY <2>2, <2>3, <2>4, RecordsNext
  <2>6. HandlerInv'
    BY <2>1, <2>2, <2>4, Zenon DEF HandlerInv, StorePcs
  <2> QED
    BY <2>5, <2>6
<1>4. CASE TryPublishImage
  <2>1. mode # "none" /\ handler.item \in Images
    BY <1>4 DEF TryPublishImage, HandlerAt, HandlerInv, Waiting, StorePcs
  <2>2. /\ handler' \in HandlerRecs
        /\ \/ handler'.pc = "idle"
           \/ handler'.pc = "publish" /\ handler'.item = handler.item
    BY <1>4, HandlerMoves DEF TryPublishImage, StorePcs
  <2>3. owed' \in BOOLEAN
    BY <1>4, OwedIsBoolean DEF TryPublishImage
  <2>4. recent' \in Seq(Images) /\ Len(recent') <= HASH_CAP /\ forgotten' \subseteq Images
    BY <1>4, <2>1, Remembering DEF TryPublishImage
  <2>5. UNCHANGED <<clip, session, mode, echo, worker, fetch, quitting, files, copies, remote,
                    commands, history, bytes, twins, echoes, echoed, events, ui, faults>>
    BY <1>4 DEF TryPublishImage, HandlerOnly
  <2>6. TypeOK'
    BY <2>2, <2>3, <2>4, <2>5, RecordsNext
  <2>7. HandlerInv'
    BY <2>1, <2>2, <2>5, Zenon DEF HandlerInv, StorePcs
  <2> QED
    BY <2>6, <2>7
<1>5. CASE HandlerPublishes
  <2>1. mode # "none" /\ handler.item \in Images /\ <<"png", handler.item>> \in Ids
    BY <1>5 DEF HandlerPublishes, HandlerAt, HandlerInv, Waiting, StorePcs, Ids
  <2>2. /\ handler' \in HandlerRecs
        /\ \/ handler'.pc = "idle"
           \/ handler'.pc = "bytes" /\ handler'.item = handler.item
    BY <1>5, HandlerMoves DEF HandlerPublishes, StorePcs
  <2>3. owed' \in BOOLEAN
    BY <1>5, OwedIsBoolean DEF HandlerPublishes
  <2>4. /\ history' \in Seq(Ids) /\ Len(history') <= HISTORY_LIMIT
        /\ bytes' \subseteq Ids /\ twins' \subseteq Ids /\ echoed' \subseteq Images
    <3>1. CASE PushHistory(<<"png", handler.item>>)
      BY <1>5, <2>1, <3>1, Pushing DEF HandlerPublishes
    <3>2. CASE UNCHANGED <<echoed, history, bytes, twins>>
      BY <3>2
    <3> QED
      BY <1>5, <3>1, <3>2 DEF HandlerPublishes
  <2>5. UNCHANGED <<clip, session, mode, echo, worker, fetch, quitting, files, copies, remote,
                    commands, recent, forgotten, echoes, events, ui, faults>>
    BY <1>5 DEF HandlerPublishes, HandlerOnly
  <2>6. TypeOK'
    BY <2>2, <2>3, <2>4, <2>5, RecordsNext
  <2>7. HandlerInv'
    BY <2>1, <2>2, <2>5, Zenon DEF HandlerInv, StorePcs
  <2> QED
    BY <2>6, <2>7
<1>6. CASE HandlerStores
  <2>1. mode # "none" /\ handler.item \in Images /\ <<"png", handler.item>> \in Ids
    BY <1>6 DEF HandlerStores, HandlerAt, HandlerInv, Waiting, StorePcs, Ids
  <2>2. handler' \in HandlerRecs /\ handler'.pc = "idle"
    BY <1>6, HandlerMoves DEF HandlerStores
  <2>3. history' = history /\ bytes' \subseteq Ids /\ twins' \subseteq Ids
    BY <1>6, <2>1 DEF HandlerStores, InsertBytes
  <2>4. UNCHANGED <<clip, session, mode, echo, worker, fetch, quitting, files, copies, remote,
                    commands, recent, forgotten, echoes, echoed, events, ui, owed, faults>>
    BY <1>6 DEF HandlerStores, HandlerOnly
  <2>5. TypeOK'
    BY <2>2, <2>3, <2>4, RecordsNext
  <2>6. HandlerInv'
    BY <2>1, <2>2, <2>4, Zenon DEF HandlerInv, StorePcs
  <2> QED
    BY <2>5, <2>6
<1> QED
  BY <1>1, <1>2, <1>3, <1>4, <1>5, <1>6 DEF HandlerStep

\* A step of the thread of a received image.
LEMMA FetchTypes ==
    ASSUME TInv, NEW f \in Fetchers, FetchStep(f)
    PROVE  TInv'
<1> USE Records DEF TInv
<1>1. /\ UNCHANGED <<session, mode, echo, worker, handler, ui, quitting, files,
                     remote, commands, echoes, echoed>>
      /\ fetch[f].pc # "idle"
  BY DEF FetchStep, FetchFails, FetchRemembers, FetchStores, FetchWrites, FetchOnly, FetchAt
<1>2. fetch[f].img \in Images /\ <<"pixels", fetch[f].img>> \in Ids /\ fetch[f].img \in Items
  BY <1>1 DEF HandlerInv, Ids, Items
<1>3. /\ fetch' \in [Fetchers -> FetchRecs]
      /\ \A g \in Fetchers : fetch'[g].pc # "idle" => fetch'[g].img \in Images
  <2>1. FetchEnds(f) \/ \E pc \in {"push", "bytes", "write"} : FetchGoes(f, pc)
    BY DEF FetchStep, FetchFails, FetchRemembers, FetchStores, FetchWrites
  <2>2. /\ fetch' \in [Fetchers -> FetchRecs]
        /\ fetch'[f].pc = "idle" \/ fetch'[f].img = fetch[f].img
        /\ \A g \in Fetchers : g # f => fetch'[g] = fetch[g]
    BY <2>1, FetchMoves
  <2> QED
    BY <1>2, <2>2 DEF HandlerInv
<1>4. /\ clip' \in ClipRecs /\ events' \in Nat /\ owed' \in BOOLEAN /\ copies' = copies
      /\ faults' \in 0..MaxFaults /\ (mode = "none" => events' = events)
  <2>1. CASE SetClipboard(fetch[f].img)
    BY <1>2, <2>1, ClipMoves
  <2>2. CASE ClipboardBusy /\ UNCHANGED clipVars
    BY <2>2, BusyCounts DEF clipVars
  <2>3. CASE UNCHANGED <<clipVars, faults>>
    BY <2>3 DEF clipVars
  <2> QED
    BY <2>1, <2>2, <2>3
       DEF FetchStep, FetchFails, FetchRemembers, FetchStores, FetchWrites
<1>5. recent' \in Seq(Images) /\ Len(recent') <= HASH_CAP /\ forgotten' \subseteq Images
  <2>1. CASE RememberHash(fetch[f].img)
    BY <1>2, <2>1, Remembering
  <2>2. CASE UNCHANGED <<recent, forgotten>>
    BY <2>2
  <2> QED
    BY <2>1, <2>2 DEF FetchStep, FetchFails, FetchRemembers, FetchStores, FetchWrites
<1>6. /\ history' \in Seq(Ids) /\ Len(history') <= HISTORY_LIMIT
      /\ bytes' \subseteq Ids /\ twins' \subseteq Ids
  <2>1. CASE PushHistory(<<"pixels", fetch[f].img>>)
    BY <1>2, <2>1, Pushing
  <2>2. CASE InsertBytes(<<"pixels", fetch[f].img>>)
    BY <1>2, <2>2 DEF InsertBytes
  <2>3. CASE UNCHANGED <<history, bytes, twins>>
    BY <2>3
  <2> QED
    BY <2>1, <2>2, <2>3 DEF FetchStep, FetchFails, FetchRemembers, FetchStores, FetchWrites
<1>7. TypeOK'
  BY <1>1, <1>3, <1>4, <1>5, <1>6, RecordsNext
<1>8. HandlerInv'
  BY <1>1, <1>3, <1>4, Zenon DEF HandlerInv
<1> QED
  BY <1>7, <1>8

\* A command counts, and leaves the rest to its own step.
LEMMA CommandTypes ==
    ASSUME TInv, Command
    PROVE  /\ ui = Unlocked
           /\ commands' = commands + 1 /\ commands' \in 1..MaxCommands
           /\ UNCHANGED <<session, mode, events, owed, handler, quitting, clip, echo, worker,
                          fetch, copies, remote, faults, echoes, echoed, recent, forgotten,
                          history, bytes, twins>>
<1>1. commands \in 0..MaxCommands /\ MaxCommands \in Nat
  BY BridgeAssumption, Records DEF TInv
<1> QED
  BY <1>1 DEF Command, UiOnly, UiKeeps, HandlerInv, TInv

\* A step of the command that holds the bridge's mutex.
LEMMA UiTypes ==
    ASSUME TInv, SendingIsNewest, UiStep
    PROVE  TInv'
<1> USE Records DEF TInv
<1>1. UNCHANGED <<clip, echo, worker, fetch, copies, remote, faults, echoes, echoed,
                  quitting, commands>>
  BY DEF UiStep, SendImageStep, SendFileReturns, QuitLocks, StopClient, JoinHandler,
         StartClient, WireListener, SpawnClipboardHandler, UiOnly
<1>2. ui' \in UiRecs /\ (ui'.pc \in StorePcs => ui'.img \in Images)
      /\ (ui'.pc = "idle" => ui' = Unlocked)
  <2>1. CASE SendImageStep
    <3>1. UiGoes("publish") \/ UiGoes("bytes") \/ ui' = Unlocked
      BY <2>1 DEF SendImageStep
    <3>2. ui.pc \in StorePcs
      BY <2>1 DEF SendImageStep, StorePcs
    <3> QED
      BY <3>1, <3>2, UiMoves DEF HandlerInv, StorePcs
  <2>2. CASE SendFileReturns
    <3>1. UiGoes("hung") \/ ui' = Unlocked
      BY <2>2 DEF SendFileReturns
    <3> QED
      BY <3>1, UiMoves DEF StorePcs
  <2>3. CASE QuitLocks
    BY <2>3 DEF QuitLocks, UiRecs, StorePcs
  <2>4. CASE StopClient
    BY <2>4 DEF StopClient, UiRecs, StorePcs
  <2>5. CASE JoinHandler
    <3>1. ui' = [Unlocked EXCEPT !.pc = ui.next] /\ ui.next \in {"idle", "start", "exited"}
      BY <2>5 DEF JoinHandler, UiRecs
    <3> QED
      BY <3>1 DEF UiRecs, StorePcs, Unlocked
  <2>6. CASE StartClient
    <3>1. UiGoes("wire") \/ ui' = Unlocked
      BY <2>6 DEF StartClient
    <3> QED
      BY <3>1, UiMoves DEF StorePcs
  <2>7. CASE WireListener
    BY <2>7, UiMoves DEF WireListener, StorePcs
  <2>8. CASE SpawnClipboardHandler
    BY <2>8, UiMoves DEF SpawnClipboardHandler, StorePcs
  <2> QED
    BY <2>1, <2>2, <2>3, <2>4, <2>5, <2>6, <2>7, <2>8 DEF UiStep
<1>3. session' \in {"off", "new", "on"} /\ owed' \in BOOLEAN
  <2>1. CASE UNCHANGED <<session, owed>>
    BY <2>1
  <2>2. CASE session' = "off" /\ owed' = FALSE
    BY <2>2
  <2>3. CASE session' \in {"new", "on"} /\ UNCHANGED owed
    BY <2>3
  <2> QED
    BY <2>1, <2>2, <2>3
       DEF UiStep, SendImageStep, SendFileReturns, QuitLocks, StopClient, JoinHandler,
           StartClient, WireListener, SpawnClipboardHandler
<1>4. /\ mode' \in {"none", "native", "poller"} /\ events' \in Nat /\ handler' \in HandlerRecs
      /\ \/ UNCHANGED handler
         \/ handler' = Waiting
      /\ mode' = "none" => handler' = Waiting /\ events' = 0
  <2>1. CASE UNCHANGED <<mode, events, handler>>
    BY <2>1 DEF HandlerInv
  <2>2. CASE mode' = "none" /\ events' = 0 /\ handler' = Waiting
    BY <2>2 DEF Waiting, HandlerRecs
  <2>3. CASE mode' \in {"native", "poller"} /\ UNCHANGED <<events, handler>>
    BY <2>3
  <2> QED
    BY <2>1, <2>2, <2>3
       DEF UiStep, SendImageStep, SendFileReturns, QuitLocks, StopClient, JoinHandler,
           StartClient, WireListener, SpawnClipboardHandler
<1>5. recent' \in Seq(Images) /\ Len(recent') <= HASH_CAP /\ forgotten' \subseteq Images
  <2>1. CASE ui.pc = "hash" /\ RememberHash(ui.img)
    <3>1. ui.img \in Images
      BY <2>1 DEF HandlerInv, StorePcs
    <3> QED
      BY <2>1, <3>1, Remembering
  <2>2. CASE UNCHANGED <<recent, forgotten>>
    BY <2>2
  <2> QED
    BY <2>1, <2>2
       DEF UiStep, SendImageStep, SendFileReturns, QuitLocks, StopClient, JoinHandler,
           StartClient, WireListener, SpawnClipboardHandler, UiKeeps
<1>6. /\ history' \in Seq(Ids) /\ Len(history') <= HISTORY_LIMIT
      /\ bytes' \subseteq Ids /\ twins' \subseteq Ids
  <2>1. CASE ui.pc \in StorePcs /\ PushHistory(<<"png", ui.img>>)
    <3>1. <<"png", ui.img>> \in Ids
      BY <2>1 DEF HandlerInv, Ids
    <3> QED
      BY <2>1, <3>1, Pushing
  <2>2. CASE ui.pc \in StorePcs /\ InsertBytes(<<"png", ui.img>>)
    BY <2>2 DEF InsertBytes, HandlerInv, Ids
  <2>3. CASE UNCHANGED <<history, bytes, twins>>
    BY <2>3
  <2> QED
    BY <2>1, <2>2, <2>3
       DEF UiStep, SendImageStep, SendFileReturns, QuitLocks, StopClient, JoinHandler,
           StartClient, WireListener, SpawnClipboardHandler, UiKeeps, StorePcs
<1>7. files' \in Seq(FileRecs) /\ Len(files') <= HISTORY_LIMIT
  <2>1. CASE SendFileReturns /\ Upsert([id |-> Head(files).id, status |-> "ended"])
    <3>1. files # <<>>
      BY <2>1 DEF SendFileReturns, SendingIsNewest
    <3>2. [id |-> Head(files).id, status |-> "ended"] \in FileRecs
      <4>1. Head(files) \in FileRecs
        BY <3>1
      <4> QED
        BY <4>1 DEF FileRecs
    <3> QED
      BY <2>1, <3>2, Upserting
  <2>2. CASE UNCHANGED files
    BY <2>2
  <2> QED
    BY <2>1, <2>2
       DEF UiStep, SendImageStep, SendFileReturns, QuitLocks, StopClient, JoinHandler,
           StartClient, WireListener, SpawnClipboardHandler
<1>8. TypeOK'
  BY <1>1, <1>2, <1>3, <1>4, <1>5, <1>6, <1>7, RecordsNext
<1>9. HandlerInv'
  <2>1. /\ handler'.pc \in StorePcs => handler'.item \in Images
        /\ handler'.pc = "echo" => handler'.item \in Texts
    BY <1>4 DEF HandlerInv, Waiting, StorePcs
  <2> QED
    BY <1>1, <1>2, <1>4, <2>1, Zenon DEF HandlerInv
<1> QED
  BY <1>8, <1>9

\* The types, and what a running handler holds, in every step.
LEMMA TypeStep ==
    ASSUME TInv, SendingIsNewest, Next
    PROVE  TInv'
<1> USE Records DEF TInv
<1>1. ASSUME NEW item \in Copied, Copy(item)
      PROVE  TInv'
  <2>1. item \in Items
    BY BridgeAssumption DEF Items
  <2>2. /\ clip' \in ClipRecs
    BY <1>1, <2>1 DEF Copy, ClipRecs
  <2>3. copies' \in 0..MaxCopies
    BY SMTT(30), <1>1, BridgeAssumption DEF Copy
  <2>4. owed' \in BOOLEAN
    BY <1>1 DEF Copy
  <2>5. events' \in Nat /\ (mode = "none" => events' = events)
    BY SMTT(30), <1>1 DEF Copy, Posted
  <2>6. UNCHANGED <<session, mode, echo, recent, worker, fetch, handler, ui, quitting,
                    history, bytes, files, remote, commands, faults,
                    echoes, echoed, forgotten, twins>>
    BY <1>1 DEF Copy, ghostVars
  <2>7. TypeOK'
    BY <2>2, <2>3, <2>4, <2>5, <2>6, RecordsNext
  <2>8. HandlerInv'
    BY <2>5, <2>6, Zenon DEF HandlerInv
  <2> QED
    BY <2>7, <2>8
<1>2. CASE WindowEnds
  <2>1. echo' \in [text : Texts, fresh : BOOLEAN] \cup {None}
    BY <1>2 DEF WindowEnds
  <2>2. UNCHANGED <<clip, events, copies, owed, session, mode, recent, worker, fetch, handler,
                    ui, quitting, history, bytes, files, remote, commands, faults,
                    echoes, echoed, forgotten, twins>>
    BY <1>2 DEF WindowEnds, ghostVars, clipVars
  <2>3. TypeOK'
    BY <2>1, <2>2, RecordsNext
  <2>4. HandlerInv'
    BY <2>2, Zenon DEF HandlerInv
  <2> QED
    BY <2>3, <2>4
<1>3. ASSUME NEW text \in Received \cap Texts, OnClipText(text)
      PROVE  TInv'
  <2>1. echo' \in [text : Texts, fresh : BOOLEAN] \cup {None} /\ worker' \in Texts \cup {None}
    BY <1>3 DEF OnClipText, OnText
  <2>2. remote' \in 0..MaxRemote
    BY SMTT(30), <1>3, BridgeAssumption DEF OnClipText
  <2>3. UNCHANGED <<clip, events, copies, owed, session, mode, recent, fetch, handler,
                    ui, quitting, history, bytes, files, commands, faults,
                    echoes, echoed, forgotten, twins>>
    BY <1>3 DEF OnClipText, OnText, ghostVars, clipVars
  <2>4. TypeOK'
    BY <2>1, <2>2, <2>3, RecordsNext
  <2>5. HandlerInv'
    BY <2>3, Zenon DEF HandlerInv
  <2> QED
    BY <2>4, <2>5
<1>4. CASE WriteText
  <2>1. worker \in Items /\ worker' = None
    BY <1>4 DEF WriteText, Items
  <2>2. /\ clip' \in ClipRecs /\ events' \in Nat /\ owed' \in BOOLEAN /\ copies' = copies
        /\ faults' \in 0..MaxFaults /\ (mode = "none" => events' = events)
    <3>1. CASE SetClipboard(worker)
      BY <2>1, <3>1, ClipMoves
    <3>2. CASE ClipboardBusy /\ UNCHANGED clipVars
      BY <3>2, BusyCounts DEF clipVars
    <3> QED
      BY <1>4, <3>1, <3>2 DEF WriteText
  <2>3. UNCHANGED <<session, mode, echo, recent, fetch, handler, ui, quitting, history,
                    bytes, files, remote, commands, echoes, echoed, forgotten, twins>>
    BY <1>4 DEF WriteText, ghostVars
  <2>4. TypeOK'
    BY <2>1, <2>2, <2>3, RecordsNext
  <2>5. HandlerInv'
    BY <2>2, <2>3, Zenon DEF HandlerInv
  <2> QED
    BY <2>4, <2>5
<1>5. ASSUME NEW f \in Fetchers, NEW img \in Received \cap Images, OnClipImage(f, img)
      PROVE  TInv'
  <2>1. /\ fetch' \in [Fetchers -> FetchRecs]
        /\ \A g \in Fetchers : fetch'[g].pc # "idle" => fetch'[g].img \in Images
    <3>1. CASE fetch' = [fetch EXCEPT ![f] = [pc |-> "fetch", img |-> img]]
      <4>1. [pc |-> "fetch", img |-> img] \in FetchRecs
        BY DEF FetchRecs
      <4>2. fetch' \in [Fetchers -> FetchRecs]
        BY <3>1, <4>1
      <4>3. \A g \in Fetchers : fetch'[g] = IF g = f THEN [pc |-> "fetch", img |-> img]
                                                     ELSE fetch[g]
        BY <3>1
      <4> QED
        BY <4>2, <4>3 DEF HandlerInv
    <3>2. CASE fetch' = fetch
      BY <3>2 DEF HandlerInv
    <3> QED
      BY <1>5, <3>1, <3>2 DEF OnClipImage
  <2>2. remote' \in 0..MaxRemote
    BY SMTT(30), <1>5, BridgeAssumption DEF OnClipImage
  <2>3. UNCHANGED <<clip, events, copies, owed, session, mode, echo, recent, worker, handler,
                    ui, quitting, history, bytes, files, commands, faults,
                    echoes, echoed, forgotten, twins>>
    BY <1>5 DEF OnClipImage, ghostVars, clipVars
  <2>4. TypeOK'
    BY <2>1, <2>2, <2>3, RecordsNext
  <2>5. HandlerInv'
    BY <2>1, <2>3, Zenon DEF HandlerInv
  <2> QED
    BY <2>4, <2>5
<1>6. ASSUME Command, ui' \in UiRecs,
             ui'.pc \in StorePcs => ui'.img \in Images,
             ui'.pc = "idle" => ui' = Unlocked,
             files' \in Seq(FileRecs), Len(files') <= HISTORY_LIMIT
      PROVE  TInv'
  <2>1. /\ commands' \in 0..MaxCommands
        /\ UNCHANGED <<session, mode, events, owed, handler, quitting, clip, echo, worker,
                       fetch, copies, remote, faults, echoes, echoed, recent, forgotten,
                       history, bytes, twins>>
    BY <1>6, CommandTypes
  <2>2. TypeOK'
    BY <1>6, <2>1, RecordsNext
  <2>3. HandlerInv'
    BY <1>6, <2>1, Zenon DEF HandlerInv
  <2> QED
    BY <2>2, <2>3
<1>7. ASSUME NEW img \in Picked, SendImage(img)
      PROVE  TInv'
  <2>1. Command /\ files' = files /\ img \in Images
    BY <1>7, BridgeAssumption DEF SendImage
  <2>2. ui' \in UiRecs /\ ui'.pc = "hash" /\ ui'.img = img
    BY <1>7, <2>1 DEF SendImage, UiRecs, StorePcs
  <2> QED
    BY <1>6, <2>1, <2>2
<1>8. ASSUME NEW next \in {"idle", "start"}, StartOrStop(next)
      PROVE  TInv'
  <2>1. Command /\ files' = files
    BY <1>8 DEF StartOrStop
  <2>2. ui' \in UiRecs /\ ui'.pc = "stop"
    BY <1>8 DEF StartOrStop, UiRecs
  <2> QED
    BY <1>6, <2>1, <2>2 DEF StorePcs
<1>9. CASE SendFile
  <2>1. Command /\ [id |-> commands + 1, status |-> "sending"] \in FileRecs
    BY <1>9, CommandTypes DEF SendFile, FileRecs
  <2>2. ui' \in UiRecs /\ ui'.pc = "file"
    BY <1>9, UiMoves DEF SendFile
  <2>3. files' \in Seq(FileRecs) /\ Len(files') <= HISTORY_LIMIT
    BY <1>9, <2>1, Upserting DEF SendFile
  <2> QED
    BY <1>6, <2>1, <2>2, <2>3 DEF StorePcs
<1>10. CASE DrainReceived
  <2>1. Command /\ [id |-> commands + 1, status |-> "ended"] \in FileRecs
    BY <1>10, CommandTypes DEF DrainReceived, FileRecs
  <2>2. ui' = ui
    BY <1>10 DEF DrainReceived
  <2>3. files' \in Seq(FileRecs) /\ Len(files') <= HISTORY_LIMIT
    BY <1>10, <2>1, Upserting DEF DrainReceived
  <2> QED
    BY <1>6, <2>1, <2>2, <2>3 DEF HandlerInv
<1>11. CASE Quit
  <2>1. quitting' \in BOOLEAN
    BY <1>11 DEF Quit
  <2>2. UNCHANGED <<session, mode, events, owed, handler, ui, files, commands, clip, echo,
                    worker, fetch, copies, remote, faults, echoes, echoed, recent, forgotten,
                    history, bytes, twins>>
    BY <1>11 DEF Quit, UiOnly, UiKeeps
  <2>3. TypeOK'
    BY <2>1, <2>2, RecordsNext
  <2>4. HandlerInv'
    BY <2>2, Zenon DEF HandlerInv
  <2> QED
    BY <2>3, <2>4
<1>12. ASSUME NEW f \in Fetchers, FetchStep(f)
       PROVE  TInv'
  BY <1>12, FetchTypes
<1>13. CASE HandlerStep
  BY <1>13, HandlerTypes
<1>14. CASE UiStep
  BY <1>14, UiTypes
<1> QED
  BY <1>1, <1>2, <1>3, <1>4, <1>5, <1>7, <1>8, <1>9, <1>10, <1>11, <1>12, <1>13, <1>14 DEF Next

-----------------------------------------------------------------------------
(* The list of files *)

\* Where the command can be, before and after a step of its own.
LEMMA UiGoing ==
    ASSUME TInv, UiStep
    PROVE  /\ ui.pc # "hung"
           /\ ui'.pc # "file"
           /\ ui.pc # "file" => files' = files
<1>1. ui \in UiRecs /\ ui.next # "file"
  BY Records DEF TInv, UiRecs
<1>2. CASE SendImageStep
  BY <1>1, <1>2, UiMoves DEF SendImageStep, StorePcs
<1>3. CASE SendFileReturns
  BY <1>1, <1>3, UiMoves DEF SendFileReturns
<1>4. CASE QuitLocks
  BY <1>1, <1>4 DEF QuitLocks, UiRecs
<1>5. CASE StopClient
  BY <1>1, <1>5 DEF StopClient, UiRecs
<1>6. CASE JoinHandler
  BY <1>1, <1>6 DEF JoinHandler, UiRecs, Unlocked
<1>7. CASE StartClient
  BY <1>1, <1>7, UiMoves DEF StartClient
<1>8. CASE WireListener
  BY <1>1, <1>8, UiMoves DEF WireListener
<1>9. CASE SpawnClipboardHandler
  BY <1>1, <1>9, UiMoves DEF SpawnClipboardHandler
<1> QED
  BY <1>2, <1>3, <1>4, <1>5, <1>6, <1>7, <1>8, <1>9 DEF UiStep

\* A step that is not a command's leaves the command and the list of files.
LEMMA ElsewhereKeeps ==
    ASSUME TInv,
           \/ \E item \in Copied : Copy(item)
           \/ WindowEnds
           \/ \E text \in Received \cap Texts : OnClipText(text)
           \/ WriteText
           \/ \E f \in Fetchers : FetchStep(f) \/ \E img \in Received \cap Images : OnClipImage(f, img)
           \/ HandlerStep
           \/ Quit
    PROVE  /\ files' = files
           /\ ui'.pc = ui.pc /\ ui'.img = ui.img /\ ui'.next = ui.next
<1>1. CASE ReadImage
  <2>1. ui'.pc = ui.pc /\ ui'.img = ui.img /\ ui'.next = ui.next
    BY <1>1, UpdateMoves DEF ReadImage, TInv
  <2> QED
    BY <1>1, <2>1 DEF ReadImage, HandlerOnly
<1>2. CASE HandlerStep /\ ~ReadImage
  BY <1>2 DEF HandlerStep, ReadText, TryPublishText, TryPublishImage, HandlerPublishes,
              HandlerStores, HandlerOnly
<1>3. CASE \/ \E item \in Copied : Copy(item)
           \/ WindowEnds
           \/ \E text \in Received \cap Texts : OnClipText(text)
           \/ WriteText
           \/ Quit
  BY <1>3 DEF Copy, WindowEnds, OnClipText, WriteText, Quit
<1>4. CASE \E f \in Fetchers : FetchStep(f) \/ \E img \in Received \cap Images : OnClipImage(f, img)
  BY <1>4 DEF FetchStep, FetchFails, FetchRemembers, FetchStores, FetchWrites, FetchOnly,
              OnClipImage
<1> QED
  BY <1>1, <1>2, <1>3, <1>4

LEMMA SendingStep ==
    ASSUME TInv, SendingIsNewest, Next
    PROVE  SendingIsNewest'
<1> DEFINE Sending(i) == files[i].status = "sending"
<1>1. /\ files \in Seq(FileRecs) /\ Len(files) <= HISTORY_LIMIT
  BY Records DEF TInv
<1>2. CASE files' = files /\ ui'.pc = ui.pc
  BY <1>2 DEF SendingIsNewest
<1>3. ASSUME Command
      PROVE  /\ \A i \in DOMAIN files : ~Sending(i)
             /\ commands + 1 \in 1..MaxCommands
  BY <1>3, CommandTypes DEF SendingIsNewest, Unlocked
<1>4. ASSUME NEW img \in Picked, SendImage(img)
      PROVE  SendingIsNewest'
  <2>1. Command /\ files' = files
    BY <1>4 DEF SendImage
  <2>2. ui'.pc = "hash"
    BY <1>4, Records DEF SendImage, TInv, UiRecs
  <2> QED
    BY <1>3, <2>1, <2>2 DEF SendingIsNewest
<1>5. ASSUME NEW next \in {"idle", "start"}, StartOrStop(next)
      PROVE  SendingIsNewest'
  <2>1. Command /\ files' = files
    BY <1>5 DEF StartOrStop
  <2>2. ui'.pc = "stop"
    BY <1>5, Records DEF StartOrStop, TInv, UiRecs
  <2> QED
    BY <1>3, <2>1, <2>2 DEF SendingIsNewest
<1>6. ASSUME Command, NEW entry \in FileRecs, Upsert(entry),
             entry.status = "sending" => ui'.pc = "file"
      PROVE  SendingIsNewest'
  <2>1. /\ files' # <<>> /\ files'[1] = entry
        /\ \A i \in DOMAIN files' : i # 1 => \E j \in DOMAIN files : files'[i] = files[j]
    BY <1>1, <1>6, Upserting
  <2> QED
    BY <1>3, <1>6, <2>1 DEF SendingIsNewest
<1>7. CASE SendFile
  <2>1. Command /\ [id |-> commands + 1, status |-> "sending"] \in FileRecs
    BY <1>3, <1>7 DEF SendFile, FileRecs
  <2>2. ui'.pc = "file"
    BY <1>7, UiMoves, Records DEF SendFile, TInv
  <2>3. Upsert([id |-> commands + 1, status |-> "sending"])
    BY <1>7 DEF SendFile
  <2> QED
    BY <1>6, <2>1, <2>2, <2>3
<1>8. CASE DrainReceived
  <2>1. Command /\ [id |-> commands + 1, status |-> "ended"] \in FileRecs
    BY <1>3, <1>8 DEF DrainReceived, FileRecs
  <2>2. Upsert([id |-> commands + 1, status |-> "ended"])
    BY <1>8 DEF DrainReceived
  <2> QED
    BY <1>6, <2>1, <2>2
<1>9. CASE SendFileReturns /\ ui' = Unlocked /\ Upsert([id |-> Head(files).id, status |-> "ended"])
  <2>1. files # <<>> /\ Head(files) \in FileRecs /\ Head(files) = files[1]
    BY <1>1, <1>9 DEF SendFileReturns, SendingIsNewest
  <2>2. PICK entry \in FileRecs :
           /\ entry = [id |-> Head(files).id, status |-> "ended"]
           /\ entry.id = files[1].id /\ entry.status = "ended"
    <3>1. files[1].id \in 1..MaxCommands
      BY <2>1 DEF FileRecs
    <3>2. [id |-> Head(files).id, status |-> "ended"] \in FileRecs
      BY <2>1, <3>1 DEF FileRecs
    <3>3. [id |-> Head(files).id, status |-> "ended"].id = files[1].id
      BY <2>1
    <3> QED
      BY <3>2, <3>3
  <2>3. Upsert(entry)
    BY <1>9, <2>2
  <2>4. /\ files' # <<>> /\ files'[1] = entry
        /\ \A i \in DOMAIN files' : i # 1 =>
              \E j \in DOMAIN files : files'[i] = files[j] /\ j # 1
    BY <1>1, <2>2, <2>3, Upserting
  <2>5. \A i \in DOMAIN files' : files'[i].status # "sending"
    BY <2>2, <2>4 DEF SendingIsNewest
  <2> QED
    BY <1>9, <2>5 DEF SendingIsNewest, Unlocked
<1>10. CASE SendFileReturns /\ UiGoes("hung") /\ UNCHANGED files
  <2>1. ui'.pc = "hung"
    BY <1>10, UiMoves, Records DEF TInv
  <2> QED
    BY <1>10, <2>1 DEF SendingIsNewest
<1>11. CASE UiStep /\ ui.pc # "file"
  BY <1>11, UiGoing DEF SendingIsNewest
<1>12. CASE UiStep /\ ui.pc = "file"
  <2>1. SendFileReturns
    BY <1>12 DEF UiStep, SendImageStep, QuitLocks, StopClient, JoinHandler, StartClient,
                 WireListener, SpawnClipboardHandler
  <2> QED
    BY <1>9, <1>10, <2>1 DEF SendFileReturns
<1> QED
  BY <1>2, <1>4, <1>5, <1>7, <1>8, <1>11, <1>12, ElsewhereKeeps DEF Next

-----------------------------------------------------------------------------
(* The history of images *)

\* A thread is between the two locks of store_history with this entry.
Held(id) ==
    \/ \E f \in Fetchers : fetch[f].pc = "bytes" /\ id = <<"pixels", fetch[f].img>>
    \/ handler.pc = "bytes" /\ id = <<"png", handler.item>>
    \/ ui.pc = "bytes" /\ id = <<"png", ui.img>>

LEMMA SavableIsHeld ==
    /\ ListedIsSavable <=> \A i \in DOMAIN history : history[i] \in bytes \cup twins \/ Held(history[i])
    /\ ListedIsSavable' <=>
          \A i \in DOMAIN history' : history'[i] \in bytes' \cup twins' \/ Held(history[i])'
BY DEF ListedIsSavable, Held, FetchAt, HandlerAt

\* The first lock keeps what is listed savable.
LEMMA PushSavable ==
    ASSUME TInv, ListedIsSavable, NEW id \in Ids, PushHistory(id),
           \A k : Held(k) \/ k = id => Held(k)'
    PROVE  ListedIsSavable'
<1>1. /\ \A i \in DOMAIN history' :
            \/ history'[i] = id
            \/ \E j \in DOMAIN history : history'[i] = history[j]
      /\ \A i \in DOMAIN history' :
            history'[i] \in bytes \cup twins => history'[i] \in bytes' \cup twins'
  BY Pushing, Records DEF TInv
<1>2. ASSUME NEW i \in DOMAIN history'
      PROVE  history'[i] \in bytes' \cup twins' \/ Held(history[i])'
  <2>1. CASE history'[i] = id
    BY <2>1 DEF Held
  <2>2. CASE \E j \in DOMAIN history : history'[i] = history[j]
    <3>1. PICK j \in DOMAIN history : history'[i] = history[j]
      BY <2>2
    <3>2. CASE history[j] \in bytes \cup twins
      BY <1>1, <3>1, <3>2
    <3>3. CASE Held(history[j])
      BY <3>1, <3>3 DEF Held
    <3> QED
      BY <3>2, <3>3, SavableIsHeld
  <2> QED
    BY <1>1, <2>1, <2>2
<1> QED
  BY <1>2, SavableIsHeld

\* So does the second.
LEMMA InsertSavable ==
    ASSUME ListedIsSavable, NEW id, InsertBytes(id), \A k : Held(k) /\ k # id => Held(k)'
    PROVE  ListedIsSavable'
<1>1. history' = history /\ bytes' = bytes \cup {id} /\ twins' = twins \ {id}
  BY DEF InsertBytes
<1>2. ASSUME NEW i \in DOMAIN history
      PROVE  history[i] \in bytes' \cup twins' \/ (Held(history[i]) /\ history[i] # id)
  BY <1>1, <1>2, SavableIsHeld
<1> QED
  BY <1>1, <1>2, SavableIsHeld DEF Held

\* And whatever leaves the history alone.
LEMMA KeepSavable ==
    ASSUME ListedIsSavable, UNCHANGED <<history, bytes, twins>>, \A k : Held(k) => Held(k)'
    PROVE  ListedIsSavable'
BY SavableIsHeld DEF Held

LEMMA SavableStep ==
    ASSUME TInv, ListedIsSavable, Next
    PROVE  ListedIsSavable'
<1> USE Records DEF TInv
<1>1. ASSUME UNCHANGED <<history, bytes, twins, handler, fetch>>, ui.pc # "bytes"
      PROVE  ListedIsSavable'
  <2>1. \A k : Held(k) => Held(k)'
    BY <1>1 DEF Held
  <2> QED
    BY <1>1, <2>1, KeepSavable
<1>2. ASSUME NEW f \in Fetchers, FetchStep(f)
      PROVE  ListedIsSavable'
  <2>1. UNCHANGED <<handler, ui>>
    BY <1>2 DEF FetchStep, FetchFails, FetchRemembers, FetchStores, FetchWrites, FetchOnly
  <2>2. ASSUME UNCHANGED <<history, bytes, twins>>, fetch[f].pc # "bytes",
               \A g \in Fetchers : g # f => fetch'[g] = fetch[g]
        PROVE  ListedIsSavable'
    <3>1. \A k : Held(k) => Held(k)'
      BY <2>1, <2>2 DEF Held
    <3> QED
      BY <2>2, <3>1, KeepSavable
  <2>3. CASE FetchFails(f)
    BY <2>2, <2>3, FetchMoves DEF FetchFails, FetchAt
  <2>4. CASE FetchRemembers(f)
    BY <2>2, <2>4, FetchMoves DEF FetchRemembers, FetchAt
  <2>5. CASE FetchWrites(f)
    BY <2>2, <2>5, FetchMoves DEF FetchWrites, FetchAt
  <2>6. CASE FetchAt(f, "push") /\ PushHistory(<<"pixels", fetch[f].img>>) /\ FetchGoes(f, "bytes")
    <3>1. <<"pixels", fetch[f].img>> \in Ids
      BY <2>6 DEF HandlerInv, FetchAt, Ids
    <3>2. /\ fetch'[f].pc = "bytes" /\ fetch'[f].img = fetch[f].img /\ fetch[f].pc = "push"
          /\ \A g \in Fetchers : g # f => fetch'[g] = fetch[g]
      BY <2>6, FetchMoves DEF FetchAt
    <3>3. \A k : Held(k) \/ k = <<"pixels", fetch[f].img>> => Held(k)'
      BY <2>1, <3>2 DEF Held
    <3> QED
      BY <2>6, <3>1, <3>3, PushSavable
  <2>7. CASE FetchAt(f, "bytes") /\ InsertBytes(<<"pixels", fetch[f].img>>) /\ FetchGoes(f, "write")
    <3>1. \A g \in Fetchers : g # f => fetch'[g] = fetch[g]
      BY <2>7, FetchMoves
    <3>2. \A k : Held(k) /\ k # <<"pixels", fetch[f].img>> => Held(k)'
      BY <2>1, <3>1 DEF Held
    <3> QED
      BY <2>7, <3>2, InsertSavable
  <2> QED
    BY <1>2, <2>3, <2>4, <2>5, <2>6, <2>7 DEF FetchStep, FetchStores
<1>3. CASE HandlerStep
  <2>1. fetch' = fetch /\ ui'.pc = ui.pc /\ ui'.img = ui.img
    BY <1>3, ElsewhereKeeps DEF HandlerStep, HandlerOnly, ReadImage, ReadText, TryPublishText,
         TryPublishImage, HandlerPublishes, HandlerStores
  <2>2. ASSUME UNCHANGED <<history, bytes, twins>>, handler.pc # "bytes"
        PROVE  ListedIsSavable'
    <3>1. \A k : Held(k) => Held(k)'
      BY <2>1, <2>2 DEF Held
    <3> QED
      BY <2>2, <3>1, KeepSavable
  <2>3. CASE ReadImage
    BY <2>2, <2>3 DEF ReadImage, HandlerShares, HandlerAt
  <2>4. CASE ReadText
    BY <2>2, <2>4 DEF ReadText, HandlerShares, HandlerAt
  <2>5. CASE TryPublishText
    BY <2>2, <2>5 DEF TryPublishText, HandlerAt
  <2>6. CASE TryPublishImage
    BY <2>2, <2>6 DEF TryPublishImage, HandlerAt
  <2>7. CASE HandlerPublishes /\ UNCHANGED <<history, bytes, twins>>
    BY <2>2, <2>7 DEF HandlerPublishes, HandlerAt
  <2>8. CASE HandlerAt("publish") /\ PushHistory(<<"png", handler.item>>) /\ HandlerGoes("bytes")
    <3>1. <<"png", handler.item>> \in Ids
      BY <2>8 DEF HandlerInv, HandlerAt, StorePcs, Ids
    <3>2. handler'.pc = "bytes" /\ handler'.item = handler.item /\ handler.pc = "publish"
      BY <2>8, HandlerMoves DEF HandlerAt, StorePcs
    <3>3. \A k : Held(k) \/ k = <<"png", handler.item>> => Held(k)'
      BY <2>1, <3>2 DEF Held
    <3> QED
      BY <2>8, <3>1, <3>3, PushSavable
  <2>9. CASE HandlerStores
    <3>1. \A k : Held(k) /\ k # <<"png", handler.item>> => Held(k)'
      BY <2>1 DEF Held
    <3> QED
      BY <2>9, <3>1, InsertSavable DEF HandlerStores
  <2> QED
    BY <1>3, <2>3, <2>4, <2>5, <2>6, <2>7, <2>8, <2>9 DEF HandlerStep, HandlerPublishes
<1>4. CASE UiStep
  <2>1. fetch' = fetch
    BY <1>4 DEF UiStep, SendImageStep, SendFileReturns, QuitLocks, StopClient, JoinHandler,
         StartClient, WireListener, SpawnClipboardHandler, UiOnly
  <2>2. CASE SendImageStep
    <3>1. handler' = handler
      BY <2>2 DEF SendImageStep
    <3>2. CASE UNCHANGED <<history, bytes, twins>> /\ ui.pc # "bytes"
      BY <1>1, <2>1, <3>1, <3>2
    <3>3. CASE ui.pc = "publish" /\ UiGoes("bytes") /\ PushHistory(<<"png", ui.img>>)
      <4>1. <<"png", ui.img>> \in Ids
        BY <3>3 DEF HandlerInv, StorePcs, Ids
      <4>2. ui'.pc = "bytes" /\ ui'.img = ui.img
        BY <3>3, UiMoves DEF StorePcs
      <4>3. \A k : Held(k) \/ k = <<"png", ui.img>> => Held(k)'
        BY <2>1, <3>1, <3>3, <4>2 DEF Held
      <4> QED
        BY <3>3, <4>1, <4>3, PushSavable
    <3>4. CASE InsertBytes(<<"png", ui.img>>)
      <4>1. \A k : Held(k) /\ k # <<"png", ui.img>> => Held(k)'
        BY <2>1, <3>1 DEF Held
      <4> QED
        BY <3>4, <4>1, InsertSavable
    <3> QED
      BY <2>2, <3>2, <3>3, <3>4 DEF SendImageStep, UiKeeps
  <2>3. CASE JoinHandler
    <3>1. \A k : Held(k) => Held(k)'
      BY <2>1, <2>3 DEF JoinHandler, Held
    <3> QED
      BY <2>3, <3>1, KeepSavable DEF JoinHandler, UiKeeps
  <2>4. CASE \/ SendFileReturns \/ QuitLocks \/ StopClient \/ StartClient \/ WireListener
             \/ SpawnClipboardHandler
    BY <1>1, <2>1, <2>4 DEF SendFileReturns, QuitLocks, StopClient, StartClient, WireListener,
         SpawnClipboardHandler, UiKeeps
  <2> QED
    BY <1>4, <2>2, <2>3, <2>4 DEF UiStep
<1>5. ASSUME Command
      PROVE  ListedIsSavable'
  <2>1. ui.pc = "idle" /\ UNCHANGED <<history, bytes, twins, handler, fetch>>
    BY <1>5, CommandTypes DEF Unlocked
  <2> QED
    BY <1>1, <2>1
<1>6. CASE \/ \E item \in Copied : Copy(item)
           \/ WindowEnds
           \/ \E text \in Received \cap Texts : OnClipText(text)
           \/ WriteText
           \/ Quit
  <2>1. UNCHANGED <<history, bytes, twins, handler, fetch, ui>>
    BY <1>6 DEF Copy, WindowEnds, OnClipText, WriteText, Quit, ghostVars, UiOnly, UiKeeps
  <2>2. \A k : Held(k) => Held(k)'
    BY <2>1 DEF Held
  <2> QED
    BY <2>1, <2>2, KeepSavable
<1>7. ASSUME NEW f \in Fetchers, NEW img \in Received \cap Images, OnClipImage(f, img)
      PROVE  ListedIsSavable'
  <2>1. /\ UNCHANGED <<history, bytes, twins, handler, ui>> /\ fetch[f].pc = "idle"
        /\ \A g \in Fetchers : g # f => fetch'[g] = fetch[g]
    BY <1>7 DEF OnClipImage, ghostVars
  <2>2. \A k : Held(k) => Held(k)'
    BY <2>1 DEF Held
  <2> QED
    BY <2>1, <2>2, KeepSavable
<1> QED
  BY <1>2, <1>3, <1>4, <1>5, <1>6, <1>7
     DEF Next, SendImage, StartOrStop, SendFile, DrainReceived

-----------------------------------------------------------------------------
(* Echoes of images *)

\* What remember_hash has seen stays seen.
LEMMA RememberedStays ==
    ASSUME TInv, Next
    PROVE  /\ forgotten \subseteq forgotten'
           /\ \A img : Remembered(img) => Remembered(img)'
<1> USE Records DEF TInv
<1>1. ASSUME NEW h \in Images, RememberHash(h)
      PROVE  forgotten \subseteq forgotten' /\ \A img : Remembered(img) => Remembered(img)'
  BY <1>1, Remembering
<1>2. ASSUME UNCHANGED <<recent, forgotten>>
      PROVE  forgotten \subseteq forgotten' /\ \A img : Remembered(img) => Remembered(img)'
  BY <1>2 DEF Remembered
<1>3. ASSUME NEW f \in Fetchers, FetchStep(f)
      PROVE  UNCHANGED <<recent, forgotten>> \/ \E h \in Images : RememberHash(h)
  <2>1. fetch[f].pc = "fetch" => fetch[f].img \in Images
    BY DEF HandlerInv
  <2> QED
    BY <1>3, <2>1 DEF FetchStep, FetchFails, FetchRemembers, FetchStores, FetchWrites, FetchAt
<1>4. CASE HandlerStep
  <2>1. handler.pc = "hash" => handler.item \in Images
    BY DEF HandlerInv, StorePcs
  <2>2. UNCHANGED <<recent, forgotten>> \/ \E h \in Images : RememberHash(h)
    BY <1>4, <2>1 DEF HandlerStep, ReadImage, ReadText, TryPublishText, TryPublishImage,
         HandlerPublishes, HandlerStores, HandlerShares, HandlerAt
  <2> QED
    BY <1>1, <1>2, <2>2
<1>5. CASE UiStep
  <2>1. ui.pc = "hash" => ui.img \in Images
    BY DEF HandlerInv, StorePcs
  <2>2. UNCHANGED <<recent, forgotten>> \/ \E h \in Images : RememberHash(h)
    BY <1>5, <2>1 DEF UiStep, SendImageStep, SendFileReturns, QuitLocks, StopClient,
         JoinHandler, StartClient, WireListener, SpawnClipboardHandler, UiKeeps
  <2> QED
    BY <1>1, <1>2, <2>2
<1>6. CASE \/ \E item \in Copied : Copy(item)
           \/ WindowEnds
           \/ \E text \in Received \cap Texts : OnClipText(text)
           \/ WriteText
           \/ \E f \in Fetchers, img \in Received \cap Images : OnClipImage(f, img)
           \/ Command
           \/ Quit
  BY <1>2, <1>6 DEF Copy, WindowEnds, OnClipText, WriteText, OnClipImage, Command, Quit,
       ghostVars, UiKeeps
<1> QED
  BY <1>1, <1>2, <1>3, <1>4, <1>5, <1>6
     DEF Next, SendImage, StartOrStop, SendFile, DrainReceived

\* The clipboard gets only what is remembered, or what the user copies.
LEMMA ClipRemembered ==
    ASSUME TInv, ImagesRemembered, Next
    PROVE  (clip.item \in Images /\ ~clip.mine => Remembered(clip.item))'
<1> USE Records DEF TInv
<1>1. CASE clip' = clip
  <2>1. (clip.item \in Images /\ ~clip.mine => Remembered(clip.item))'
    BY <1>1, RememberedStays DEF ImagesRemembered, Remembered
  <2> QED
    BY <2>1
<1>2. ASSUME NEW item \in Copied, Copy(item)
      PROVE  clip'.mine = TRUE
  BY <1>2 DEF Copy
<1>3. CASE WriteText
  <2>1. worker \in Texts \cap Items
    BY <1>3 DEF WriteText, Items
  <2>2. clip' = clip \/ clip'.item = worker
    BY <1>3, <2>1, ClipMoves DEF WriteText, clipVars
  <2>3. worker \notin Images
    BY <2>1, BridgeAssumption
  <2> QED
    BY <1>1, <2>2, <2>3
<1>4. ASSUME NEW f \in Fetchers, FetchWrites(f)
      PROVE  (clip.item \in Images /\ ~clip.mine => Remembered(clip.item))'
  <2>1. fetch[f].pc = "write" /\ fetch[f].img \in Items
    BY <1>4 DEF FetchWrites, FetchAt, HandlerInv, Items
  <2>2. CASE SetClipboard(fetch[f].img)
    <3>1. clip'.item = fetch[f].img
      BY <2>1, <2>2, ClipMoves
    <3>2. UNCHANGED <<recent, forgotten>>
      BY <1>4 DEF FetchWrites
    <3>3. Remembered(fetch[f].img)
      BY <2>1 DEF ImagesRemembered
    <3> QED
      BY <3>1, <3>2, <3>3 DEF Remembered
  <2> QED
    BY <1>1, <1>4, <2>2 DEF FetchWrites, clipVars
<1>5. CASE HandlerStep
  BY <1>1, <1>5 DEF HandlerStep, ReadImage, ReadText, TryPublishText, TryPublishImage,
       HandlerPublishes, HandlerStores, HandlerOnly
<1>6. CASE UiStep
  BY <1>1, <1>6 DEF UiStep, SendImageStep, SendFileReturns, QuitLocks, StopClient,
       JoinHandler, StartClient, WireListener, SpawnClipboardHandler, UiOnly
<1>7. CASE \/ WindowEnds
           \/ \E text \in Received \cap Texts : OnClipText(text)
           \/ \E f \in Fetchers, img \in Received \cap Images : OnClipImage(f, img)
           \/ \E f \in Fetchers : FetchFails(f) \/ FetchRemembers(f) \/ FetchStores(f)
           \/ Command
           \/ Quit
  <2>1. clip' = clip
    BY <1>7 DEF WindowEnds, OnClipText, OnText, OnClipImage, FetchFails, FetchRemembers,
         FetchStores, Command, Quit, clipVars, UiOnly
  <2> QED
    BY <1>1, <2>1
<1> QED
  BY <1>2, <1>3, <1>4, <1>5, <1>6, <1>7
     DEF Next, FetchStep, SendImage, StartOrStop, SendFile, DrainReceived

\* A thread remembers its image before it stores and writes it.
LEMMA FetchedRemembered ==
    ASSUME TInv, ImagesRemembered, Next
    PROVE  (\A f \in Fetchers :
               fetch[f].pc \in {"push", "bytes", "write"} => Remembered(fetch[f].img))'
<1> USE Records DEF TInv
<1>1. ASSUME NEW g \in Fetchers, fetch'[g] = fetch[g]
      PROVE  fetch'[g].pc \in {"push", "bytes", "write"} => Remembered(fetch[g].img)'
  <2>1. fetch[g].pc \in {"push", "bytes", "write"} => Remembered(fetch[g].img)
    BY DEF ImagesRemembered
  <2>2. Remembered(fetch[g].img) =>
           fetch[g].img \in forgotten' \/ Contains(recent', fetch[g].img)
    BY RememberedStays DEF Remembered
  <2> QED
    BY <1>1, <2>1, <2>2 DEF Remembered
<1>2. CASE fetch' = fetch
  BY <1>1, <1>2
<1>3. ASSUME NEW f \in Fetchers, FetchStep(f)
      PROVE  (\A g \in Fetchers :
                 fetch[g].pc \in {"push", "bytes", "write"} => Remembered(fetch[g].img))'
  <2>1. \A g \in Fetchers : g # f => fetch'[g] = fetch[g]
    <3>1. FetchEnds(f) \/ \E pc \in {"push", "bytes", "write"} : FetchGoes(f, pc)
      BY <1>3 DEF FetchStep, FetchFails, FetchRemembers, FetchStores, FetchWrites
    <3> QED
      BY <3>1, FetchMoves
  <2>2. fetch'[f].pc \in {"push", "bytes", "write"} => Remembered(fetch[f].img)'
    <3>1. CASE FetchEnds(f)
      BY <3>1, FetchMoves
    <3>2. CASE FetchRemembers(f) /\ FetchGoes(f, "push")
      <4>1. fetch'[f].img = fetch[f].img
        BY <3>2, FetchMoves
      <4>2. fetch[f].img \in Images /\ RememberHash(fetch[f].img)
        BY <3>2 DEF FetchRemembers, FetchAt, HandlerInv
      <4>3. fetch[f].img \in forgotten' \/ Contains(recent', fetch[f].img)
        BY <4>2, Remembering DEF Remembered
      <4> QED
        BY <4>1, <4>3 DEF Remembered
    <3>3. CASE FetchStores(f)
      <4>1. fetch'[f].img = fetch[f].img
        BY <3>3, FetchMoves DEF FetchStores
      <4>2. Remembered(fetch[f].img) /\ UNCHANGED <<recent, forgotten>>
        BY <3>3 DEF FetchStores, FetchAt, ImagesRemembered
      <4> QED
        BY <4>1, <4>2 DEF Remembered
    <3> QED
      BY <1>3, <3>1, <3>2, <3>3 DEF FetchStep, FetchFails, FetchRemembers, FetchWrites
  <2> QED
    BY <1>1, <2>1, <2>2
<1>4. ASSUME NEW f \in Fetchers, NEW img \in Received \cap Images, OnClipImage(f, img)
      PROVE  (\A g \in Fetchers :
                 fetch[g].pc \in {"push", "bytes", "write"} => Remembered(fetch[g].img))'
  <2>1. /\ \A g \in Fetchers : g # f => fetch'[g] = fetch[g]
        /\ fetch'[f].pc \in {"idle", "fetch"}
    BY <1>4 DEF OnClipImage
  <2> QED
    BY <1>1, <2>1
<1>5. CASE HandlerStep
  BY <1>2, <1>5 DEF HandlerStep, ReadImage, ReadText, TryPublishText, TryPublishImage,
       HandlerPublishes, HandlerStores, HandlerOnly
<1>6. CASE UiStep
  BY <1>2, <1>6 DEF UiStep, SendImageStep, SendFileReturns, QuitLocks, StopClient,
       JoinHandler, StartClient, WireListener, SpawnClipboardHandler, UiOnly
<1>7. CASE \/ WindowEnds \/ WriteText
           \/ \E item \in Copied : Copy(item)
           \/ \E text \in Received \cap Texts : OnClipText(text)
           \/ Command
           \/ Quit
  <2>1. fetch' = fetch
    BY <1>7 DEF WindowEnds, WriteText, Copy, OnClipText, Command, Quit, UiOnly
  <2> QED
    BY <1>2, <2>1
<1> QED
  BY <1>3, <1>4, <1>5, <1>6, <1>7 DEF Next, SendImage, StartOrStop, SendFile, DrainReceived

\* What the handler has read, and what it is about to announce.
ReadRemembered == handler.pc = "hash" /\ ~handler.mine => Remembered(handler.item)
SentForgotten == handler.pc = "publish" /\ ~handler.mine => handler.item \in forgotten

\* The handler publishes a received image only when its hash has been dropped.
LEMMA ImageStep ==
    ASSUME TInv, ImagesRemembered, ImageEchoNeedsEviction, Next
    PROVE  ImagesRemembered' /\ ImageEchoNeedsEviction'
<1> SUFFICES ReadRemembered' /\ SentForgotten' /\ echoed' \subseteq forgotten'
  BY ClipRemembered, FetchedRemembered
     DEF ImagesRemembered, ImageEchoNeedsEviction, ReadRemembered, SentForgotten
<1> USE Records DEF TInv
<1>1. ReadRemembered /\ SentForgotten /\ echoed \subseteq forgotten
  BY DEF ImagesRemembered, ImageEchoNeedsEviction, ReadRemembered, SentForgotten
<1>2. ASSUME UNCHANGED <<handler, echoed>>
      PROVE  ReadRemembered' /\ SentForgotten' /\ echoed' \subseteq forgotten'
  <2>1. ReadRemembered'
    BY <1>1, <1>2, RememberedStays DEF Remembered, ReadRemembered
  <2>2. SentForgotten' /\ echoed' \subseteq forgotten'
    BY <1>1, <1>2, RememberedStays DEF SentForgotten
  <2> QED
    BY <2>1, <2>2
<1>3. ASSUME handler'.pc \notin {"hash", "publish"}, echoed' = echoed
      PROVE  ReadRemembered' /\ SentForgotten' /\ echoed' \subseteq forgotten'
  BY <1>1, <1>3, RememberedStays DEF ReadRemembered, SentForgotten
<1>4. CASE ReadImage
  <2>1. echoed' = echoed /\ UNCHANGED <<recent, forgotten>>
    BY <1>4 DEF ReadImage, HandlerShares
  <2>2. CASE HandlerGoes("text")
    <3>1. handler'.pc = "text"
      BY <2>2, HandlerMoves
    <3> QED
      BY <1>3, <2>1, <3>1
  <2>3. CASE clip.item \in Images /\ HandlerTakes("hash", None, clip.item)
    <3>1. handler'.pc = "hash" /\ handler'.item = clip.item /\ handler'.mine = clip.mine
      BY <2>3, HandlerMoves DEF StorePcs
    <3>2. ReadRemembered'
      BY <2>1, <2>3, <3>1 DEF ImagesRemembered, Remembered, ReadRemembered
    <3> QED
      BY <1>1, <2>1, <3>1, <3>2 DEF SentForgotten
  <2> QED
    BY <1>4, <2>2, <2>3 DEF ReadImage
<1>5. CASE ReadText
  <2>1. echoed' = echoed
    BY <1>5 DEF ReadText, HandlerShares
  <2>2. handler'.pc \in {"echo", "idle"}
    <3>1. CASE clip.item \in Texts /\ HandlerTakes("echo", clip.item, None)
      BY <3>1, HandlerMoves
    <3>2. CASE HandlerEnds
      BY <3>2, HandlerMoves
    <3> QED
      BY <1>5, <3>1, <3>2 DEF ReadText
  <2> QED
    BY <1>3, <2>1, <2>2
<1>6. CASE TryPublishText
  BY <1>3, <1>6, HandlerMoves DEF TryPublishText
<1>7. CASE TryPublishImage
  <2>1. echoed' = echoed
    BY <1>7 DEF TryPublishImage
  <2>2. CASE HandlerEnds
    BY <1>3, <2>1, <2>2, HandlerMoves
  <2>3. CASE ~Known(handler.item) /\ HandlerGoes("publish")
    <3>1. /\ handler'.pc = "publish" /\ handler'.item = handler.item
          /\ handler'.mine = handler.mine /\ handler.pc = "hash"
      BY <1>7, <2>3, HandlerMoves DEF TryPublishImage, HandlerAt, StorePcs
    <3>2. ~handler.mine => handler.item \in forgotten
      BY <1>1, <2>3, <3>1 DEF Remembered, Known, ReadRemembered
    <3>3. forgotten \subseteq forgotten'
      BY RememberedStays
    <3> QED
      BY <1>1, <2>1, <3>1, <3>2, <3>3 DEF ReadRemembered, SentForgotten
  <2> QED
    BY <1>7, <2>2, <2>3 DEF TryPublishImage
<1>8. CASE HandlerPublishes
  <2>1. forgotten' = forgotten /\ handler.pc = "publish"
    BY <1>8 DEF HandlerPublishes, HandlerAt
  <2>2. handler'.pc \in {"bytes", "idle"}
    BY <1>8, HandlerMoves DEF HandlerPublishes, StorePcs
  <2>3. echoed' = echoed \/ (~handler.mine /\ echoed' = echoed \cup {handler.item})
    BY <1>8 DEF HandlerPublishes
  <2> QED
    BY <1>1, <2>1, <2>2, <2>3 DEF ReadRemembered, SentForgotten
<1>9. CASE HandlerStores
  BY <1>3, <1>9, HandlerMoves DEF HandlerStores
<1>10. CASE UiStep
  <2>1. echoed' = echoed
    BY <1>10 DEF UiStep, SendImageStep, SendFileReturns, QuitLocks, StopClient,
       JoinHandler, StartClient, WireListener, SpawnClipboardHandler, UiOnly
  <2>2. handler' = handler \/ handler'.pc = "idle"
    BY <1>10 DEF UiStep, SendImageStep, SendFileReturns, QuitLocks, StopClient,
       JoinHandler, StartClient, WireListener, SpawnClipboardHandler, Waiting
  <2> QED
    BY <1>2, <1>3, <2>1, <2>2
<1>11. CASE \/ WindowEnds \/ WriteText
            \/ \E item \in Copied : Copy(item)
            \/ \E text \in Received \cap Texts : OnClipText(text)
            \/ \E f \in Fetchers : FetchStep(f) \/ \E img \in Received \cap Images : OnClipImage(f, img)
            \/ Command
            \/ Quit
  <2>1. UNCHANGED <<handler, echoed>>
    BY <1>11 DEF WindowEnds, WriteText, Copy, OnClipText, FetchStep, FetchFails,
         FetchRemembers, FetchStores, FetchWrites, FetchOnly, OnClipImage, Command, Quit,
         UiOnly, ghostVars
  <2> QED
    BY <1>2, <2>1
<1> QED
  BY <1>4, <1>5, <1>6, <1>7, <1>8, <1>9, <1>10, <1>11
     DEF Next, HandlerStep, SendImage, StartOrStop, SendFile, DrainReceived

-----------------------------------------------------------------------------
(* Echoes of texts *)

LEMMA StartStep ==
    ASSUME TInv, StartAfterStop, Next
    PROVE  StartAfterStop'
<1> USE Records DEF TInv
<1>1. CASE mode' = mode /\ ui'.pc = ui.pc
  BY <1>1 DEF StartAfterStop
<1>2. CASE ui'.pc \notin {"start", "wire", "spawn"}
  BY <1>2 DEF StartAfterStop
<1>3. CASE HandlerStep
  BY <1>1, <1>3, ElsewhereKeeps DEF HandlerStep, ReadImage, ReadText, TryPublishText,
     TryPublishImage, HandlerPublishes, HandlerStores, HandlerOnly
<1>4. CASE \E f \in Fetchers : FetchStep(f) \/ \E img \in Received \cap Images : OnClipImage(f, img)
  BY <1>1, <1>4 DEF FetchStep, FetchFails, FetchRemembers, FetchStores, FetchWrites, FetchOnly,
     OnClipImage
<1>5. CASE \/ \E item \in Copied : Copy(item)
           \/ WindowEnds
           \/ \E text \in Received \cap Texts : OnClipText(text)
           \/ WriteText
           \/ Quit
  BY <1>1, <1>5 DEF Copy, WindowEnds, OnClipText, WriteText, Quit
<1>6. CASE \/ \E img \in Picked : SendImage(img)
           \/ \E next \in {"idle", "start"} : StartOrStop(next)
           \/ SendFile
  <2>1. ui'.pc \in {"hash", "stop", "file"}
    BY <1>6, UiMoves DEF SendImage, StartOrStop, SendFile, UiRecs
  <2> QED
    BY <1>2, <2>1
<1>7. CASE DrainReceived
  BY <1>1, <1>7 DEF DrainReceived, Command
<1>8. CASE SendImageStep \/ SendFileReturns
  <2>1. ui'.pc \in {"publish", "bytes", "hung", "idle"}
    BY <1>8, UiMoves DEF SendImageStep, SendFileReturns, StorePcs
  <2> QED
    BY <1>2, <2>1
<1>9. CASE QuitLocks \/ StopClient
  BY <1>2, <1>9 DEF QuitLocks, StopClient, UiRecs
<1>10. CASE JoinHandler
  BY <1>10 DEF JoinHandler, StartAfterStop
<1>11. CASE StartClient \/ WireListener
  BY <1>11 DEF StartClient, WireListener, StartAfterStop
<1>12. CASE SpawnClipboardHandler
  BY <1>2, <1>12, UiMoves DEF SpawnClipboardHandler
<1> QED
  BY <1>3, <1>4, <1>5, <1>6, <1>7, <1>8, <1>9, <1>10, <1>11, <1>12 DEF Next, UiStep

\* The terms of Slack are numbers.
LEMMA Amounts ==
    ASSUME TypeOK
    PROVE  /\ Unseen \in Nat /\ Reading \in {0, 1} /\ Writing \in {0, 1}
           /\ Fetching \in Nat /\ Restarting \in {0, 1}
           /\ remote \in Nat /\ copies \in Nat /\ commands \in Nat /\ echoes \in Nat
<1>1. remote \in Nat /\ copies \in Nat /\ commands \in Nat /\ echoes \in Nat
  BY BridgeAssumption, Records
<1>2. Unseen \in Nat
  BY Records DEF Unseen
<1>3. Fetching \in Nat
  <2>1. IsFiniteSet({f \in Fetchers : fetch[f].pc # "idle"})
    BY BridgeAssumption, FS_Subset
  <2> QED
    BY <2>1, FS_CardinalityType DEF Fetching
<1> QED
  BY <1>1, <1>2, <1>3 DEF Reading, Writing, Restarting

LEMMA AmountsNext ==
    ASSUME TypeOK'
    PROVE  /\ Unseen' \in Nat /\ Reading' \in {0, 1} /\ Writing' \in {0, 1}
           /\ Fetching' \in Nat /\ Restarting' \in {0, 1}
           /\ remote' \in Nat /\ copies' \in Nat /\ commands' \in Nat /\ echoes' \in Nat
<1>1. remote' \in Nat /\ copies' \in Nat /\ commands' \in Nat /\ echoes' \in Nat
  BY BridgeAssumption DEF TypeOK
<1>2. Unseen' \in Nat
  BY DEF Unseen, TypeOK
<1>3. Fetching' \in Nat
  <2>1. IsFiniteSet({f \in Fetchers : fetch'[f].pc # "idle"})
    BY BridgeAssumption, FS_Subset
  <2> QED
    BY <2>1, FS_CardinalityType DEF Fetching
<1> QED
  BY <1>1, <1>2, <1>3 DEF Reading, Writing, Restarting

\* The threads of received images are counted.
LEMMA FetchingCounts ==
    ASSUME NEW f \in Fetchers, \A g \in Fetchers : g # f => fetch'[g] = fetch[g]
    PROVE  /\ fetch[f].pc # "idle" /\ fetch'[f].pc = "idle" => Fetching' = Fetching - 1
           /\ fetch[f].pc = "idle" /\ fetch'[f].pc # "idle" => Fetching' = Fetching + 1
           /\ (fetch[f].pc = "idle" <=> fetch'[f].pc = "idle") => Fetching' = Fetching
<1> DEFINE F == {g \in Fetchers : fetch[g].pc # "idle"}
           G == {g \in Fetchers : fetch'[g].pc # "idle"}
<1>1. IsFiniteSet(F) /\ IsFiniteSet(G)
  BY BridgeAssumption, FS_Subset
<1>2. Fetching = Cardinality(F) /\ Fetching' = Cardinality(G)
  BY DEF Fetching
<1>3. Cardinality(F) \in Nat /\ Cardinality(G) \in Nat
  BY <1>1, FS_CardinalityType
<1>4. ASSUME fetch[f].pc # "idle", fetch'[f].pc = "idle"
      PROVE  Cardinality(G) = Cardinality(F) - 1
  <2>1. f \in F /\ G = F \ {f}
    BY <1>4
  <2> HIDE DEF F, G
  <2> QED
    BY <1>1, <2>1, FS_RemoveElement
<1>5. ASSUME fetch[f].pc = "idle", fetch'[f].pc # "idle"
      PROVE  Cardinality(G) = Cardinality(F) + 1
  <2>1. f \notin F /\ G = F \cup {f}
    BY <1>5
  <2> HIDE DEF F, G
  <2> QED
    BY <1>1, <2>1, FS_AddElement
<1>6. ASSUME fetch[f].pc = "idle" <=> fetch'[f].pc = "idle"
      PROVE  Cardinality(G) = Cardinality(F)
  <2>1. F = G
    BY <1>6
  <2> QED
    BY <2>1
<1> HIDE DEF F, G
<1> QED
  BY <1>2, <1>4, <1>5, <1>6

\* What is put on the clipboard is at most one more change to read.
LEMMA UnseenPosted ==
    ASSUME TypeOK, mode' = mode, handler'.lastText = handler.lastText, events' = Posted
    PROVE  Unseen' <= Unseen + 1
BY Records DEF Unseen, Posted

LEMMA UnseenSame ==
    ASSUME UNCHANGED <<mode, events, clip>>, handler'.lastText = handler.lastText
    PROVE  Unseen' = Unseen
BY DEF Unseen

\* The rest follows when nothing is spent that was not paid for.
LEMMA EchoKept ==
    ASSUME TypeOK, TypeOK', EchoInv, Slack' >= Slack,
           UNCHANGED <<worker, clip>>, \A t : Marked(t) => Marked(t)',
           handler'.pc # "echo" \/ (handler' = handler /\ Slack' + Unseen' >= Slack + Unseen)
    PROVE  EchoInv'
<1>1. Slack \in Int /\ Slack' \in Int /\ Unseen \in Nat /\ Unseen' \in Nat
  BY Amounts, AmountsNext DEF Slack
<1>2. Slack' >= 0
  BY <1>1 DEF EchoInv
<1>3. (worker # None => Marked(worker))'
  BY DEF EchoInv, Marked
<1>4. (worker = None /\ clip.item \in Texts /\ ~clip.mine /\ ~Marked(clip.item) => Slack >= 1)'
  <2>1. worker = None /\ clip.item \in Texts /\ ~clip.mine /\ ~Marked(clip.item) => Slack >= 1
    BY DEF EchoInv
  <2>2. Marked(clip.item) => Marked(clip.item)'
    BY DEF Marked
  <2> QED
    BY <1>1, <2>1, <2>2
<1>5. (worker = None /\ handler.pc = "echo" /\ ~handler.mine /\ ~Marked(handler.item) =>
          Unseen >= 1 \/ Slack >= 1)'
  <2>1. CASE handler'.pc # "echo"
    BY <2>1
  <2>2. CASE handler' = handler /\ Slack' + Unseen' >= Slack + Unseen
    <3>1. worker = None /\ handler.pc = "echo" /\ ~handler.mine /\ ~Marked(handler.item) =>
             Unseen >= 1 \/ Slack >= 1
      BY DEF EchoInv
    <3>2. Marked(handler.item) => Marked(handler.item)'
      BY <2>2 DEF Marked
    <3>3. Slack >= 0
      BY DEF EchoInv
    <3>4. Slack >= 1 \/ Unseen >= 1 => Slack' >= 1 \/ Unseen' >= 1
      <4>1. Slack' + Unseen' >= Slack + Unseen
        BY <2>2
      <4>2. \A a, b \in Int, c, d \in Nat :
               a >= 0 /\ b >= 0 /\ b + d >= a + c /\ (a >= 1 \/ c >= 1) => b >= 1 \/ d >= 1
        OBVIOUS
      <4> QED
        BY <1>1, <1>2, <3>3, <4>1, <4>2
    <3>5. CASE Slack' >= 1 \/ Unseen' >= 1
      BY <3>5
    <3>6. CASE ~(Slack >= 1 \/ Unseen >= 1)
      <4>1. ~(worker = None /\ handler.pc = "echo" /\ ~handler.mine /\ ~Marked(handler.item))
        BY <3>1, <3>6
      <4>2. UNCHANGED <<worker, handler>>
        BY <2>2
      <4> QED
        BY <3>2, <4>1, <4>2
    <3> QED
      BY <3>4, <3>5, <3>6
  <2> QED
    BY <2>1, <2>2
<1> QED
  BY <1>2, <1>3, <1>4, <1>5 DEF EchoInv

\* A clip is written: one more change, that somebody paid for.
LEMMA EchoWritten ==
    ASSUME TInv, TInv', EchoInv, EchoesDieOut, WriteText
    PROVE  EchoInv' /\ EchoesDieOut'
<1> USE DEF TInv
<1>1. /\ UNCHANGED <<session, mode, echo, recent, fetch, handler, ui, remote, commands, echoes>>
      /\ worker \in Texts /\ worker' = None /\ Marked(worker) /\ copies' = copies
      /\ \/ clip' = clip /\ events' = events
         \/ clip'.item = worker /\ events' = Posted
  <2>1. /\ UNCHANGED <<session, mode, echo, recent, fetch, handler, ui, remote, commands, echoes>>
        /\ worker \in Texts /\ worker' = None /\ Marked(worker)
    BY Records DEF WriteText, ghostVars, EchoInv
  <2>2. CASE SetClipboard(worker)
    <3>1. worker \in Items
      BY <2>1 DEF Items
    <3>2. clip'.item = worker /\ copies' = copies
      BY <2>2, <3>1, ClipMoves, Records
    <3> QED
      BY <2>1, <2>2, <3>2 DEF SetClipboard
  <2>3. CASE UNCHANGED clipVars
    BY <2>1, <2>3 DEF clipVars
  <2> QED
    BY <2>1, <2>2, <2>3 DEF WriteText
<1>2. Unseen' <= Unseen + 1
  BY <1>1, UnseenPosted, UnseenSame, Amounts
<1>3. /\ Reading' = Reading /\ Writing = 1 /\ Writing' = 0
      /\ Fetching' = Fetching /\ Restarting' = Restarting
  BY <1>1, BridgeAssumption DEF Reading, Writing, Fetching, Restarting
<1>4. /\ Slack \in Int /\ Slack' \in Int /\ Slack' >= Slack /\ Slack' + Unseen' = Slack + Unseen + 1
      /\ clip' = clip /\ events' = events => Slack' >= 1
  <2>1. Slack \in Int /\ Slack' \in Int /\ Slack' >= Slack /\ Slack' + Unseen' = Slack + Unseen + 1
    BY <1>1, <1>2, <1>3, Amounts, AmountsNext DEF Slack
  <2>2. ASSUME clip' = clip, events' = events
        PROVE  Slack' >= 1
    <3>1. Unseen' = Unseen
      BY <1>1, <2>2, UnseenSame
    <3>2. Slack >= 0
      BY DEF EchoInv
    <3> QED
      BY <2>1, <3>1, <3>2, Amounts
  <2> QED
    BY <2>1, <2>2
<1>5. Slack >= 0 /\ Slack' >= 0
  BY <1>4 DEF EchoInv
<1>6. Unseen' >= 1 \/ Slack' >= 1
  BY <1>4, <1>5, Amounts, AmountsNext
<1>7. (worker = None /\ clip.item \in Texts /\ ~clip.mine /\ ~Marked(clip.item) => Slack >= 1)'
  BY <1>1, <1>4 DEF Marked
<1>8. EchoInv'
  BY <1>1, <1>5, <1>6, <1>7 DEF EchoInv
<1>9. EchoesDieOut'
  BY <1>1 DEF EchoesDieOut
<1> QED
  BY <1>8, <1>9

\* The rest of what happens outside the handler and the commands.
LEMMA EchoOutside ==
    ASSUME TInv, TInv', EchoInv, EchoesDieOut,
           \/ \E item \in Copied : Copy(item)
           \/ WindowEnds
           \/ \E text \in Received \cap Texts : OnClipText(text)
           \/ \E f \in Fetchers : FetchStep(f) \/ \E img \in Received \cap Images : OnClipImage(f, img)
           \/ Quit
    PROVE  EchoInv' /\ EchoesDieOut'
<1> USE DEF TInv
<1>1. CASE \E item \in Copied : Copy(item)
  <2>1. /\ UNCHANGED <<mode, echo, worker, fetch, handler, ui, remote, commands, echoes>>
        /\ copies' = copies + 1 /\ clip'.mine = TRUE /\ events' = Posted
    BY <1>1 DEF Copy, ghostVars
  <2>2. Unseen' <= Unseen + 1
    BY <2>1, UnseenPosted
  <2>3. /\ Reading' = Reading /\ Writing' = Writing
        /\ Fetching' = Fetching /\ Restarting' = Restarting
    BY <2>1 DEF Reading, Writing, Fetching, Restarting
  <2>4. /\ Slack \in Int /\ Slack' \in Int /\ Slack' >= Slack
        /\ Slack' + Unseen' = Slack + Unseen + 1
    BY <2>1, <2>2, <2>3, Amounts, AmountsNext DEF Slack
  <2>5. Slack >= 0 /\ Slack' >= 0 /\ (Unseen' >= 1 \/ Slack' >= 1)
    BY <2>4, Amounts, AmountsNext DEF EchoInv
  <2>6. EchoInv'
    <3>1. (worker # None => Marked(worker))'
      BY <2>1 DEF EchoInv, Marked
    <3>2. (worker = None /\ clip.item \in Texts /\ ~clip.mine /\ ~Marked(clip.item) => Slack >= 1)'
      BY <2>1
    <3> QED
      BY <2>5, <3>1, <3>2 DEF EchoInv
  <2>7. EchoesDieOut'
    BY <2>1, Amounts DEF EchoesDieOut
  <2> QED
    BY <2>6, <2>7
<1>2. CASE WindowEnds
  <2>1. /\ UNCHANGED <<clip, events, copies, mode, worker, fetch, handler, ui, remote,
                       commands, echoes>>
        /\ \A t : Marked(t) <=> Marked(t)'
    <3>1. UNCHANGED <<clip, events, copies, mode, worker, fetch, handler, ui, remote,
                      commands, echoes>>
      BY <1>2 DEF WindowEnds, clipVars, ghostVars
    <3>2. echo # None /\ echo' # None /\ echo'.text = echo.text
      <4>1. echo \in [text : Texts, fresh : BOOLEAN] /\ echo' = [echo EXCEPT !.fresh = FALSE]
        BY <1>2, Records DEF WindowEnds
      <4>2. echo' \in [text : Texts, fresh : BOOLEAN] /\ echo'.text = echo.text
        BY <4>1
      <4> QED
        BY <1>2, <4>2, BridgeAssumption DEF WindowEnds
    <3> QED
      BY <3>1, <3>2 DEF Marked
  <2>2. Unseen' = Unseen
    BY <2>1, UnseenSame
  <2>3. Slack' = Slack /\ Slack \in Int
    BY <2>1, <2>2, Amounts DEF Slack, Reading, Writing, Fetching, Restarting
  <2>4. EchoInv'
    BY <2>1, <2>2, <2>3, EchoKept, Amounts
  <2>5. EchoesDieOut'
    BY <2>1 DEF EchoesDieOut
  <2> QED
    BY <2>4, <2>5
<1>3. CASE \E text \in Received \cap Texts : OnClipText(text)
  <2>1. /\ UNCHANGED <<clip, events, copies, mode, fetch, handler, ui, commands, echoes>>
        /\ remote' = remote + 1 /\ worker = None /\ worker' # None /\ Marked(worker)'
    <3>1. PICK text \in Received \cap Texts : OnClipText(text)
      BY <1>3
    <3>2. /\ UNCHANGED <<clip, events, copies, mode, fetch, handler, ui, commands, echoes>>
          /\ remote' = remote + 1 /\ worker = None /\ worker' = text
          /\ echo' = [text |-> text, fresh |-> TRUE]
      BY <3>1 DEF OnClipText, OnText, clipVars, ghostVars
    <3>3. echo' \in [text : Texts, fresh : BOOLEAN] /\ echo'.text = text
      BY <3>2
    <3>4. worker' # None /\ echo' # None
      BY <3>2, <3>3, BridgeAssumption
    <3> QED
      BY <3>2, <3>3, <3>4 DEF Marked
  <2>2. Unseen' = Unseen
    BY <2>1, UnseenSame
  <2>3. /\ Reading' = Reading /\ Writing = 0 /\ Writing' = 1
        /\ Fetching' = Fetching /\ Restarting' = Restarting
    BY <2>1 DEF Reading, Writing, Fetching, Restarting
  <2>4. Slack' = Slack
    BY <2>1, <2>2, <2>3, Amounts DEF Slack
  <2>5. EchoInv'
    BY <2>1, <2>4 DEF EchoInv
  <2>6. EchoesDieOut'
    BY <2>1, Amounts DEF EchoesDieOut
  <2> QED
    BY <2>5, <2>6
<1>4. ASSUME NEW f \in Fetchers, NEW img \in Received \cap Images, OnClipImage(f, img)
      PROVE  EchoInv' /\ EchoesDieOut'
  <2>1. /\ UNCHANGED <<clip, events, copies, mode, echo, worker, handler, ui, commands, echoes>>
        /\ remote' = remote + 1 /\ \A g \in Fetchers : g # f => fetch'[g] = fetch[g]
        /\ fetch[f].pc = "idle"
    BY <1>4 DEF OnClipImage, clipVars, ghostVars
  <2>2. Fetching' \in {Fetching, Fetching + 1}
    BY <2>1, FetchingCounts
  <2>3. Unseen' = Unseen /\ Reading' = Reading /\ Writing' = Writing /\ Restarting' = Restarting
    BY <2>1, UnseenSame DEF Reading, Writing, Restarting
  <2>4. Slack' >= Slack /\ Slack \in Int /\ Slack' \in Int
    BY <2>1, <2>2, <2>3, Amounts, AmountsNext DEF Slack
  <2>5. EchoInv'
    <3>1. \A t : Marked(t) => Marked(t)'
      BY <2>1 DEF Marked
    <3>2. Slack' + Unseen' >= Slack + Unseen
      BY <2>3, <2>4, Amounts
    <3> QED
      BY <2>1, <2>4, <3>1, <3>2, EchoKept
  <2>6. EchoesDieOut'
    BY <2>1, Amounts DEF EchoesDieOut
  <2> QED
    BY <2>5, <2>6
<1>5. ASSUME NEW f \in Fetchers, FetchFails(f) \/ FetchRemembers(f) \/ FetchStores(f)
      PROVE  EchoInv' /\ EchoesDieOut'
  <2>1. /\ UNCHANGED <<clip, events, copies, mode, echo, worker, handler, ui, remote, commands,
                       echoes>>
        /\ fetch[f].pc # "idle"
        /\ FetchEnds(f) \/ \E pc \in {"push", "bytes", "write"} : FetchGoes(f, pc)
    BY <1>5 DEF FetchFails, FetchRemembers, FetchStores, FetchOnly, clipVars, FetchAt
  <2>2. Fetching' \in {Fetching, Fetching - 1}
    BY <2>1, FetchingCounts, FetchMoves, Records
  <2>3. Unseen' = Unseen /\ Reading' = Reading /\ Writing' = Writing /\ Restarting' = Restarting
    BY <2>1, UnseenSame DEF Reading, Writing, Restarting
  <2>4. Slack' >= Slack /\ Slack \in Int /\ Slack' \in Int
    BY <2>1, <2>2, <2>3, Amounts, AmountsNext DEF Slack
  <2>5. EchoInv'
    <3>1. \A t : Marked(t) => Marked(t)'
      BY <2>1 DEF Marked
    <3>2. Slack' + Unseen' >= Slack + Unseen
      BY <2>3, <2>4, Amounts
    <3> QED
      BY <2>1, <2>4, <3>1, <3>2, EchoKept
  <2>6. EchoesDieOut'
    BY <2>1, Amounts DEF EchoesDieOut
  <2> QED
    BY <2>5, <2>6
<1>6. ASSUME NEW f \in Fetchers, FetchWrites(f)
      PROVE  EchoInv' /\ EchoesDieOut'
  <2>1. /\ UNCHANGED <<mode, echo, worker, handler, ui, remote, commands, echoes>>
        /\ fetch[f].pc = "write" /\ FetchEnds(f)
        /\ fetch[f].img \in Items \ Texts
    BY <1>6, BridgeAssumption DEF FetchWrites, FetchOnly, FetchAt, HandlerInv, Items
  <2>2. /\ copies' = copies
        /\ \/ clip' = clip /\ events' = events
           \/ clip'.item \notin Texts /\ events' = Posted
    <3>1. CASE SetClipboard(fetch[f].img)
      BY <2>1, <3>1, ClipMoves, Records DEF SetClipboard
    <3>2. CASE UNCHANGED clipVars
      BY <3>2 DEF clipVars
    <3> QED
      BY <1>6, <3>1, <3>2 DEF FetchWrites
  <2>3. Unseen' <= Unseen + 1
    BY <2>1, <2>2, UnseenPosted, UnseenSame, Amounts
  <2>4. Fetching' = Fetching - 1
    BY <2>1, FetchingCounts, FetchMoves, Records
  <2>5. Reading' = Reading /\ Writing' = Writing /\ Restarting' = Restarting
    BY <2>1 DEF Reading, Writing, Restarting
  <2>6. /\ Slack' >= Slack /\ Slack \in Int /\ Slack' \in Int
        /\ Slack' + Unseen' = Slack + Unseen + 1
    BY <2>1, <2>2, <2>3, <2>4, <2>5, Amounts, AmountsNext DEF Slack
  <2>7. Slack >= 0 /\ Slack' >= 0 /\ (Unseen' >= 1 \/ Slack' >= 1)
    BY <2>6, Amounts, AmountsNext DEF EchoInv
  <2>8. EchoInv'
    <3>1. (worker # None => Marked(worker))'
      BY <2>1 DEF EchoInv, Marked
    <3>2. (worker = None /\ clip.item \in Texts /\ ~clip.mine /\ ~Marked(clip.item) => Slack >= 1)'
      <4>1. CASE clip' = clip
        <5>1. worker = None /\ clip.item \in Texts /\ ~clip.mine /\ ~Marked(clip.item) => Slack >= 1
          BY DEF EchoInv
        <5> QED
          BY <2>1, <2>6, <4>1, <5>1 DEF Marked
      <4> QED
        BY <2>2, <4>1
    <3> QED
      BY <2>7, <3>1, <3>2 DEF EchoInv
  <2>9. EchoesDieOut'
    BY <2>1, <2>2, Amounts DEF EchoesDieOut
  <2> QED
    BY <2>8, <2>9
<1>7. CASE Quit
  <2>1. UNCHANGED <<clip, events, copies, mode, echo, worker, fetch, handler, ui, remote,
                    commands, echoes>>
    BY <1>7 DEF Quit, UiOnly
  <2>2. Unseen' = Unseen
    BY <2>1, UnseenSame
  <2>3. Slack' = Slack /\ Slack \in Int
    BY <2>1, <2>2, Amounts DEF Slack, Reading, Writing, Fetching, Restarting
  <2>4. \A t : Marked(t) => Marked(t)'
    BY <2>1 DEF Marked
  <2>5. EchoInv'
    BY <2>1, <2>2, <2>3, <2>4, EchoKept, Amounts
  <2>6. EchoesDieOut'
    BY <2>1 DEF EchoesDieOut
  <2> QED
    BY <2>5, <2>6
<1> QED
  BY <1>1, <1>2, <1>3, <1>4, <1>5, <1>6, <1>7 DEF FetchStep

\* The handler pays for what it publishes with what it read.
LEMMA EchoHandler ==
    ASSUME TInv, TInv', EchoInv, EchoesDieOut, HandlerStep
    PROVE  EchoInv' /\ EchoesDieOut'
<1> USE DEF TInv
<1>1. /\ UNCHANGED <<clip, mode, echo, worker, fetch, copies, remote, commands>>
      /\ ui'.pc = ui.pc /\ ui'.next = ui.next /\ mode \in {"native", "poller"}
  <2>1. mode # "none"
    BY UpdateMoves DEF HandlerStep, ReadImage, ReadText, TryPublishText, TryPublishImage,
       HandlerPublishes, HandlerStores, HandlerAt, HandlerInv, Waiting
  <2> QED
    BY <2>1, ElsewhereKeeps, Records DEF HandlerStep, ReadImage, ReadText, TryPublishText,
       TryPublishImage, HandlerPublishes, HandlerStores, HandlerOnly
<1>2. Writing' = Writing /\ Fetching' = Fetching /\ Restarting' = Restarting
  BY <1>1 DEF Writing, Fetching, Restarting
<1>3. \A t : Marked(t) => Marked(t)'
  BY <1>1 DEF Marked
<1>4. ASSUME Unseen' + Reading' + echoes' <= Unseen + Reading + echoes
      PROVE  Slack' >= Slack /\ Slack \in Int /\ Slack' \in Int
  BY <1>1, <1>2, <1>4, Amounts, AmountsNext DEF Slack
<1>5. ASSUME Unseen' + Reading' + echoes' <= Unseen + Reading + echoes, handler'.pc # "echo"
      PROVE  EchoInv'
  BY <1>1, <1>3, <1>4, <1>5, EchoKept
<1>6. ASSUME echoes' = echoes
      PROVE  EchoesDieOut'
  BY <1>1, <1>6 DEF EchoesDieOut
<1>7. CASE ReadImage
  <2>1. echoes' = echoes /\ handler.pc = "idle" /\ Reading = 0
    BY <1>7 DEF ReadImage, HandlerShares, HandlerAt, Reading
  <2>2. /\ mode = "native" => events' = events - 1 /\ events > 0
        /\ mode = "poller" => events' = events
    BY <1>7, UpdateMoves DEF ReadImage
  <2>3. CASE HandlerGoes("text")
    <3>1. handler'.pc = "text" /\ handler'.lastText = handler.lastText
      BY <2>3, HandlerMoves, Records
    <3>2. CASE mode = "native"
      <4>1. Unseen' = Unseen - 1 /\ Reading' = 1
        BY <1>1, <2>2, <3>1, <3>2 DEF Unseen, Reading
      <4> QED
        BY <1>5, <1>6, <2>1, <3>1, <4>1, Amounts
    <3>3. CASE mode = "poller"
      <4>1. Unseen' = Unseen /\ Reading' = 0
        BY <1>1, <2>2, <3>1, <3>3 DEF Unseen, Reading
      <4> QED
        BY <1>5, <1>6, <2>1, <3>1, <4>1, Amounts
    <3> QED
      BY <1>1, <3>2, <3>3
  <2>4. CASE clip.item \in Images /\ HandlerTakes("hash", None, clip.item)
    <3>1. handler'.pc = "hash" /\ clip.item \notin Texts
      BY <2>4, HandlerMoves, Records, BridgeAssumption DEF StorePcs
    <3>2. Unseen' <= Unseen /\ Reading' = 0
      <4>1. CASE mode = "native"
        BY <1>1, <2>2, <3>1, <4>1, Records DEF Unseen, Reading
      <4>2. CASE mode = "poller"
        BY <1>1, <3>1, <4>2 DEF Unseen, Reading
      <4> QED
        BY <1>1, <4>1, <4>2
    <3> QED
      BY <1>5, <1>6, <2>1, <3>1, <3>2, Amounts, AmountsNext
  <2> QED
    BY <1>7, <2>3, <2>4 DEF ReadImage
<1>8. CASE ReadText
  <2>1. echoes' = echoes /\ handler.pc = "text" /\ UNCHANGED <<events, ui>>
    BY <1>8 DEF ReadText, HandlerShares, HandlerAt
  <2>2. CASE HandlerEnds
    <3>1. handler'.pc = "idle" /\ handler'.lastText = handler.lastText
      BY <2>2, HandlerMoves, Records
    <3>2. Unseen' = Unseen /\ Reading' = 0
      BY <1>1, <2>1, <3>1, UnseenSame DEF Reading
    <3> QED
      BY <1>5, <1>6, <2>1, <3>1, <3>2, Amounts
  <2>3. CASE /\ clip.item \in Texts /\ (mode = "poller" => clip.item # handler.lastText)
             /\ HandlerTakes("echo", clip.item, None)
    <3>1. /\ handler'.pc = "echo" /\ handler'.item = clip.item /\ handler'.mine = clip.mine
          /\ handler'.lastText = IF mode = "poller" THEN clip.item ELSE None
      BY <2>3, HandlerMoves, Records
    <3>2. Unseen' + Reading' + echoes' <= Unseen + Reading + echoes
      <4>1. CASE mode = "native"
        <5>1. Unseen' = Unseen /\ Reading' = 1 /\ Reading = 1
          BY <1>1, <2>1, <3>1, <4>1 DEF Unseen, Reading
        <5> QED
          BY <2>1, <5>1, Amounts
      <4>2. CASE mode = "poller"
        <5>1. Unseen' = 0 /\ Unseen = 1 /\ Reading' = 1 /\ Reading = 0
          BY <1>1, <2>1, <2>3, <3>1, <4>2 DEF Unseen, Reading
        <5> QED
          BY <2>1, <5>1, Amounts
      <4> QED
        BY <1>1, <4>1, <4>2
    <3>3. Slack' >= Slack /\ Slack \in Int /\ Slack' \in Int /\ Slack >= 0
      BY <1>4, <3>2 DEF EchoInv
    <3>4. worker = None /\ clip.item \in Texts /\ ~clip.mine /\ ~Marked(clip.item) => Slack >= 1
      BY DEF EchoInv
    <3>5. (worker # None => Marked(worker))'
      BY <1>1 DEF EchoInv, Marked
    <3>6. (worker = None /\ clip.item \in Texts /\ ~clip.mine /\ ~Marked(clip.item) => Slack >= 1)'
      BY <1>1, <3>3, <3>4 DEF Marked
    <3>7. (worker = None /\ handler.pc = "echo" /\ ~handler.mine /\ ~Marked(handler.item) =>
              Unseen >= 1 \/ Slack >= 1)'
      BY <1>1, <2>3, <3>1, <3>3, <3>4 DEF Marked
    <3>8. EchoInv'
      BY <3>3, <3>5, <3>6, <3>7 DEF EchoInv
    <3> QED
      BY <1>6, <2>1, <3>8
  <2> QED
    BY <1>8, <2>2, <2>3 DEF ReadText
<1>9. CASE TryPublishText
  <2>1. handler.pc = "echo" /\ HandlerEnds /\ UNCHANGED <<events, ui>>
    BY <1>9 DEF TryPublishText, HandlerAt
  <2>2. handler'.pc = "idle" /\ handler'.lastText = handler.lastText
    BY <2>1, HandlerMoves, Records
  <2>3. Unseen' = Unseen /\ Reading' = 0 /\ Reading = 1
    BY <1>1, <2>1, <2>2, UnseenSame DEF Reading
  <2>4. echoes' = echoes \/ (echoes' = echoes + 1 /\ ~handler.mine /\ ~Marked(handler.item))
    BY <1>9 DEF TryPublishText, IsEcho, Marked
  <2>5. EchoInv'
    BY <1>5, <2>2, <2>3, <2>4, Amounts
  <2>6. ASSUME echoes' = echoes + 1, ~handler.mine, ~Marked(handler.item)
        PROVE  EchoesDieOut'
    <3>1. Writing >= 1 \/ Unseen >= 1 \/ Slack >= 1
      <4>1. CASE worker # None
        BY <4>1 DEF Writing
      <4>2. CASE worker = None
        BY <2>1, <2>6, <4>2 DEF EchoInv
      <4> QED
        BY <4>1, <4>2
    <3>2. echoes + 1 < remote + copies + commands
      <4>1. Slack >= 0
        BY DEF EchoInv
      <4> QED
        BY <2>3, <3>1, <4>1, Amounts DEF Slack
    <3> QED
      BY <1>1, <2>6, <3>2 DEF EchoesDieOut
  <2> QED
    BY <1>6, <2>4, <2>5, <2>6
<1>10. CASE TryPublishImage \/ HandlerPublishes \/ HandlerStores
  <2>1. /\ echoes' = echoes /\ UNCHANGED <<events, ui>> /\ handler.pc \in StorePcs
        /\ HandlerEnds \/ HandlerGoes("publish") \/ HandlerGoes("bytes")
    BY <1>10 DEF TryPublishImage, HandlerPublishes, HandlerStores, HandlerAt, StorePcs
  <2>2. handler'.pc \in {"idle", "publish", "bytes"} /\ handler'.lastText = handler.lastText
    BY <2>1, HandlerMoves, Records DEF StorePcs
  <2>3. Unseen' = Unseen /\ Reading' = 0
    BY <1>1, <2>1, <2>2, UnseenSame DEF Reading
  <2> QED
    BY <1>5, <1>6, <2>1, <2>2, <2>3, Amounts
<1> QED
  BY <1>7, <1>8, <1>9, <1>10 DEF HandlerStep

\* A command pays for the poller that a start may leave behind.
LEMMA EchoCommands ==
    ASSUME TInv, TInv', EchoInv, EchoesDieOut,
           \/ \E img \in Picked : SendImage(img)
           \/ \E next \in {"idle", "start"} : StartOrStop(next)
           \/ SendFile \/ DrainReceived
    PROVE  EchoInv' /\ EchoesDieOut'
<1> USE DEF TInv
<1>1. Command
  BY DEF SendImage, StartOrStop, SendFile, DrainReceived
<1>2. UNCHANGED <<clip, mode, events, echo, worker, fetch, handler, copies, remote, echoes>>
      /\ commands' = commands + 1
  BY <1>1, CommandTypes
<1>3. Unseen' = Unseen
  BY <1>2, UnseenSame
<1>4. Slack' >= Slack /\ Slack \in Int /\ Slack' \in Int
  BY <1>2, <1>3, Amounts, AmountsNext DEF Slack, Reading, Writing, Fetching
<1>5. \A t : Marked(t) => Marked(t)'
  BY <1>2 DEF Marked
<1>6. EchoInv'
  <2>1. Slack' + Unseen' >= Slack + Unseen
    BY <1>3, <1>4, Amounts
  <2> QED
    BY <1>2, <1>4, <1>5, <2>1, EchoKept
<1>7. EchoesDieOut'
  BY <1>2, Amounts DEF EchoesDieOut
<1> QED
  BY <1>6, <1>7

LEMMA EchoUi ==
    ASSUME TInv, TInv', StartAfterStop, EchoInv, EchoesDieOut, UiStep
    PROVE  EchoInv' /\ EchoesDieOut'
<1> USE DEF TInv
<1>1. UNCHANGED <<clip, echo, worker, fetch, copies, remote, commands, echoes>>
  BY DEF UiStep, SendImageStep, SendFileReturns, QuitLocks, StopClient, JoinHandler,
     StartClient, WireListener, SpawnClipboardHandler, UiOnly
<1>2. EchoesDieOut'
  BY <1>1 DEF EchoesDieOut
<1>3. \A t : Marked(t) => Marked(t)'
  BY <1>1 DEF Marked
<1>4. Writing' = Writing /\ Fetching' = Fetching
  BY <1>1 DEF Writing, Fetching
<1>5. ASSUME Unseen' + Reading' + Restarting' <= Unseen + Reading + Restarting
      PROVE  Slack' >= Slack /\ Slack \in Int /\ Slack' \in Int
  BY <1>1, <1>4, <1>5, Amounts, AmountsNext DEF Slack
<1>6. ASSUME UNCHANGED <<mode, events, handler>>, Restarting' <= Restarting
      PROVE  EchoInv'
  <2>1. Unseen' = Unseen /\ Reading' = Reading
    BY <1>1, <1>6, UnseenSame DEF Reading
  <2>2. Slack' >= Slack /\ Slack \in Int /\ Slack' \in Int
    BY <1>5, <1>6, <2>1, Amounts, AmountsNext
  <2>3. Slack' + Unseen' >= Slack + Unseen
    BY <2>1, <2>2, Amounts
  <2> QED
    BY <1>1, <1>3, <1>6, <2>2, <2>3, EchoKept
<1>7. CASE SendImageStep \/ SendFileReturns
  <2>1. UNCHANGED <<mode, events, handler>> /\ ui.pc \in StorePcs \cup {"file"}
    BY <1>7 DEF SendImageStep, SendFileReturns, StorePcs
  <2>2. /\ ui'.pc \in StorePcs \cup {"idle", "hung"} /\ ui'.next \in {ui.next, "idle"}
    BY <1>7, UiMoves, Records DEF SendImageStep, SendFileReturns, StorePcs
  <2>3. Restarting' <= Restarting
    BY <2>2 DEF Restarting, StorePcs
  <2> QED
    BY <1>2, <1>6, <2>1, <2>3
<1>8. CASE QuitLocks \/ StopClient
  <2>1. UNCHANGED <<mode, events, handler>>
    BY <1>8 DEF QuitLocks, StopClient
  <2>2. ui'.pc \in {"stop", "join"} /\ ui'.next \in {ui.next, "exited"}
    BY <1>8, Records DEF QuitLocks, StopClient, UiRecs
  <2>3. Restarting' <= Restarting
    BY <2>2 DEF Restarting
  <2> QED
    BY <1>2, <1>6, <2>1, <2>3
<1>9. CASE JoinHandler
  <2>1. /\ mode' = "none" /\ handler'.pc = "idle"
        /\ ui'.next = "idle" /\ ui'.pc = ui.next /\ ui.next \in {"idle", "start", "exited"}
    BY <1>9, Records DEF JoinHandler, Waiting, Unlocked, UiRecs
  <2>2. Restarting' <= Restarting /\ Unseen' = 0 /\ Reading' = 0
    BY <2>1 DEF Restarting, Unseen, Reading
  <2>3. Slack' >= Slack /\ Slack \in Int /\ Slack' \in Int
    BY <1>5, <2>2, Amounts, AmountsNext
  <2>4. EchoInv'
    BY <1>1, <1>3, <2>1, <2>3, EchoKept
  <2> QED
    BY <1>2, <2>4
<1>10. CASE StartClient \/ WireListener
  <2>1. UNCHANGED <<mode, events, handler>> /\ ui.pc \in {"start", "wire"}
    BY <1>10 DEF StartClient, WireListener
  <2>2. Restarting' <= Restarting
    BY <2>1, AmountsNext DEF Restarting
  <2> QED
    BY <1>2, <1>6, <2>1, <2>2
<1>11. CASE SpawnClipboardHandler
  <2>1. /\ mode' \in {"native", "poller"} /\ UNCHANGED <<events, handler>>
        /\ ui' = Unlocked /\ ui.pc = "spawn"
    BY <1>11 DEF SpawnClipboardHandler
  <2>2. mode = "none" /\ handler = Waiting /\ events = 0
    BY <2>1 DEF StartAfterStop, HandlerInv
  <2>3. handler.pc = "idle" /\ handler'.pc = "idle"
    BY <2>1, <2>2 DEF Waiting
  <2>4. Unseen' <= 1 /\ Unseen = 0 /\ Reading = 0 /\ Reading' = 0
    BY <2>1, <2>2, <2>3 DEF Unseen, Reading
  <2>5. Restarting = 1 /\ Restarting' = 0
    BY <2>1 DEF Restarting, Unlocked
  <2>6. Slack' >= Slack /\ Slack \in Int /\ Slack' \in Int
    BY <1>5, <2>4, <2>5, Amounts, AmountsNext
  <2>7. EchoInv'
    BY <1>1, <1>3, <2>3, <2>6, EchoKept
  <2> QED
    BY <1>2, <2>7
<1> QED
  BY <1>7, <1>8, <1>9, <1>10, <1>11 DEF UiStep

-----------------------------------------------------------------------------
(* The theorems *)

LEMMA Initially == Init => IInv
<1> SUFFICES ASSUME Init
             PROVE  IInv
  OBVIOUS
<1> USE DEF Init
<1>1. TypeOK
  <2>1. handler \in HandlerRecs /\ ui \in UiRecs
    BY DEF HandlerRecs, UiRecs, Waiting, Unlocked
  <2>2. clip \in ClipRecs
    BY DEF ClipRecs
  <2>3. fetch \in [Fetchers -> FetchRecs]
    BY DEF Idle, FetchRecs
  <2>4. /\ 0 \in 0..MaxCopies /\ 0 \in 0..MaxRemote /\ 0 \in 0..MaxCommands
        /\ 0 \in 0..MaxFaults /\ 0 <= HASH_CAP /\ 0 <= HISTORY_LIMIT
    BY BridgeAssumption
  <2>5. /\ recent \in Seq(Images) /\ Len(recent) <= HASH_CAP
        /\ history \in Seq(Ids) /\ Len(history) <= HISTORY_LIMIT
        /\ files \in Seq(FileRecs) /\ Len(files) <= HISTORY_LIMIT
    BY <2>4
  <2>6. session = "on" /\ mode = "native" /\ events \in Nat /\ echo = None /\ worker = None
        /\ quitting \in BOOLEAN /\ owed \in BOOLEAN /\ bytes = {}
        /\ copies = 0 /\ remote = 0 /\ commands = 0 /\ faults = 0 /\ echoes = 0
        /\ echoed = {} /\ forgotten = {} /\ twins = {}
    OBVIOUS
  <2> HIDE DEF Init
  <2> QED
    BY <2>1, <2>2, <2>3, <2>4, <2>5, <2>6, Records
<1>2. HandlerInv
  BY DEF HandlerInv, Waiting, Unlocked, Idle, StorePcs
<1>3. SendingIsNewest
  BY DEF SendingIsNewest, Unlocked
<1>4. ListedIsSavable
  BY DEF ListedIsSavable
<1>5. ImagesRemembered /\ ImageEchoNeedsEviction
  BY BridgeAssumption DEF ImagesRemembered, ImageEchoNeedsEviction, Waiting, Idle
<1>6. StartAfterStop
  BY DEF StartAfterStop, Unlocked
<1>7. EchoInv /\ EchoesDieOut
  <2>1. /\ Unseen = 0 /\ Reading = 0 /\ Writing = 0 /\ Restarting = 0
    BY DEF Unseen, Reading, Writing, Restarting, Waiting, Unlocked
  <2>2. Fetching = 0
    <3>1. {f \in Fetchers : fetch[f].pc # "idle"} = {}
      BY DEF Idle
    <3> QED
      BY <3>1, FS_EmptySet DEF Fetching
  <2>3. Slack = 0
    BY <2>1, <2>2 DEF Slack
  <2>4. clip.item \notin Texts /\ handler.pc # "echo"
    BY BridgeAssumption DEF Waiting
  <2> QED
    BY <2>3, <2>4 DEF EchoInv, EchoesDieOut
<1> QED
  BY <1>1, <1>2, <1>3, <1>4, <1>5, <1>6, <1>7 DEF IInv, TInv

LEMMA Inductive == IInv /\ [Next]_vars => IInv'
<1> SUFFICES ASSUME IInv, [Next]_vars
             PROVE  IInv'
  OBVIOUS
<1>1. CASE Next
  <2>1. TInv'
    BY <1>1, TypeStep DEF IInv
  <2>2. SendingIsNewest'
    BY <1>1, SendingStep DEF IInv
  <2>3. ListedIsSavable'
    BY <1>1, SavableStep DEF IInv
  <2>4. ImagesRemembered' /\ ImageEchoNeedsEviction'
    BY <1>1, ImageStep DEF IInv
  <2>5. StartAfterStop'
    BY <1>1, StartStep DEF IInv
  <2>6. EchoInv' /\ EchoesDieOut'
    <3>1. CASE WriteText
      BY <2>1, <3>1, EchoWritten DEF IInv
    <3>2. CASE HandlerStep
      BY <2>1, <3>2, EchoHandler DEF IInv
    <3>3. CASE \/ \E img \in Picked : SendImage(img)
               \/ \E next \in {"idle", "start"} : StartOrStop(next)
               \/ SendFile \/ DrainReceived
      BY <2>1, <3>3, EchoCommands DEF IInv
    <3>4. CASE UiStep
      BY <2>1, <3>4, EchoUi DEF IInv
    <3>5. CASE \/ \E item \in Copied : Copy(item)
               \/ WindowEnds
               \/ \E text \in Received \cap Texts : OnClipText(text)
               \/ \E f \in Fetchers : FetchStep(f) \/ \E img \in Received \cap Images : OnClipImage(f, img)
               \/ Quit
      BY <2>1, <3>5, EchoOutside DEF IInv
    <3> QED
      BY <1>1, <3>1, <3>2, <3>3, <3>4, <3>5 DEF Next
  <2> QED
    BY <2>1, <2>2, <2>3, <2>4, <2>5, <2>6 DEF IInv
<1>2. CASE UNCHANGED vars
  <2> USE <1>2 DEF vars
  <2>1. TypeOK'
    BY DEF IInv, TInv, TypeOK
  <2>2. HandlerInv' /\ SendingIsNewest'
    BY DEF IInv, TInv, HandlerInv, SendingIsNewest
  <2>3. ListedIsSavable'
    BY DEF IInv, ListedIsSavable, FetchAt, HandlerAt
  <2>4. ImagesRemembered' /\ ImageEchoNeedsEviction' /\ StartAfterStop'
    BY DEF IInv, ImagesRemembered, ImageEchoNeedsEviction, StartAfterStop, Remembered
  <2>5. EchoInv' /\ EchoesDieOut'
    BY DEF IInv, EchoInv, EchoesDieOut, Slack, Unseen, Reading, Writing, Fetching, Restarting,
       Marked
  <2> QED
    BY <2>1, <2>2, <2>3, <2>4, <2>5 DEF IInv, TInv
<1> QED
  BY <1>1, <1>2

LEMMA Invariance == Spec => []IInv
BY Initially, Inductive, PTL DEF Spec

\* The state of the host's threads, lists and clipboard stays what the code
\* declares it to be.
THEOREM TypeCorrect == Spec => []TypeOK
<1>1. IInv => TypeOK
  BY DEF IInv, TInv
<1> QED
  BY <1>1, Invariance, PTL

\* store_file_history: an entry shows as sending only while the command that
\* sends it holds the mutex.
THEOREM SendingIsCurrentHolds == Spec => []SendingIsCurrent
<1>1. IInv => SendingIsCurrent
  BY DEF IInv, SendingIsNewest, SendingIsCurrent
<1> QED
  BY <1>1, Invariance, PTL

\* store_history: what is listed can be saved, is about to be, or lost its bytes
\* with an older entry of the same id.
THEOREM ListedIsSavableHolds == Spec => []ListedIsSavable
<1>1. IInv => ListedIsSavable
  BY DEF IInv
<1> QED
  BY <1>1, Invariance, PTL

\* handle_remote_image and try_publish_image: a received image comes back as
\* this device's own only after remember_hash dropped its hash.
THEOREM ImageEchoNeedsEvictionHolds == Spec => []ImageEchoNeedsEviction
<1>1. IInv => ImageEchoNeedsEviction
  BY DEF IInv
<1> QED
  BY <1>1, Invariance, PTL

\* on_clip and try_publish_text: however copies, remote clips, restarts of the
\* handler and the ten seconds interleave, fewer texts come back as this
\* device's own than clips, copies and commands went in.
THEOREM EchoesDieOutHolds == Spec => []EchoesDieOut
<1>1. IInv => EchoesDieOut
  BY DEF IInv
<1> QED
  BY <1>1, Invariance, PTL

=============================================================================
