----------------------------- MODULE HostBridge -----------------------------
(***************************************************************************)
(* The Windows host: Bridge and BridgeListener in                          *)
(* clients/windows/src/bridge.rs, the message loop of clipboard_listener.rs *)
(* and the commands of main.rs that take the bridge's mutex.               *)
(*                                                                         *)
(* Four kinds of threads share the state: the client's worker calls        *)
(* on_clip, each received image is fetched on a thread of its own, the     *)
(* clipboard handler (WM_CLIPBOARDUPDATE or a poller) publishes what is    *)
(* copied, and commands of the user run one at a time under the mutex.     *)
(* A step is one access to the clipboard or to state behind a lock.        *)
(*                                                                         *)
(* An image is one that decodes and is within MAX_IMAGE_BYTES; anything    *)
(* else never gets past the read.  Its pixel hash is the image itself.     *)
(***************************************************************************)
EXTENDS Integers, Sequences, SequencesExt, FiniteSets

CONSTANTS
    Texts, Images,
    Copied, Received, Picked,   \* what the user copies, what other devices send,
                                \* and the images the user sends by hand
    Fetchers,       \* threads handle_remote_image may have running
    HASH_CAP,       \* CAP of remember_hash (32)
    HISTORY_LIMIT,  \* 24
    MaxCopies,      \* bounds of the model: copies by the user,
    MaxRemote,      \* clips from other devices,
    MaxCommands,    \* commands of the user,
    MaxFaults,      \* clipboard accesses that fail,
    None

ASSUME BridgeAssumption ==
    /\ Copied \cup Received \subseteq Texts \cup Images /\ Picked \subseteq Images
    /\ Texts \cap Images = {}
    /\ None \notin Texts \cup Images /\ None \notin [text : Texts, fresh : BOOLEAN]
    /\ HASH_CAP \in Nat \ {0} /\ HISTORY_LIMIT \in Nat \ {0}
    /\ {MaxCopies, MaxRemote, MaxCommands, MaxFaults} \subseteq Nat
    /\ IsFiniteSet(Fetchers)

VARIABLES
    clip,       \* the clipboard: what is on it, and whether the user put it there
    session,    \* "off", "new" (no back-reference yet) or "on"
    mode,       \* the clipboard handler: "none", "native" or "poller"
    events,     \* WM_CLIPBOARDUPDATE messages not yet handled
    echo,       \* expected_echo, and whether ECHO_WINDOW has not passed since
    recent,     \* recent_image_hashes, oldest first
    worker,     \* the text on_clip is about to write, or None
    fetch,      \* fetcher -> its thread
    handler,    \* the clipboard handler's thread, with the poller's locals
    ui,         \* the command that holds the bridge's mutex
    quitting,   \* quit_app waits for the mutex or runs
    history,    \* image_history, newest first
    bytes,      \* ids in image_bytes
    files,      \* file_history, newest first; sent, failed and received are "ended"
    copies, remote, commands, faults,
    echoes,     \* history: texts published though a remote clip wrote them
    echoed,     \* history: images published though a remote clip wrote them
    forgotten,  \* history: hashes that fell out of recent
    twins,      \* history: ids evicted while another entry of that id was listed
    owed        \* history: the user's copy on the clipboard is not dealt with yet

clipVars == <<clip, events, copies, owed>>
ghostVars == <<echoes, echoed, forgotten, twins>>
vars == <<clip, session, mode, events, echo, recent, worker, fetch, handler, ui,
          quitting, history, bytes, files, copies, remote, commands, faults,
          echoes, echoed, forgotten, twins, owed>>

Items == Texts \cup Images
Ids == {"png", "pixels"} \X Images      \* sha256 of the file, or of its pixels
StorePcs == {"hash", "publish", "bytes"}
Idle == [pc |-> "idle", img |-> None]

TypeOK ==
    /\ clip \in [item : Items \cup {None}, mine : BOOLEAN]
    /\ session \in {"off", "new", "on"} /\ mode \in {"none", "native", "poller"}
    /\ events \in Nat
    /\ echo \in [text : Texts, fresh : BOOLEAN] \cup {None}
    /\ recent \in Seq(Images) /\ Len(recent) <= HASH_CAP
    /\ worker \in Texts \cup {None}
    /\ fetch \in [Fetchers -> [pc : {"idle", "fetch", "push", "bytes", "write"},
                               img : Images \cup {None}]]
    /\ handler \in [pc : StorePcs \cup {"idle", "text", "echo"},
                    item : Items \cup {None}, mine : BOOLEAN,
                    lastText : Texts \cup {None}, lastImage : Images \cup {None}]
    /\ ui \in [pc : StorePcs \cup {"idle", "file", "hung", "stop", "join", "start", "wire",
                                   "spawn", "exited"},
               img : Images \cup {None}, left : Nat, next : {"idle", "start", "exited"}]
    /\ quitting \in BOOLEAN /\ owed \in BOOLEAN
    /\ history \in Seq(Ids) /\ Len(history) <= HISTORY_LIMIT
    /\ bytes \subseteq Ids
    /\ files \in Seq([id : 1..MaxCommands, status : {"sending", "ended"}])
    /\ Len(files) <= HISTORY_LIMIT
    /\ copies \in 0..MaxCopies /\ remote \in 0..MaxRemote
    /\ commands \in 0..MaxCommands /\ faults \in 0..MaxFaults /\ echoes \in Nat
    /\ echoed \subseteq Images /\ forgotten \subseteq Images /\ twins \subseteq Ids

Waiting == [pc |-> "idle", item |-> None, mine |-> FALSE, lastText |-> None, lastImage |-> None]
Unlocked == [pc |-> "idle", img |-> None, left |-> 0, next |-> "idle"]

\* A pairing is stored, and setup has started the bridge with the native
\* listener; a later start may have to fall back on the poller.
Init ==
    /\ clip = [item |-> None, mine |-> FALSE]
    /\ session = "on" /\ mode = "native" /\ events = 0
    /\ echo = None /\ recent = <<>> /\ worker = None
    /\ fetch = [f \in Fetchers |-> Idle]
    /\ handler = Waiting /\ ui = Unlocked /\ quitting = FALSE
    /\ history = <<>> /\ bytes = {} /\ files = <<>>
    /\ copies = 0 /\ remote = 0 /\ commands = 0 /\ faults = 0
    /\ echoes = 0 /\ echoed = {} /\ forgotten = {} /\ twins = {} /\ owed = FALSE

-----------------------------------------------------------------------------
(* The clipboard and its messages *)

Posted == IF mode = "native" THEN events + 1 ELSE events

\* The program puts a remote clip on the clipboard.
SetClipboard(item) ==
    /\ clip' = [item |-> item, mine |-> FALSE]
    /\ events' = Posted
    /\ owed' = FALSE
    /\ UNCHANGED <<copies, faults>>

\* Another application holds the clipboard open.
ClipboardBusy == faults < MaxFaults /\ faults' = faults + 1

\* The user copies something.
Copy(item) ==
    /\ copies < MaxCopies /\ copies' = copies + 1
    /\ clip' = [item |-> item, mine |-> TRUE]
    /\ events' = Posted
    /\ owed' = (mode # "none" /\ session = "on" /\ ui.pc \notin {"stop", "join"})
    /\ UNCHANGED <<session, mode, echo, recent, worker, fetch, handler, ui, quitting,
                   history, bytes, files, remote, commands, faults, ghostVars>>

\* ECHO_WINDOW (10 s) passes.
WindowEnds ==
    /\ echo # None /\ echo.fresh
    /\ echo' = [echo EXCEPT !.fresh = FALSE]
    /\ UNCHANGED <<clipVars, session, mode, recent, worker, fetch, handler, ui, quitting,
                   history, bytes, files, remote, commands, faults, ghostVars>>

-----------------------------------------------------------------------------
(* Shared helpers: remember_hash and store_history *)

Known(h) == Contains(recent, h)

RememberHash(h) ==
    LET q == Append(RemoveFirst(recent, h), h)
    IN  /\ recent' = IF Len(q) > HASH_CAP THEN Tail(q) ELSE q
        /\ forgotten' = IF Len(q) > HASH_CAP THEN forgotten \cup {Head(q)} ELSE forgotten

\* Mutant of PushHistory: the bytes of the entry before go, not the oldest one's.
PushHistoryDropsPrevious(id) ==
    LET h == <<id>> \o history
        full == Len(h) > HISTORY_LIMIT
    IN  /\ history' = IF full THEN Front(h) ELSE h
        /\ bytes' = IF full THEN bytes \ {h[2]} ELSE bytes
        /\ UNCHANGED twins

\* store_history, the first lock: push_front and evict ...
PushHistory(id) ==
    LET h == <<id>> \o history
        full == Len(h) > HISTORY_LIMIT
    IN  /\ history' = IF full THEN Front(h) ELSE h
        /\ bytes' = IF full THEN bytes \ {Last(h)} ELSE bytes
        /\ twins' = IF full /\ Contains(Front(h), Last(h)) THEN twins \cup {Last(h)} ELSE twins

\* ... and the second: the entry's bytes.
InsertBytes(id) == bytes' = bytes \cup {id} /\ twins' = twins \ {id} /\ UNCHANGED history

-----------------------------------------------------------------------------
(* on_clip, on the client's worker thread *)

\* Mutant of OnText: nothing is marked.
OnTextUnmarked(text) == UNCHANGED <<echo, clipVars, faults>>

\* expected_echo is set before the text is written.
OnText(text) == echo' = [text |-> text, fresh |-> TRUE] /\ UNCHANGED <<clipVars, faults>>

OnClipText(text) ==
    /\ session # "off" /\ worker = None
    /\ remote < MaxRemote /\ remote' = remote + 1
    /\ OnText(text)
    /\ worker' = text
    /\ UNCHANGED <<session, mode, recent, fetch, handler, ui, quitting, history, bytes,
                   files, commands, ghostVars>>

WriteText ==
    /\ worker # None
    /\ worker' = None
    /\ \/ SetClipboard(worker)
       \/ ClipboardBusy /\ UNCHANGED clipVars
    /\ UNCHANGED <<session, mode, echo, recent, fetch, handler, ui, quitting, history,
                   bytes, files, remote, commands, ghostVars>>

\* handle_remote_image: without the back-reference to the client nothing is fetched.
OnClipImage(f, img) ==
    /\ session # "off" /\ worker = None
    /\ remote < MaxRemote /\ remote' = remote + 1
    /\ fetch[f].pc = "idle"
    /\ fetch' = IF session = "on" THEN [fetch EXCEPT ![f] = [pc |-> "fetch", img |-> img]]
                                  ELSE fetch
    /\ UNCHANGED <<clipVars, session, mode, echo, recent, worker, handler, ui, quitting,
                   history, bytes, files, commands, faults, ghostVars>>

-----------------------------------------------------------------------------
(* The thread of a received image *)

FetchAt(f, pc) == fetch[f].pc = pc
FetchGoes(f, pc) == fetch' = [fetch EXCEPT ![f].pc = pc]
FetchEnds(f) == fetch' = [fetch EXCEPT ![f] = Idle]
FetchOnly == UNCHANGED <<session, mode, echo, worker, handler, ui, quitting, files,
                         remote, commands, echoes, echoed>>

\* fetch_image fails.
FetchFails(f) ==
    /\ FetchAt(f, "fetch")
    /\ FetchEnds(f)
    /\ UNCHANGED <<clipVars, recent, forgotten, history, bytes, twins, faults>> /\ FetchOnly

\* Mutant of FetchRemembers: the hash is looked up and not remembered.
FetchLooksUp(f) ==
    /\ FetchAt(f, "fetch")
    /\ IF Known(fetch[f].img) THEN FetchEnds(f) ELSE FetchGoes(f, "push")
    /\ UNCHANGED <<clipVars, recent, forgotten, history, bytes, twins, faults>> /\ FetchOnly

\* It returns the bytes.
FetchRemembers(f) ==
    /\ FetchAt(f, "fetch")
    /\ RememberHash(fetch[f].img)
    /\ IF Known(fetch[f].img) THEN FetchEnds(f) ELSE FetchGoes(f, "push")
    /\ UNCHANGED <<clipVars, history, bytes, twins, faults>> /\ FetchOnly

FetchStores(f) ==
    /\ \/ FetchAt(f, "push") /\ PushHistory(<<"pixels", fetch[f].img>>) /\ FetchGoes(f, "bytes")
       \/ FetchAt(f, "bytes") /\ InsertBytes(<<"pixels", fetch[f].img>>) /\ FetchGoes(f, "write")
    /\ UNCHANGED <<clipVars, recent, forgotten, faults>> /\ FetchOnly

\* The clipboard last, so that the handler finds the hash.
FetchWrites(f) ==
    /\ FetchAt(f, "write")
    /\ FetchEnds(f)
    /\ \/ SetClipboard(fetch[f].img)
       \/ ClipboardBusy /\ UNCHANGED clipVars
    /\ UNCHANGED <<recent, forgotten, history, bytes, twins>> /\ FetchOnly

FetchStep(f) ==
    FetchFails(f) \/ FetchRemembers(f) \/ FetchStores(f) \/ FetchWrites(f)

-----------------------------------------------------------------------------
(* The clipboard handler *)

HandlerAt(pc) == handler.pc = pc
HandlerGoes(pc) == handler' = [handler EXCEPT !.pc = pc]
\* Only the poller keeps what it saw last.
HandlerTakes(pc, lastText, lastImage) ==
    handler' = [handler EXCEPT !.pc = pc, !.item = clip.item, !.mine = clip.mine,
                    !.lastText = IF mode = "poller" THEN lastText ELSE None,
                    !.lastImage = IF mode = "poller" THEN lastImage ELSE None]
HandlerEnds == handler' = [handler EXCEPT !.pc = "idle", !.item = None, !.mine = FALSE]
HandlerOnly == UNCHANGED <<clip, session, mode, echo, worker, fetch, quitting, files,
                           copies, remote, commands>>
HandlerShares == UNCHANGED <<recent, forgotten, history, bytes, twins, echoes, echoed>>

\* A native handler that cannot read the clipboard gets no further message for it.
Missed(left) == IF mode = "native" /\ left = 0 THEN FALSE ELSE owed

\* What the handler took is the user's copy that is still on the clipboard.
Settled == IF handler.mine /\ clip.mine /\ clip.item = handler.item THEN FALSE ELSE owed

\* WM_CLIPBOARDUPDATE, or a round of the poller that has not seen the stop flag.
ClipboardUpdate ==
    \/ /\ mode = "native" /\ events > 0 /\ (ui.pc = "join" => ui.left > 0)
       /\ events' = events - 1
       /\ ui' = IF ui.pc = "join" THEN [ui EXCEPT !.left = @ - 1] ELSE ui
    \/ /\ mode = "poller" /\ ui.pc # "join"
       /\ UNCHANGED <<events, ui>>

\* Mutant of ReadImage: without an image the handler is done.
ReadImageOnly ==
    /\ HandlerAt("idle")
    /\ ClipboardUpdate
    /\ IF clip.item \in Images THEN HandlerTakes("hash", None, clip.item) ELSE HandlerEnds
    /\ UNCHANGED <<owed, faults>> /\ HandlerOnly /\ HandlerShares

\* read_clipboard_image; the poller takes an image only when it changed.
ReadImage ==
    /\ HandlerAt("idle")
    /\ ClipboardUpdate
    /\ LET new == clip.item \in Images /\ (mode = "poller" => clip.item # handler.lastImage)
       IN  \/ new /\ HandlerTakes("hash", None, clip.item) /\ UNCHANGED <<owed, faults>>
           \/ ~new /\ HandlerGoes("text") /\ UNCHANGED <<owed, faults>>
           \/ new /\ ClipboardBusy /\ HandlerGoes("text") /\ owed' = Missed(events')
    /\ HandlerOnly /\ HandlerShares

\* read_clipboard_text; the poller takes a text only when it changed.
ReadText ==
    /\ HandlerAt("text")
    /\ LET there == clip.item \in Texts
           new == there /\ (mode = "poller" => clip.item # handler.lastText)
           seen == mode = "poller" /\ clip.item \in {handler.lastText, handler.lastImage}
       IN  \/ new /\ HandlerTakes("echo", clip.item, None) /\ UNCHANGED <<owed, faults>>
           \/ ~new /\ HandlerEnds /\ owed' = (owed /\ ~seen) /\ UNCHANGED faults
           \/ there /\ ClipboardBusy /\ HandlerEnds /\ owed' = Missed(events)
    /\ UNCHANGED <<events, ui>> /\ HandlerOnly /\ HandlerShares

IsEcho(text) == echo # None /\ echo.text = text /\ echo.fresh

\* try_publish_text.  A text that the slot still names, too late, is not counted
\* as an echo: after the window it is meant to count as a copy.
TryPublishText ==
    /\ HandlerAt("echo")
    /\ HandlerEnds
    /\ owed' = Settled
    /\ LET late == echo # None /\ echo.text = handler.item /\ ~echo.fresh
       IN  echoes' = IF IsEcho(handler.item) \/ late \/ handler.mine \/ session = "off"
                     THEN echoes ELSE echoes + 1
    /\ UNCHANGED <<events, ui, faults, recent, forgotten, history, bytes, twins, echoed>>
    /\ HandlerOnly

\* try_publish_image: remembered first, then uploaded and announced.
TryPublishImage ==
    /\ HandlerAt("hash")
    /\ RememberHash(handler.item)
    /\ IF Known(handler.item) THEN HandlerEnds /\ owed' = Settled
                              ELSE HandlerGoes("publish") /\ UNCHANGED owed
    /\ UNCHANGED <<events, ui, faults, history, bytes, twins, echoes, echoed>> /\ HandlerOnly

HandlerPublishes ==
    /\ HandlerAt("publish")
    /\ owed' = Settled
    /\ \/ /\ session # "off" /\ PushHistory(<<"png", handler.item>>) /\ HandlerGoes("bytes")
          /\ echoed' = IF handler.mine THEN echoed ELSE echoed \cup {handler.item}
       \/ HandlerEnds /\ UNCHANGED <<echoed, history, bytes, twins>>    \* it failed
    /\ UNCHANGED <<events, ui, faults, recent, forgotten, echoes>> /\ HandlerOnly

HandlerStores ==
    /\ HandlerAt("bytes") /\ InsertBytes(<<"png", handler.item>>) /\ HandlerEnds
    /\ UNCHANGED <<events, ui, owed, faults, recent, forgotten, echoes, echoed>> /\ HandlerOnly

HandlerStep ==
    \/ ReadImage \/ ReadText \/ TryPublishText
    \/ TryPublishImage \/ HandlerPublishes \/ HandlerStores

-----------------------------------------------------------------------------
(* Commands, under the bridge's mutex *)

UiGoes(pc) == ui' = [ui EXCEPT !.pc = pc]
UiOnly == UNCHANGED <<clip, echo, worker, fetch, copies, remote, faults, echoes, echoed>>
UiKeeps == UNCHANGED <<recent, forgotten, history, bytes, twins>>

Command ==
    /\ ui.pc = "idle" /\ ~quitting
    /\ commands < MaxCommands /\ commands' = commands + 1
    /\ UNCHANGED <<session, mode, events, owed, handler, quitting>>
    /\ UiOnly /\ UiKeeps

\* send_image_bytes
SendImage(img) ==
    /\ Command
    /\ ui' = [ui EXCEPT !.pc = "hash", !.img = img]
    /\ UNCHANGED files

SendImageStep ==
    /\ \/ /\ ui.pc = "hash" /\ RememberHash(ui.img) /\ UiGoes("publish")
          /\ UNCHANGED <<history, bytes, twins>>
       \/ /\ ui.pc = "publish" /\ session # "off" /\ UiGoes("bytes")
          /\ PushHistory(<<"png", ui.img>>)
          /\ UNCHANGED <<recent, forgotten>>
       \/ /\ ui.pc = "publish" /\ ui' = Unlocked /\ UiKeeps    \* it failed
       \/ /\ ui.pc = "bytes" /\ InsertBytes(<<"png", ui.img>>) /\ ui' = Unlocked
          /\ UNCHANGED <<recent, forgotten>>
    /\ UNCHANGED <<session, mode, events, owed, handler, quitting, files, commands>> /\ UiOnly

\* Mutant of Upsert: the entry of the same id stays.
UpsertPushes(entry) ==
    files' = IF Len(files) < HISTORY_LIMIT THEN <<entry>> \o files ELSE <<entry>> \o Front(files)

\* store_file_history
Upsert(entry) ==
    LET h == <<entry>> \o RemoveFirstMatch(files, LAMBDA e : e.id = entry.id)
    IN  files' = IF Len(h) > HISTORY_LIMIT THEN Front(h) ELSE h

\* send_files_to_peers, one file to one peer: listed as sending ...
SendFile ==
    /\ session = "on"
    /\ Command
    /\ UiGoes("file")
    /\ Upsert([id |-> commands + 1, status |-> "sending"])

\* ... and as sent or failed, unless the peer falls silent: then it never returns.
SendFileReturns ==
    /\ ui.pc = "file"
    /\ \/ /\ ui' = Unlocked
          /\ Upsert([id |-> Head(files).id, status |-> "ended"])     \* the pending one
       \/ UiGoes("hung") /\ UNCHANGED files
    /\ UNCHANGED <<session, mode, events, owed, handler, quitting, commands>>
    /\ UiOnly /\ UiKeeps

\* drain_received_files
DrainReceived ==
    /\ session = "on"
    /\ Command
    /\ Upsert([id |-> commands + 1, status |-> "ended"])
    /\ UNCHANGED ui

\* cmd_save_pairing and cmd_generate_pairing call start, which calls stop first;
\* cmd_clear_pairing calls stop.
StartOrStop(next) ==
    /\ Command
    /\ ui' = [ui EXCEPT !.pc = "stop", !.next = next]
    /\ UNCHANGED files

\* quit_app asks for the mutex ...
Quit ==
    /\ ~quitting /\ quitting' = TRUE
    /\ UNCHANGED <<session, mode, events, owed, handler, ui, files, commands>> /\ UiOnly /\ UiKeeps

\* ... and gets it when no command holds it.
QuitLocks ==
    /\ quitting /\ ui.pc = "idle"
    /\ ui' = [ui EXCEPT !.pc = "stop", !.next = "exited"]
    /\ UNCHANGED <<session, mode, events, owed, handler, quitting, files, commands>>
    /\ UiOnly /\ UiKeeps

\* stop: the client first (it joins the worker, so on_clip has returned) ...
StopClient ==
    /\ ui.pc = "stop" /\ worker = None
    /\ session' = "off" /\ owed' = FALSE
    /\ ui' = [ui EXCEPT !.pc = "join", !.left = events]
    /\ UNCHANGED <<mode, events, handler, quitting, files, commands>> /\ UiOnly /\ UiKeeps

\* Mutant of JoinHandler: the messages ahead of the stop message are waited for
\* with those that come after it.
JoinHandlerDrains ==
    /\ ui.pc = "join" /\ handler.pc = "idle" /\ events = 0
    /\ mode' = "none" /\ events' = 0 /\ handler' = Waiting
    /\ ui' = [Unlocked EXCEPT !.pc = ui.next]
    /\ UNCHANGED <<session, owed, quitting, files, commands>> /\ UiOnly /\ UiKeeps

\* ... then the handler: a native one first handles the messages that were
\* ahead of the stop message.
JoinHandler ==
    /\ ui.pc = "join" /\ handler.pc = "idle" /\ (mode = "native" => ui.left = 0)
    /\ mode' = "none" /\ events' = 0 /\ handler' = Waiting
    /\ ui' = [Unlocked EXCEPT !.pc = ui.next]
    /\ UNCHANGED <<session, owed, quitting, files, commands>> /\ UiOnly /\ UiKeeps

\* start, after stop: the client, unless the key is invalid ...
StartClient ==
    /\ ui.pc = "start"
    /\ \/ session' = "new" /\ UiGoes("wire")
       \/ ui' = Unlocked /\ UNCHANGED session
    /\ UNCHANGED <<mode, events, owed, handler, quitting, files, commands>> /\ UiOnly /\ UiKeeps

\* ... the listener's back-reference to it ...
WireListener ==
    /\ ui.pc = "wire" /\ session' = "on" /\ UiGoes("spawn")
    /\ UNCHANGED <<mode, events, owed, handler, quitting, files, commands>> /\ UiOnly /\ UiKeeps

\* ... and the clipboard handler, with the poller as the fallback.
SpawnClipboardHandler ==
    /\ ui.pc = "spawn" /\ mode' \in {"native", "poller"} /\ ui' = Unlocked
    /\ UNCHANGED <<session, events, owed, handler, quitting, files, commands>> /\ UiOnly /\ UiKeeps

UiStep ==
    \/ SendImageStep \/ SendFileReturns \/ QuitLocks \/ StopClient \/ JoinHandler
    \/ StartClient \/ WireListener \/ SpawnClipboardHandler

Next ==
    /\ ui.pc # "exited"         \* the process is gone
    /\ \/ \E item \in Copied : Copy(item)
       \/ WindowEnds
       \/ \E text \in Received \cap Texts : OnClipText(text)
       \/ WriteText
       \/ \E f \in Fetchers : FetchStep(f) \/ \E img \in Received \cap Images : OnClipImage(f, img)
       \/ HandlerStep
       \/ \E img \in Picked : SendImage(img)
       \/ \E next \in {"idle", "start"} : StartOrStop(next)
       \/ SendFile \/ DrainReceived \/ Quit \/ UiStep

Spec == Init /\ [][Next]_vars

\* The threads run.  Uploads and downloads end: the HTTP client has a timeout.
\* Nothing is assumed of the user, of other devices or of the clock.
FairSpec ==
    /\ Spec
    /\ WF_vars(WriteText) /\ WF_vars(HandlerStep)
    /\ WF_vars(ui.pc # "exited" /\ UiStep)

-----------------------------------------------------------------------------
(* What the host promises *)

\* Clips do not bounce between devices for ever: of n clipboard changes that
\* follow remote clips, at least one is recognised, so each round of echoes is
\* smaller than the one before.
EchoesDieOut == echoes = 0 \/ echoes < remote + copies + commands

\* A received image is announced as this device's own only when it has dropped
\* out of the bounded list of hashes.
ImageEchoNeedsEviction == echoed \subseteq forgotten

\* A listed image can be saved, unless an older entry of the same id was
\* evicted under it.
ListedIsSavable ==
    \A i \in DOMAIN history :
        \/ history[i] \in bytes \cup twins
        \/ \E f \in Fetchers : FetchAt(f, "bytes") /\ history[i] = <<"pixels", fetch[f].img>>
        \/ HandlerAt("bytes") /\ history[i] = <<"png", handler.item>>
        \/ ui.pc = "bytes" /\ history[i] = <<"png", ui.img>>

\* No file stays listed as being sent when nothing is being sent.
SendingIsCurrent ==
    \A i \in DOMAIN files : files[i].status = "sending" => ui.pc \in {"file", "hung"}

\* What the user copies is published or recognised as known.  A native handler
\* may miss it when the clipboard cannot be opened; a poller tries again.
CopyIsSettled == owed ~> ~owed

\* quit_app returns unless a file is being sent to a peer that fell silent.
QuitReturns == quitting ~> ui.pc \in {"exited", "hung"}
=============================================================================
