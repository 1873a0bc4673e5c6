----------------------------- MODULE AimpBridge -----------------------------
(***************************************************************************)
(* The bridge between AIMP and the desktop: the plugin inside AIMP         *)
(* (CherryPlayAimpPlugin) and the named-pipe server in the desktop's main  *)
(* process (electron/aimp/service.ts).  A snapshot thread copies what AIMP *)
(* plays into two snapshots, on AIMP's main thread or beside it; a         *)
(* transport thread dials the pipe, says hello and sends a snapshot        *)
(* whenever it is dirty.  The service accepts one client at a time, checks *)
(* every line and drops the client at the first that is wrong.             *)
(*                                                                         *)
(* A pipe instance keeps the order of its lines and a line arrives whole;  *)
(* it holds so many lines, and then the writer waits for the reader.       *)
(* What AIMP does by itself (its playlists, its events, its main thread)   *)
(* is external.  Left out: liveStreamStarted and the renderer's copy, log  *)
(* entries, the limit of 2 MiB per line.  The platform is Windows x64 and  *)
(* the manifest of the plugin is valid, else the pipe is never opened.     *)
(***************************************************************************)
EXTENDS Naturals, Sequences

CONSTANTS
    Playlist, Track, None,
    Contents,           \* the tracks of each playlist when AIMP starts
    Slots,              \* bound: instances of the pipe
    Buffer,             \* the lines a pipe holds before WriteFile waits
    Setups              \* what may happen together, see below

\* compatible: plugin and desktop have the same protocol version
\* onMain: AIMP has IAIMPServiceThreads
\* playing: AIMP is playing when the plugin is loaded
\* changes, faults: bounds of the changes in AIMP and of the faults,
\*    restarts and changes of the source
Setup == [compatible : BOOLEAN, onMain : BOOLEAN, playing : BOOLEAN,
          changes : Nat, faults : Nat]

Slot == 1 .. Slots
Errors == {"unsupportedProtocolVersion", "missingHandshake", "invalidEnvelope",
           "listen", "transport"}

ASSUME BridgeAssumption ==
    /\ Contents \in [Playlist -> SUBSET Track] /\ \E l \in Playlist : Contents[l] # {}
    /\ Slots \in Nat \ {0} /\ Setups \subseteq Setup
    /\ Buffer \in Nat \ {0}
    /\ None \notin Playlist \cup Track /\ None \notin Slot
    /\ \A error \in Errors : None # error

VARIABLES
    setup,              \* how this behaviour is set up
    aimp,               \* AIMP: playlists, the active one, what is playing
    main,               \* AIMP's main thread: running or inside Finalize
    plug,               \* the plugin's members under state_mutex_
    snap,               \* the snapshot thread
    trans,              \* the transport thread
    pipe,               \* the instances of the pipe, both ends
    app,                \* the service in the desktop's main process
    changes, faults

vars == <<setup, aimp, main, plug, snap, trans, pipe, app, changes, faults>>
plugin == <<plug, snap, trans>>

Part == {"track", "list", "play"}
Lists == [of : Playlist \cup {None}, tracks : SUBSET Track]
Plays == [item : Track \cup {None}, tick : 0 .. 1]
Line == [type : {"hello", "list", "play", "heartbeat", "goodbye"}, seq : Nat,
         data : Lists \cup Plays \cup {None}]
Reasons == {"Unknown", "PluginShutdown", "ProtocolMismatch", "AppClosing"}

BridgeTypeOK ==
    /\ setup \in Setups
    /\ aimp \in [content : [Playlist -> SUBSET Track], active : Playlist \cup {None},
                 item : Track \cup {None}, of : Playlist \cup {None}, tick : 0 .. 1]
    /\ main \in {"run", "closing", "joinSnapshots", "joinTransport", "gone"}
    /\ plug \in [observed : Playlist \cup {None}, list : Lists, play : Plays,
                 dirty : SUBSET {"list", "play"}, want : SUBSET Part,
                 snapStop : BOOLEAN, transStop : BOOLEAN, reason : Reasons]
    /\ snap.pc \in {"wait", "queued", "collect", "done"} /\ snap.todo \subseteq Part
    /\ trans.pc \in {"dial", "hello", "nap", "loop", "list", "play", "beat", "stopped"}
    /\ trans.slot \in Slot \cup {None}
    /\ trans.pc \notin {"dial", "stopped"} => trans.slot # None
    /\ \A s \in Slot :
         /\ pipe[s].down \in {"pending", "open", "ended", "closed"}
         /\ \A i \in DOMAIN pipe[s].wire : pipe[s].wire[i] \in Line
         /\ pipe[s].up <=> s = trans.slot
    /\ app \in [selected : BOOLEAN, server : {"off", "starting", "on", "failed"},
                sock : Slot \cup {None}, shook : BOOLEAN, connected : BOOLEAN,
                phase : {"disconnected", "listening", "connected", "stale"},
                seq : Nat, list : Lists \cup {None}, play : Plays \cup {None},
                error : Errors \cup {None}, hung : BOOLEAN]
    /\ app.sock # None => pipe[app.sock].down \in {"open", "ended"}
    /\ changes \in 0 .. setup.changes /\ faults \in 0 .. setup.faults
-----------------------------------------------------------------------------
NewPlug ==
    [observed |-> None, list |-> [of |-> None, tracks |-> {}],
     play |-> [item |-> None, tick |-> 0], dirty |-> {"list", "play"}, want |-> Part,
     snapStop |-> FALSE, transStop |-> FALSE, reason |-> "Unknown"]
NewSnap == [pc |-> "wait", todo |-> {}, read |-> <<>>]
\* cool: a playback snapshot was sent within the last 500 ms.
NewTrans ==
    [pc |-> "dial", slot |-> None, seq |-> 0, send |-> {}, due |-> FALSE,
     list |-> NewPlug.list, play |-> NewPlug.play, cool |-> FALSE]
\* hung: the desktop's main process handles no event any more.
NewApp ==
    [selected |-> FALSE, server |-> "off", sock |-> None, shook |-> FALSE,
     connected |-> FALSE, phase |-> "disconnected", seq |-> 0, list |-> None,
     play |-> None, error |-> None, hung |-> FALSE]
Closed == [up |-> FALSE, down |-> "closed", wire |-> <<>>, ack |-> "none"]

\* AIMP before anything is opened, and with a track that is playing.
Empty == [content |-> Contents, active |-> None, item |-> None, of |-> None, tick |-> 0]
Playing ==
    LET l == CHOOSE l \in Playlist : Contents[l] # {}
    IN  [Empty EXCEPT !.active = l, !.of = l, !.item = CHOOSE t \in Contents[l] : TRUE]

Init ==
    /\ setup \in Setups
    /\ aimp = IF setup.playing THEN Playing ELSE Empty
    /\ main = "run"
    /\ plug = NewPlug /\ snap = NewSnap /\ trans = NewTrans
    /\ pipe = [s \in Slot |-> Closed]
    /\ app = NewApp
    /\ changes = 0 /\ faults = 0

Fault == faults < setup.faults /\ faults' = faults + 1
-----------------------------------------------------------------------------
(* AIMP: a change and the events it raises on the main thread.              *)

\* A task of the snapshot thread occupies the main thread while it runs.
TaskRuns == setup.onMain /\ snap.pc = "collect"
MainIsFree == main = "run" /\ ~TaskRuns

Request(p, parts) == [p EXCEPT !.want = @ \cup parts \cup {"play"}]

Change(new, parts) ==
    /\ MainIsFree
    /\ changes < setup.changes /\ changes' = changes + 1
    /\ aimp' = new
    /\ plug' = IF parts = {} THEN plug ELSE Request(plug, parts)
    /\ UNCHANGED <<setup, main, snap, trans, pipe, app, faults>>

PlaylistActivated(l) == l # aimp.active /\ Change([aimp EXCEPT !.active = l], Part)

\* Only the observed playlist has a listener.
PlaylistChanged(l, tracks) ==
    /\ tracks # aimp.content[l]
    /\ Change([aimp EXCEPT !.content[l] = tracks],
              IF l = plug.observed THEN {"list", "play"} ELSE {})

StreamStarts(l, t) ==
    /\ t \in aimp.content[l] /\ <<l, t>> # <<aimp.of, aimp.item>>
    /\ Change([aimp EXCEPT !.item = t, !.of = l], Part)

StreamEnds ==
    /\ aimp.item # None
    /\ Change([aimp EXCEPT !.item = None, !.of = None], Part)

\* The position, the volume or muting.
PropertyChanges == Change([aimp EXCEPT !.tick = 1 - @], {"play"})

AimpNext ==
    \/ \E l \in Playlist : PlaylistActivated(l)
    \/ \E l \in Playlist, tracks \in SUBSET Track : PlaylistChanged(l, tracks)
    \/ \E l \in Playlist, t \in Track : StreamStarts(l, t)
    \/ StreamEnds
    \/ PropertyChanges

(* Leaving: AIMP says it terminates, then finalizes the plugin.             *)

Priority(reason) ==
    CASE reason = "AppClosing" -> 40
      [] reason = "ProtocolMismatch" -> 30
      [] reason = "PluginShutdown" -> 10
      [] OTHER -> 0

SetGoodbyeReason(p, reason) ==
    IF Priority(reason) < Priority(p.reason) THEN p ELSE [p EXCEPT !.reason = reason]

Terminating ==
    /\ MainIsFree
    /\ Fault
    /\ main' = "closing"
    /\ plug' = SetGoodbyeReason(plug, "AppClosing")
    /\ UNCHANGED <<setup, aimp, snap, trans, pipe, app, changes>>

\* The plugin may also be unloaded by itself.
Finalize ==
    /\ ~TaskRuns
    /\ \/ main = "run" /\ Fault
       \/ main = "closing" /\ UNCHANGED faults
    /\ main' = "joinSnapshots"
    /\ plug' = [plug EXCEPT !.snapStop = TRUE]
    /\ UNCHANGED <<setup, aimp, snap, trans, pipe, app, changes>>

StopTransport ==
    /\ main = "joinSnapshots" /\ snap.pc = "done"
    /\ main' = "joinTransport"
    /\ plug' = [SetGoodbyeReason(plug, "PluginShutdown") EXCEPT !.transStop = TRUE]
    /\ UNCHANGED <<setup, aimp, snap, trans, pipe, app, changes, faults>>

Finalized ==
    /\ main = "joinTransport" /\ trans.pc = "stopped"
    /\ main' = "gone"
    /\ plug' = [plug EXCEPT !.observed = None]
    /\ UNCHANGED <<setup, aimp, snap, trans, pipe, app, changes, faults>>

Killed ==
    /\ main # "gone"
    /\ Fault
    /\ main' = "gone"
    /\ snap' = [NewSnap EXCEPT !.pc = "done"]
    /\ trans' = [NewTrans EXCEPT !.pc = "stopped"]
    /\ pipe' = [s \in Slot |-> [pipe[s] EXCEPT !.up = FALSE]]
    /\ UNCHANGED <<setup, aimp, plug, app, changes>>

Initialize ==
    /\ main = "gone"
    /\ main' = "run"
    /\ plug' = NewPlug /\ snap' = NewSnap /\ trans' = NewTrans
    /\ Fault
    /\ UNCHANGED <<setup, aimp, pipe, app, changes>>
-----------------------------------------------------------------------------
(* The snapshot thread.                                                     *)

Candidate == IF aimp.item # None THEN aimp.of ELSE aimp.active
ListOf(l) == [of |-> l, tracks |-> IF l = None THEN {} ELSE aimp.content[l]]
PlayNow == [item |-> aimp.item, tick |-> aimp.tick]

TakeRequests ==
    /\ snap.pc = "wait"
    /\ IF plug.snapStop
       THEN snap' = [snap EXCEPT !.pc = "done"] /\ UNCHANGED plug
       ELSE /\ plug.want # {}
            /\ snap' = [snap EXCEPT !.pc = "queued", !.todo = plug.want]
            /\ plug' = [plug EXCEPT !.want = {}]
    /\ UNCHANGED <<setup, aimp, main, trans, pipe, app, changes, faults>>

\* Inside join() the main thread pumps no messages.
MainServes == setup.onMain => main \in {"run", "closing"}

Execute ==
    /\ snap.pc = "queued" /\ MainServes
    /\ snap' = [snap EXCEPT !.pc = "collect"]
    /\ UNCHANGED <<setup, aimp, main, plug, trans, pipe, app, changes, faults>>

First(todo) ==
    CASE "track" \in todo -> "track"
      [] "list" \in todo -> "list"
      [] OTHER -> "play"

Done(part) ==
    LET rest == snap.todo \ {part}
    IN  [pc |-> IF rest = {} THEN "wait" ELSE "collect", todo |-> rest, read |-> <<>>]

Reading(part) ==
    CASE part = "track" -> Candidate
      [] part = "list" -> ListOf(plug.observed)
      [] part = "play" -> PlayNow

Keep(p, part, value) ==
    CASE part = "track" -> [p EXCEPT !.observed = value]
      [] part = "list" -> IF value = p.list THEN p
                          ELSE [p EXCEPT !.list = value, !.dirty = @ \cup {"list"}]
      [] part = "play" -> IF value = p.play THEN p
                          ELSE [p EXCEPT !.play = value, !.dirty = @ \cup {"play"}]

\* AIMP is read without the mutex; a stopped worker returns at once.  On the
\* main thread AIMP cannot change until the reading is kept.
ReadAimp ==
    /\ snap.pc = "collect" /\ snap.read = <<>>
    /\ LET part == First(snap.todo)
       IN  IF plug.snapStop
           THEN snap' = Done(part) /\ UNCHANGED plug
           ELSE IF setup.onMain
           THEN snap' = Done(part) /\ plug' = Keep(plug, part, Reading(part))
           ELSE snap' = [snap EXCEPT !.read = <<Reading(part)>>] /\ UNCHANGED plug
    /\ UNCHANGED <<setup, aimp, main, trans, pipe, app, changes, faults>>

KeepSnapshot ==
    /\ snap.pc = "collect" /\ snap.read # <<>>
    /\ plug' = Keep(plug, First(snap.todo), snap.read[1])
    /\ snap' = Done(First(snap.todo))
    /\ UNCHANGED <<setup, aimp, main, trans, pipe, app, changes, faults>>

SnapshotLoop == TakeRequests \/ Execute \/ ReadAimp \/ KeepSnapshot
-----------------------------------------------------------------------------
(* The transport thread.                                                    *)

Broken == pipe[trans.slot].down = "closed"
Full == Len(pipe[trans.slot].wire) >= Buffer
\* WriteFile returns only when the pipe has taken the line.
Write(type, data) ==
    /\ ~Full
    /\ pipe' = [pipe EXCEPT ![trans.slot].wire =
                 Append(@, [type |-> type, seq |-> trans.seq + 1, data |-> data])]
HangUp == pipe' = [pipe EXCEPT ![trans.slot].up = FALSE]

Transport == UNCHANGED <<setup, aimp, main, snap, app, changes, faults>>

\* Mutant: without a desktop the thread does not see the stop request.
StopDialingOnline ==
    /\ trans.pc = "dial" /\ plug.transStop /\ app.server = "on"
    /\ trans' = [trans EXCEPT !.pc = "stopped"]
    /\ UNCHANGED <<plug, pipe>> /\ Transport

\* A handle is closed when the thread ends; nobody says goodbye then.
StopDialing ==
    /\ trans.pc = "dial" /\ plug.transStop
    /\ trans' = [trans EXCEPT !.pc = "stopped"]
    /\ UNCHANGED <<plug, pipe>> /\ Transport

\* CreateFile and the hello.  Without a listening server the thread clears
\* the dirty flags and tries again.
Dial ==
    /\ trans.pc = "dial" /\ ~plug.transStop
    /\ LET free == {s \in Slot : ~pipe[s].up /\ pipe[s].down = "closed"}
       IN  IF app.server \in {"starting", "on"} /\ free # {}
           THEN \E s \in {CHOOSE s \in free : TRUE} :
                  /\ trans' = [trans EXCEPT !.pc = "hello", !.seq = 1, !.slot = s]
                  /\ pipe' = [pipe EXCEPT ![s] =
                       [up |-> TRUE, down |-> "pending", ack |-> "none",
                        wire |-> <<[type |-> "hello", seq |-> 1, data |-> None]>>]]
           ELSE plug.dirty # {} /\ UNCHANGED <<trans, pipe>>
    /\ plug' = [plug EXCEPT !.dirty = {}]
    /\ Transport

Refresh(p) == [p EXCEPT !.dirty = {"list", "play"}, !.want = Part]

\* No answer in time, or a pipe that is gone, is taken for an acceptance.
Accepted ==
    /\ trans.pc = "hello" /\ pipe[trans.slot].ack \in {"none", "accepted"}
    /\ trans' = [trans EXCEPT !.pc = "nap"]
    /\ plug' = [Refresh(plug) EXCEPT !.reason = "Unknown"]
    /\ UNCHANGED pipe /\ Transport

Rejected ==
    /\ trans.pc = "hello" /\ pipe[trans.slot].ack = "mismatch"
    /\ trans' = [trans EXCEPT !.pc = "dial", !.slot = None]
    /\ plug' = SetGoodbyeReason(plug, "ProtocolMismatch")
    /\ HangUp /\ Transport

\* A quarter of a second later everything is read once more.
Nap ==
    /\ trans.pc = "nap"
    /\ trans' = [trans EXCEPT !.pc = "loop"]
    /\ plug' = [plug EXCEPT !.want = Part]
    /\ UNCHANGED pipe /\ Transport

\* The next thing to write, if any.
Then(t, done) ==
    LET pending == (t.send \cup (IF t.due THEN {"beat"} ELSE {})) \ done
        next == IF "list" \in pending THEN "list"
                ELSE IF "play" \in pending THEN "play"
                ELSE IF "beat" \in pending THEN "beat" ELSE "loop"
    IN  IF next = "loop" THEN [t EXCEPT !.pc = next, !.send = {}, !.due = FALSE]
        ELSE [t EXCEPT !.pc = next]

\* A bound: a heartbeat is sent only when it changes something: after a
\* stale period, to find the pipe closed, or to fill one nobody reads.
BeatMatters ==
    \/ Broken \/ app.hung
    \/ app.phase = "stale" /\ pipe[trans.slot].wire = <<>>

Wake ==
    /\ trans.pc = "loop" /\ ~plug.transStop
    /\ \E due \in BOOLEAN :
         /\ IF due THEN BeatMatters ELSE plug.dirty # {}
         /\ trans' = Then([trans EXCEPT !.send = plug.dirty, !.due = due,
                                        !.list = plug.list, !.play = plug.play], {})
    /\ plug' = [plug EXCEPT !.dirty = {}]
    /\ UNCHANGED pipe /\ Transport

\* Nothing is written on plugin shutdown; AIMP's own exit is not that.
Goodbye ==
    /\ trans.pc = "loop" /\ plug.transStop
    /\ LET silent == plug.reason = "PluginShutdown" \/ Broken
       IN  /\ silent \/ ~Full
           /\ pipe' = [pipe EXCEPT
                ![trans.slot].up = FALSE,
                ![trans.slot].wire =
                  IF silent THEN @
                  ELSE Append(@, [type |-> "goodbye", seq |-> trans.seq + 1,
                                  data |-> None])]
    /\ trans' = [trans EXCEPT !.pc = "stopped", !.slot = None]
    /\ UNCHANGED plug /\ Transport

\* A playback snapshot behind a failed line counts as sent all the same.
WriteFails ==
    /\ trans' = [trans EXCEPT !.pc = "dial", !.slot = None, !.send = {}, !.due = FALSE,
                              !.cool = @ \/ (trans.pc # "beat" /\ "play" \in trans.send)]
    /\ plug' = [plug EXCEPT !.dirty = {"list", "play"}]
    /\ HangUp

Sent(done) == Then([trans EXCEPT !.seq = @ + 1], done)

SendList ==
    /\ trans.pc = "list"
    /\ IF Broken THEN WriteFails
       ELSE /\ Write("list", trans.list)
            /\ trans' = Sent({"list"})
            /\ UNCHANGED plug
    /\ Transport

\* Mutant: a snapshot that comes too soon is dropped instead of put off.
SendPlayDropping ==
    /\ trans.pc = "play"
    /\ IF trans.cool
       THEN /\ trans' = Then(trans, {"list", "play"})
            /\ UNCHANGED <<plug, pipe>>
       ELSE IF Broken THEN WriteFails
       ELSE /\ Write("play", trans.play)
            /\ trans' = [Sent({"list", "play"}) EXCEPT !.cool = TRUE]
            /\ UNCHANGED plug
    /\ Transport

SendPlay ==
    /\ trans.pc = "play"
    /\ IF trans.cool
       THEN /\ plug' = [plug EXCEPT !.dirty = @ \cup {"play"}]
            /\ trans' = Then(trans, {"list", "play"})
            /\ UNCHANGED pipe
       ELSE IF Broken THEN WriteFails
       ELSE /\ Write("play", trans.play)
            /\ trans' = [Sent({"list", "play"}) EXCEPT !.cool = TRUE]
            /\ UNCHANGED plug
    /\ Transport

SendHeartbeat ==
    /\ trans.pc = "beat"
    /\ IF Broken THEN WriteFails
       ELSE /\ Write("heartbeat", None)
            /\ trans' = Sent({"list", "play", "beat"})
            /\ UNCHANGED plug
    /\ Transport

TransportLoop ==
    \/ StopDialing \/ Dial \/ Accepted \/ Rejected \/ Nap
    \/ Wake \/ Goodbye \/ SendList \/ SendPlay \/ SendHeartbeat

\* kPlaybackSnapshotMinInterval is over.
CoolDown ==
    /\ trans.cool
    /\ trans' = [trans EXCEPT !.cool = FALSE]
    /\ UNCHANGED <<plug, pipe>> /\ Transport
-----------------------------------------------------------------------------
(* The service.                                                             *)

Service == ~app.hung /\ UNCHANGED <<setup, aimp, main, plugin, changes>>

\* destroyTransport and resetDisconnectedState
StopListening(a) ==
    [NewApp EXCEPT !.selected = a.selected, !.server = "off"]

Destroy(slots) ==
    pipe' = [s \in Slot |-> IF s \in slots
                            THEN [pipe[s] EXCEPT !.down = "closed", !.wire = <<>>]
                            ELSE pipe[s]]

SelectAimp ==
    /\ ~app.selected
    /\ app' = [app EXCEPT !.selected = TRUE, !.server = "starting"]
    /\ UNCHANGED <<pipe, faults>> /\ Service

SelectPlayer ==
    /\ app.selected
    /\ Fault
    /\ app' = [StopListening(app) EXCEPT !.selected = FALSE]
    /\ Destroy(Slot) /\ Service

Listening ==
    /\ app.server = "starting"
    /\ app' = [app EXCEPT !.server = "on", !.phase = "listening", !.connected = FALSE,
                          !.error = None]
    /\ UNCHANGED <<pipe, faults>> /\ Service

\* Nothing tries again until the source has been changed and changed back.
ListenFails ==
    /\ app.server = "starting"
    /\ Fault
    /\ app' = [StopListening(app) EXCEPT !.server = "failed"]
    /\ Destroy(Slot) /\ Service

\* Mutant: the snapshots of the lost client stay.
CloseClientKeeping(a, error) ==
    [a EXCEPT !.sock = None, !.shook = FALSE, !.connected = FALSE, !.seq = 0,
              !.error = error,
              !.phase = IF a.server = "on" THEN "listening" ELSE "disconnected"]

CloseClient(a, error) ==
    [a EXCEPT !.sock = None, !.shook = FALSE, !.connected = FALSE, !.seq = 0,
              !.list = None, !.play = None, !.error = error,
              !.phase = IF a.server = "on" THEN "listening" ELSE "disconnected"]

\* Mutant: the sequence goes on from the client before.
ConnectionContinued(s) ==
    /\ app.server = "on" /\ pipe[s].down = "pending"
    /\ app' = [CloseClient(app, None) EXCEPT !.sock = s, !.seq = app.seq]
    /\ pipe' = [t \in Slot |->
         IF t = s THEN [pipe[t] EXCEPT !.down = "open"]
         ELSE IF t = app.sock THEN [pipe[t] EXCEPT !.down = "closed", !.wire = <<>>]
         ELSE pipe[t]]
    /\ UNCHANGED faults /\ Service

\* handleClientConnection: a new client replaces the old one.
Connection(s) ==
    /\ app.server = "on" /\ pipe[s].down = "pending"
    /\ app' = [CloseClient(app, None) EXCEPT !.sock = s]
    /\ pipe' = [t \in Slot |->
         IF t = s THEN [pipe[t] EXCEPT !.down = "open"]
         ELSE IF t = app.sock THEN [pipe[t] EXCEPT !.down = "closed", !.wire = <<>>]
         ELSE pipe[t]]
    /\ UNCHANGED faults /\ Service

\* The playback snapshot goes when its track is not in the playlist.
Reconcile(a) ==
    IF a.list # None /\ a.play # None /\ a.play.item # None
         /\ a.play.item \notin a.list.tracks
    THEN [a EXCEPT !.play = None]
    ELSE a

Live(a) == [a EXCEPT !.phase = "connected", !.connected = TRUE, !.error = None]

Drop(error) ==
    /\ app' = CloseClient(app, error)
    /\ pipe' = [pipe EXCEPT ![app.sock].down = "closed", ![app.sock].wire = <<>>]

Answer(ack) ==
    pipe' = [pipe EXCEPT ![app.sock].wire = Tail(@), ![app.sock].ack = ack,
                         ![app.sock].down = IF ack = "mismatch" THEN "ended" ELSE @]

RejectHello ==
    /\ app' = [app EXCEPT !.error = "unsupportedProtocolVersion"]
    /\ Answer("mismatch")

Take == pipe' = [pipe EXCEPT ![app.sock].wire = Tail(@)]

RouteMessage(l, a) ==
    CASE l.type = "hello" -> app' = [Live(a) EXCEPT !.shook = TRUE] /\ Answer("accepted")
      [] l.type = "list" -> app' = Live(Reconcile([a EXCEPT !.list = l.data])) /\ Take
      [] l.type = "play" -> app' = Live(Reconcile([a EXCEPT !.play = l.data])) /\ Take
      [] l.type = "heartbeat" -> app' = Live(a) /\ Take
      [] l.type = "goodbye" -> Drop(app.error)

ProcessLine ==
    /\ app.sock # None
    /\ LET wire == pipe[app.sock].wire
           l == Head(wire)
       IN  /\ wire # <<>>
           /\ IF ~setup.compatible /\ l.type = "hello" THEN RejectHello
              ELSE IF ~setup.compatible THEN Drop("unsupportedProtocolVersion")
              ELSE IF ~app.shook /\ l.type # "hello" THEN Drop("missingHandshake")
              ELSE IF app.shook /\ l.type = "hello" THEN Drop("invalidEnvelope")
              ELSE IF l.seq <= app.seq THEN Drop("invalidEnvelope")
              ELSE RouteMessage(l, [app EXCEPT !.seq = l.seq])
    /\ UNCHANGED faults /\ Service

\* The socket's 'close' event: the plugin has hung up and all was read.
SocketClosed ==
    /\ app.sock # None
    /\ ~pipe[app.sock].up /\ pipe[app.sock].wire = <<>>
    /\ app' = [CloseClient(app, app.error) EXCEPT !.seq = app.seq]
    /\ pipe' = [pipe EXCEPT ![app.sock].down = "closed"]
    /\ UNCHANGED faults /\ Service

SocketError ==
    /\ app.sock # None
    /\ Fault
    /\ Drop("transport") /\ Service

\* The heartbeat monitor: nothing was heard for fifteen seconds.
GoesStale ==
    /\ app.connected /\ app.phase # "stale"
    /\ Fault
    /\ app' = [app EXCEPT !.phase = "stale"]
    /\ UNCHANGED pipe /\ Service

\* The process neither reads its pipes nor closes them.
Hangs ==
    /\ Fault
    /\ app' = [app EXCEPT !.hung = TRUE]
    /\ UNCHANGED pipe /\ Service

\* Its user ends it, Windows closes its handles, and it may start again.
DesktopEnds ==
    /\ app.hung
    /\ app' = NewApp
    /\ Destroy(Slot)
    /\ UNCHANGED <<setup, aimp, main, plugin, changes, faults>>

EventLoop ==
    \/ Listening \/ ProcessLine \/ SocketClosed
    \/ \E s \in Slot : Connection(s)

AppNext ==
    \/ SelectAimp \/ SelectPlayer \/ ListenFails \/ SocketError \/ GoesStale
    \/ Hangs \/ DesktopEnds
-----------------------------------------------------------------------------
MainNext == Terminating \/ Finalize \/ StopTransport \/ Finalized \/ Killed \/ Initialize

Next ==
    \/ AimpNext \/ MainNext \/ SnapshotLoop \/ TransportLoop \/ CoolDown
    \/ EventLoop \/ AppNext

Spec == Init /\ [][Next]_vars

\* The threads run, 500 ms pass, and a desktop that does not hang handles
\* what is pending.  Nobody has to select AIMP, to close or to start it.
Fairness ==
    /\ WF_vars(SnapshotLoop) /\ WF_vars(TransportLoop) /\ WF_vars(CoolDown)
    /\ WF_vars(StopTransport) /\ WF_vars(Finalized)
    /\ WF_vars(Listening) /\ WF_vars(ProcessLine) /\ WF_vars(SocketClosed)
    /\ \A s \in Slot : WF_vars(Connection(s))

FairSpec == Spec /\ Fairness
-----------------------------------------------------------------------------
(* The service never refuses a line of a plugin of its own version, across *)
(* reconnects, timeouts of the handshake and restarts of either side:      *)
(* sequences and handshakes are per connection (processProtocolLine).      *)
PluginIsAccepted ==
    setup.compatible =>
      app.error \notin {"unsupportedProtocolVersion", "missingHandshake", "invalidEnvelope"}

(* What the desktop may stream is of one piece: snapshots exist only while *)
(* the plugin is connected, and the current track is in the playlist       *)
(* (closeClient, resetDisconnectedState, reconcilePlaybackSnapshot...).    *)
StreamIsWhole ==
    /\ app.list # None \/ app.play # None => app.connected /\ app.shook
    /\ app.list # None /\ app.play # None /\ app.play.item # None =>
         app.play.item \in app.list.tracks

\* Finalize joins a thread that waits for the thread Finalize runs on.
Deadlocked == setup.onMain /\ main = "joinSnapshots" /\ snap.pc = "queued"

Shown ==
    IF setup.compatible /\ main \in {"run", "closing"} /\ app.server = "on"
    THEN /\ app.connected /\ app.phase = "connected"
         /\ app.list = ListOf(Candidate)
         /\ app.play \in {PlayNow, None}
    ELSE ~app.connected /\ app.list = None /\ app.play = None

(* Once AIMP and the pipe are left alone, the desktop ends with the        *)
(* playlist the plugin's own order chooses (the playing track's, else the  *)
(* active one) and with what AIMP plays, or with no playback when that was *)
(* dropped as inconsistent; without a plugin or a server it ends with      *)
(* nothing.  No refresh and no dirty flag is lost between the threads, and *)
(* a broken pipe is replaced.  A desktop that hangs or an AIMP that does   *)
(* promises nothing.                                                       *)
CopyCatchesUp == <>[](~app.hung /\ ~Deadlocked => Shown)

\* The transport thread has nobody to read what it wrote.
Unheard == app.hung /\ trans.slot # None /\ Full

(* Finalize joins both threads and returns, unless the snapshot thread had *)
(* just queued its task for the main thread, or the pipe to a desktop that *)
(* hangs is full: for nothing else does either thread wait for ever.       *)
FinalizeReturns ==
    main = "joinSnapshots" /\ ~Deadlocked ~> main = "gone" \/ Unheard

(* What the plugin's README and comments say and the code does not do.     *)

(* The plugin observes the active playlist first.                          *)
ActiveIsObserved ==
    main = "run" /\ snap.pc = "wait" /\ plug.want = {} /\ aimp.active # None =>
      plug.observed = aimp.active

(* Collecting on the main thread cannot deadlock: ExecuteInMainThread with *)
(* the flag WAITFOR returns.                                               *)
TaskReturns == snap.pc = "queued" ~> snap.pc # "queued"

(* The transport thread never blocks the main thread: joining it ends.     *)
TransportIsJoined == main = "joinTransport" ~> main = "gone"

(* The plugin waits for the helloAck before it streams snapshots.          *)
SnapshotsFollowAck ==
    trans.pc \in {"list", "play"} /\ ~Broken => pipe[trans.slot].ack = "accepted"

(* A current track that is not in the playlist is omitted.                 *)
PlaybackIsConsistent ==
    trans.pc = "play" /\ trans.play.item # None => trans.play.item \in trans.list.tracks
=============================================================================
