-------------------------- MODULE AimpBridgeProofs --------------------------
(***************************************************************************)
(* What crosses the pipe between AIMP's plugin and the desktop, for any    *)
(* playlists and tracks, any number of pipe instances, changes and faults. *)
(*                                                                         *)
(* The invariant follows a line from the transport thread to the service:  *)
(* every connection begins with its hello, the sequence of its lines rises *)
(* and stays above what the service has read of it, whichever of the two   *)
(* ends has been closed, killed or started again meanwhile.                *)
(***************************************************************************)
EXTENDS AimpBridge, TLAPS

(* A line whose data are what its type says.                               *)
TypedLine ==
  {l \in Line : /\ l.type = "list" => l.data \in Lists
                /\ l.type = "play" => l.data \in Plays}

(* Sequence numbers rise.                                                  *)
Ordered(w) == \A i, j \in DOMAIN w : i < j => w[i].seq < w[j].seq
(* Nobody has read of this connection: its hello comes first.              *)
Unread(w) ==
  /\ w # <<>> /\ w[1].type = "hello" /\ w[1].seq = 1
  /\ \A i \in DOMAIN w : i # 1 => w[i].type # "hello"
(* The rest of a connection that has been read up to a number.             *)
Rest(w, n) == \A i \in DOMAIN w : w[i].type # "hello" /\ n < w[i].seq
Below(w, n) == \A i \in DOMAIN w : w[i].seq <= n

Fits(part, value) ==
  /\ part = "track" => value \in Playlist \cup {None}
  /\ part = "list" => value \in Lists
  /\ part = "play" => value \in Plays

Transports ==
  [pc : {"dial", "hello", "nap", "loop", "list", "play", "beat", "stopped"},
   slot : Slot \cup {None}, seq : Nat, send : SUBSET {"list", "play"},
   due : BOOLEAN, list : Lists, play : Plays, cool : BOOLEAN]
Ends == [up : BOOLEAN, down : {"pending", "open", "ended", "closed"},
         wire : Seq(TypedLine), ack : {"none", "accepted", "mismatch"}]
Apps == [selected : BOOLEAN, server : {"off", "starting", "on", "failed"},
         sock : Slot \cup {None}, shook : BOOLEAN, connected : BOOLEAN,
         phase : {"disconnected", "listening", "connected", "stale"},
         seq : Nat, list : Lists \cup {None}, play : Plays \cup {None},
         error : Errors \cup {None}, hung : BOOLEAN]
Aimps == [content : [Playlist -> SUBSET Track], active : Playlist \cup {None},
          item : Track \cup {None}, of : Playlist \cup {None}, tick : 0 .. 1]
Plugs == [observed : Playlist \cup {None}, list : Lists, play : Plays,
          dirty : SUBSET {"list", "play"}, want : SUBSET Part,
          snapStop : BOOLEAN, transStop : BOOLEAN, reason : Reasons]

Values == Playlist \cup {None} \cup Lists \cup Plays
Snaps == [pc : {"wait", "queued", "collect", "done"}, todo : SUBSET Part, read : Seq(Values)]

PluginTypeOK ==
  /\ setup \in Setups /\ aimp \in Aimps /\ plug \in Plugs
  /\ main \in {"run", "closing", "joinSnapshots", "joinTransport", "gone"}
  /\ snap \in Snaps
  /\ snap.read # <<>> => snap.pc = "collect" /\ Fits(First(snap.todo), snap.read[1])
  /\ changes \in 0 .. setup.changes /\ faults \in 0 .. setup.faults

(* Only a thread that dials or has stopped is without a pipe instance.     *)
TransFits ==
  /\ trans.pc \in {"dial", "stopped"} <=> trans.slot = None
  /\ main = "gone" => trans.pc = "stopped"

(* The service a, when the versions are compatible or not.                 *)
AppFits(a, compatible) ==
  /\ a.server # "on" => a.sock = None /\ a.list = None /\ a.play = None
  /\ ~a.selected => a.server = "off"
  /\ a.shook => a.sock # None /\ compatible
  /\ a.sock # None /\ ~a.shook => a.seq = 0
  /\ a.list # None \/ a.play # None => a.connected /\ a.shook
  /\ a.list # None /\ a.play # None /\ a.play.item # None => a.play.item \in a.list.tracks
  /\ compatible =>
       a.error \notin {"unsupportedProtocolVersion", "missingHandshake", "invalidEnvelope"}

(* A pipe instance s with its ends p, for the service a and the transport  *)
(* thread t.                                                               *)
EndFits(s, p, a, t, compatible) ==
  /\ Ordered(p.wire)
  /\ p.up <=> s = t.slot
  /\ p.down \in {"open", "ended"} <=> s = a.sock
  /\ compatible => p.down # "ended"
  /\ p.down = "pending" \/ (p.down = "open" /\ ~a.shook) => Unread(p.wire)
  /\ s = a.sock /\ a.shook => Rest(p.wire, a.seq)
  /\ s = t.slot => Below(p.wire, t.seq) /\ (s = a.sock => a.seq <= t.seq)

PipesFit == \A s \in Slot : EndFits(s, pipe[s], app, trans, setup.compatible)

BridgeInv ==
  /\ PluginTypeOK /\ TransFits
  /\ trans \in Transports /\ pipe \in [Slot -> Ends] /\ app \in Apps
  /\ AppFits(app, setup.compatible)
  /\ PipesFit
-----------------------------------------------------------------------------
(* Lines.                                                                  *)

LEMMA OneLine ==
  ASSUME NEW l \in TypedLine, l.type = "hello", l.seq = 1
  PROVE  /\ <<l>> \in Seq(TypedLine) /\ Ordered(<<l>>) /\ Unread(<<l>>) /\ Below(<<l>>, 1)
BY DEF Ordered, Unread, Below, TypedLine, Line

LEMMA NoLines ==
  /\ <<>> \in Seq(TypedLine) /\ Ordered(<<>>)
  /\ \A n : Rest(<<>>, n) /\ Below(<<>>, n)
BY DEF Ordered, Rest, Below

(* Writing a line with the next number.                                    *)
LEMMA LineWritten ==
  ASSUME NEW w \in Seq(TypedLine), NEW seq \in Nat, NEW n \in Nat, NEW l \in TypedLine,
         Ordered(w), Below(w, seq), l.seq = seq + 1, l.type # "hello", n <= seq
  PROVE  /\ Append(w, l) \in Seq(TypedLine)
         /\ Ordered(Append(w, l)) /\ Below(Append(w, l), seq + 1)
         /\ Unread(w) => Unread(Append(w, l))
         /\ Rest(w, n) => Rest(Append(w, l), n)
<1> DEFINE v == Append(w, l)
<1>1. /\ v \in Seq(TypedLine) /\ DOMAIN v = 1 .. Len(w) + 1 /\ Len(w) \in Nat
      /\ DOMAIN w = 1 .. Len(w)
      /\ v[Len(w) + 1] = l /\ \A i \in DOMAIN w : v[i] = w[i] /\ w[i] \in TypedLine
  OBVIOUS
<1>2. \A k \in TypedLine : k.seq \in Nat
  BY DEF TypedLine, Line
<1> HIDE DEF v
<1>3. Ordered(v) /\ Below(v, seq + 1)
  <2>1. /\ \A i \in DOMAIN v : i \in Nat /\ (i \in DOMAIN w \/ i = Len(w) + 1)
        /\ \A i \in DOMAIN w : i <= Len(w) /\ v[i] = w[i] /\ w[i].seq \in Nat /\ w[i].seq <= seq
    BY <1>1, <1>2 DEF Below
  <2>2. Below(v, seq + 1)
    BY <1>1, <2>1 DEF Below
  <2>3. ASSUME NEW i \in DOMAIN v, NEW j \in DOMAIN v, i < j PROVE v[i].seq < v[j].seq
    <3>1. i \in DOMAIN w
      BY <1>1, <2>1, <2>3
    <3>2. CASE j \in DOMAIN w
      BY <2>1, <2>3, <3>1, <3>2 DEF Ordered
    <3>3. CASE j = Len(w) + 1
      BY <1>1, <2>1, <3>1, <3>3
    <3> QED BY <2>1, <3>2, <3>3
  <2> QED BY <2>2, <2>3 DEF Ordered
<1>4. Unread(w) => Unread(v)
  BY <1>1, <1>2 DEF Unread
<1>5. Rest(w, n) => Rest(v, n)
  BY <1>1, <1>2 DEF Rest
<1> QED BY <1>1, <1>3, <1>4, <1>5 DEF v

(* Reading the first one.                                                  *)
LEMMA LineRead ==
  ASSUME NEW w \in Seq(TypedLine), w # <<>>, Ordered(w)
  PROVE  /\ Head(w) \in TypedLine /\ Head(w).seq \in Nat
         /\ Tail(w) \in Seq(TypedLine) /\ Ordered(Tail(w))
         /\ Unread(w) => /\ Head(w).type = "hello" /\ Head(w).seq = 1
                         /\ Rest(Tail(w), 1)
         /\ \A n \in Nat : Rest(w, n) => /\ Head(w).type # "hello" /\ n < Head(w).seq
                                         /\ Rest(Tail(w), Head(w).seq)
         /\ \A n \in Nat : Below(w, n) => Below(Tail(w), n) /\ Head(w).seq <= n
<1> DEFINE v == Tail(w)
<1>1. /\ v \in Seq(TypedLine) /\ Len(w) \in Nat /\ Len(w) >= 1
      /\ DOMAIN w = 1 .. Len(w) /\ DOMAIN v = 1 .. Len(w) - 1
      /\ Head(w) = w[1] /\ \A i \in DOMAIN v : v[i] = w[i + 1]
      /\ \A i \in DOMAIN w : w[i] \in TypedLine
  OBVIOUS
<1>2. \A k \in TypedLine : k.seq \in Nat
  BY DEF TypedLine, Line
<1> HIDE DEF v
<1>3. /\ 1 \in DOMAIN w /\ \A i \in DOMAIN v : i + 1 \in DOMAIN w /\ i \in Nat /\ 1 < i + 1
      /\ \A i \in DOMAIN v : w[1].seq < w[i + 1].seq
  BY <1>1 DEF Ordered
<1>4. Ordered(v)
  BY <1>1, <1>3 DEF Ordered
<1>5. Unread(w) => w[1].type = "hello" /\ w[1].seq = 1 /\ Rest(v, 1)
  BY <1>1, <1>3 DEF Unread, Rest
<1>6. \A n \in Nat : Rest(w, n) => w[1].type # "hello" /\ n < w[1].seq /\ Rest(v, w[1].seq)
  BY <1>1, <1>3 DEF Rest
<1>7. \A n \in Nat : Below(w, n) => Below(v, n) /\ w[1].seq <= n
  BY <1>1, <1>3 DEF Below
<1> QED BY <1>1, <1>2, <1>3, <1>4, <1>5, <1>6, <1>7 DEF v
-----------------------------------------------------------------------------
(* Types of the plugin and of AIMP.                                        *)

LEMMA SetupStays ==
  ASSUME Next
  PROVE  setup' = setup
BY DEF Next, AimpNext, PlaylistActivated, PlaylistChanged, StreamStarts, StreamEnds,
   PropertyChanges, Change, MainNext, Terminating, Finalize, StopTransport, Finalized, Killed,
   Initialize, SnapshotLoop, TakeRequests, Execute, ReadAimp, KeepSnapshot, TransportLoop,
   StopDialing, Dial, Accepted, Rejected, Nap, Wake, Goodbye, SendList, SendPlay, SendHeartbeat,
   CoolDown, Transport, EventLoop, Listening, ProcessLine, SocketClosed, Connection, AppNext,
   SelectAimp, SelectPlayer, ListenFails, SocketError, GoesStale, Hangs, DesktopEnds,
     Service

LEMMA CountersStep ==
  ASSUME PluginTypeOK, Next
  PROVE  changes' \in 0 .. setup.changes /\ faults' \in 0 .. setup.faults
<1>1. setup.changes \in Nat /\ setup.faults \in Nat
  BY BridgeAssumption DEF PluginTypeOK, Setup
<1>2. changes' = changes \/ (changes < setup.changes /\ changes' = changes + 1)
  BY DEF Next, AimpNext, PlaylistActivated, PlaylistChanged, StreamStarts, StreamEnds,
     PropertyChanges, Change, MainNext, Terminating, Finalize, StopTransport, Finalized, Killed,
     Initialize, SnapshotLoop, TakeRequests, Execute, ReadAimp, KeepSnapshot, TransportLoop,
     StopDialing, Dial, Accepted, Rejected, Nap, Wake, Goodbye, SendList, SendPlay, SendHeartbeat,
     CoolDown, Transport, EventLoop, Listening, ProcessLine, SocketClosed, Connection, AppNext,
     SelectAimp, SelectPlayer, ListenFails, SocketError, GoesStale, Hangs, DesktopEnds,
     Service
<1>3. faults' = faults \/ Fault
  BY DEF Next, AimpNext, PlaylistActivated, PlaylistChanged, StreamStarts, StreamEnds,
     PropertyChanges, Change, MainNext, Terminating, Finalize, StopTransport, Finalized, Killed,
     Initialize, SnapshotLoop, TakeRequests, Execute, ReadAimp, KeepSnapshot, TransportLoop,
     StopDialing, Dial, Accepted, Rejected, Nap, Wake, Goodbye, SendList, SendPlay, SendHeartbeat,
     CoolDown, Transport, EventLoop, Listening, ProcessLine, SocketClosed, Connection, AppNext,
     SelectAimp, SelectPlayer, ListenFails, SocketError, GoesStale, Hangs, DesktopEnds,
     Service
<1> QED BY <1>1, <1>2, <1>3 DEF PluginTypeOK, Fault

(* What AIMP itself changes, and the events it raises.                     *)
LEMMA AimpChanges ==
  ASSUME PluginTypeOK, AimpNext
  PROVE  /\ aimp' \in Aimps
         /\ \E parts \in SUBSET Part : plug' \in {plug, Request(plug, parts)}
         /\ UNCHANGED <<main, snap, trans, pipe, app>>
<1> USE DEF PluginTypeOK, Aimps
<1>1. ASSUME NEW new \in Aimps, NEW parts \in SUBSET Part, Change(new, parts)
      PROVE  /\ aimp' \in Aimps
             /\ \E ps \in SUBSET Part : plug' \in {plug, Request(plug, ps)}
             /\ UNCHANGED <<main, snap, trans, pipe, app>>
  BY <1>1 DEF Change
<1>2. /\ Part \in SUBSET Part /\ {"list", "play"} \in SUBSET Part
      /\ {"play"} \in SUBSET Part /\ {} \in SUBSET Part
  BY DEF Part
<1>3. ASSUME NEW l \in Playlist, PlaylistActivated(l)
      PROVE  \E new \in Aimps, parts \in SUBSET Part : Change(new, parts)
  BY <1>2, <1>3 DEF PlaylistActivated
<1>4. ASSUME NEW l \in Playlist, NEW tracks \in SUBSET Track, PlaylistChanged(l, tracks)
      PROVE  \E new \in Aimps, parts \in SUBSET Part : Change(new, parts)
  <2>1. [aimp EXCEPT !.content[l] = tracks] \in Aimps
    OBVIOUS
  <2> QED BY <1>2, <1>4, <2>1 DEF PlaylistChanged
<1>5. ASSUME NEW l \in Playlist, NEW t \in Track, StreamStarts(l, t)
      PROVE  \E new \in Aimps, parts \in SUBSET Part : Change(new, parts)
  <2>1. [aimp EXCEPT !.item = t, !.of = l] \in Aimps
    OBVIOUS
  <2> QED BY <1>2, <1>5, <2>1 DEF StreamStarts
<1>6. ASSUME StreamEnds PROVE \E new \in Aimps, parts \in SUBSET Part : Change(new, parts)
  <2>1. [aimp EXCEPT !.item = None, !.of = None] \in Aimps
    OBVIOUS
  <2> QED BY <1>2, <1>6, <2>1 DEF StreamEnds
<1>7. ASSUME PropertyChanges PROVE \E new \in Aimps, parts \in SUBSET Part : Change(new, parts)
  <2>1. [aimp EXCEPT !.tick = 1 - @] \in Aimps
    OBVIOUS
  <2> QED BY <1>2, <1>7, <2>1 DEF PropertyChanges
<1> QED BY <1>1, <1>3, <1>4, <1>5, <1>6, <1>7 DEF AimpNext

LEMMA FreshPlugin == NewPlug \in Plugs /\ NewPlug.list \in Lists /\ NewPlug.play \in Plays
BY DEF NewPlug, Plugs, Lists, Plays, Part, Reasons

(* The members under the mutex, after any operation on them.               *)
LEMMA PlugOperations ==
  ASSUME NEW p \in Plugs
  PROVE  /\ \A parts \in SUBSET Part : Request(p, parts) \in Plugs
         /\ \A reason \in Reasons : SetGoodbyeReason(p, reason) \in Plugs
         /\ \A b \in BOOLEAN : [p EXCEPT !.snapStop = b] \in Plugs
         /\ \A b \in BOOLEAN : [p EXCEPT !.transStop = b] \in Plugs
         /\ \A d \in SUBSET {"list", "play"} : [p EXCEPT !.dirty = d] \in Plugs
         /\ \A w \in SUBSET Part : [p EXCEPT !.want = w] \in Plugs
         /\ [Refresh(p) EXCEPT !.reason = "Unknown"] \in Plugs
         /\ [p EXCEPT !.observed = None] \in Plugs
         /\ [p EXCEPT !.dirty = @ \cup {"play"}] \in Plugs
         /\ \A part \in Part : \A value : Fits(part, value) => Keep(p, part, value) \in Plugs
BY ZenonT(60) DEF Plugs, Request, SetGoodbyeReason, Refresh, Keep, Part, Reasons, Fits

LEMMA Readings ==
  ASSUME PluginTypeOK
  PROVE  /\ First(snap.todo) \in Part
         /\ \A part \in Part : Fits(part, Reading(part))
<1>1. First(snap.todo) \in Part
  BY DEF First, Part
<1>2. Candidate \in Playlist \cup {None} /\ PlayNow \in Plays
  BY DEF PluginTypeOK, Aimps, Candidate, PlayNow, Plays
<1>3. \A l \in Playlist \cup {None} : ListOf(l) \in Lists
  BY DEF PluginTypeOK, Aimps, ListOf, Lists
<1>4. plug.observed \in Playlist \cup {None}
  BY DEF PluginTypeOK, Plugs
<1> QED BY <1>1, <1>2, <1>3, <1>4 DEF Part, Fits, Reading

LEMMA OneReading ==
  /\ <<>> \in Seq(Values)
  /\ \A v \in Values : <<v>> \in Seq(Values) /\ <<v>> # <<>> /\ <<v>>[1] = v
OBVIOUS

LEMMA PluginTypesStep ==
  ASSUME PluginTypeOK, Next
  PROVE  PluginTypeOK'
<1>c. setup' \in Setups /\ changes' \in 0 .. setup'.changes /\ faults' \in 0 .. setup'.faults
  BY SetupStays, CountersStep DEF PluginTypeOK
<1>i. plug \in Plugs /\ aimp \in Aimps
  BY DEF PluginTypeOK
<1>1. CASE AimpNext
  <2>1. plug' \in Plugs
    BY <1>1, <1>i, AimpChanges, PlugOperations
  <2> QED BY <1>1, <1>c, <2>1, AimpChanges DEF PluginTypeOK
<1>2. CASE MainNext
  <2>1. plug' \in Plugs
    <3>1. TRUE \in BOOLEAN /\ "AppClosing" \in Reasons /\ "PluginShutdown" \in Reasons
      BY DEF Reasons
    <3>2. CASE StopTransport
      BY <1>i, <3>1, <3>2, PlugOperations DEF StopTransport
    <3> QED BY <1>2, <1>i, <3>1, <3>2, PlugOperations, FreshPlugin
            DEF MainNext, Terminating, Finalize, Finalized, Killed, Initialize
  <2>2. /\ aimp' = aimp /\ main' \in {"run", "closing", "joinSnapshots", "joinTransport", "gone"}
        /\ snap' \in {snap, NewSnap, [NewSnap EXCEPT !.pc = "done"]}
    BY <1>2 DEF MainNext, Terminating, Finalize, StopTransport, Finalized, Killed, Initialize
  <2>3. /\ snap' \in Snaps
        /\ snap'.read # <<>> => snap'.pc = "collect" /\ Fits(First(snap'.todo), snap'.read[1])
    <3>1. NewSnap \in Snaps /\ NewSnap.read = <<>>
      BY OneReading DEF NewSnap, Snaps
    <3>2. [NewSnap EXCEPT !.pc = "done"] \in Snaps /\ [NewSnap EXCEPT !.pc = "done"].read = <<>>
      BY <3>1 DEF Snaps
    <3> QED BY <2>2, <3>1, <3>2 DEF PluginTypeOK
  <2> QED BY <1>c, <2>1, <2>2, <2>3 DEF PluginTypeOK
<1>3. CASE SnapshotLoop
  <2> DEFINE part == First(snap.todo)
  <2>1. aimp' = aimp /\ main' = main
    BY <1>3 DEF SnapshotLoop, TakeRequests, Execute, ReadAimp, KeepSnapshot
  <2>2. /\ part \in Part /\ Fits(part, Reading(part))
        /\ Reading(part) \in Values
        /\ snap \in Snaps
    <3>1. part \in Part /\ Fits(part, Reading(part)) /\ snap \in Snaps
      BY Readings DEF PluginTypeOK
    <3> QED BY <3>1 DEF Fits, Part, Values
  <2>3. Done(part) \in Snaps /\ Done(part).read = <<>>
    BY <2>2, OneReading DEF Done, Snaps
  <2> HIDE DEF part
  <2>4. ASSUME plug' \in Plugs, snap' \in Snaps, snap'.read = <<>> PROVE PluginTypeOK'
    BY <1>c, <2>1, <2>4 DEF PluginTypeOK
  <2>5. CASE TakeRequests
    <3>1. plug' = plug \/ plug' = [plug EXCEPT !.want = {}]
      BY <2>5 DEF TakeRequests
    <3>2. snap.pc = "wait" /\ snap.read = <<>>
      BY <2>5 DEF TakeRequests, PluginTypeOK
    <3>3. \/ snap' = [snap EXCEPT !.pc = "done"]
          \/ snap' = [snap EXCEPT !.pc = "queued", !.todo = plug.want]
      BY <2>5 DEF TakeRequests
    <3>4. snap' \in Snaps /\ snap'.read = <<>>
      BY <1>i, <2>2, <3>2, <3>3 DEF Plugs, Snaps
    <3> QED BY <1>i, <2>4, <3>1, <3>4, PlugOperations
  <2>6. CASE Execute
    <3>1. plug' = plug /\ snap' = [snap EXCEPT !.pc = "collect"] /\ snap.read = <<>>
      BY <2>6 DEF Execute, PluginTypeOK
    <3>2. snap' \in Snaps /\ snap'.read = <<>>
      BY <2>2, <3>1 DEF Snaps
    <3> QED BY <1>i, <2>4, <3>1, <3>2
  <2>7. CASE ReadAimp
    <3>1. \/ (plug' = plug \/ plug' = Keep(plug, part, Reading(part))) /\ snap' = Done(part)
          \/ /\ plug' = plug /\ snap.pc = "collect"
             /\ snap' = [snap EXCEPT !.read = <<Reading(part)>>]
      BY <2>7 DEF ReadAimp, part
    <3>2. plug' \in Plugs
      BY <1>i, <2>2, <3>1, PlugOperations
    <3>3. CASE snap' = Done(part)
      BY <2>3, <2>4, <3>2, <3>3
    <3>4. CASE snap.pc = "collect" /\ snap' = [snap EXCEPT !.read = <<Reading(part)>>]
      <4>1. /\ snap' \in Snaps /\ snap'.pc = "collect" /\ snap'.todo = snap.todo
            /\ snap'.read[1] = Reading(part)
        BY <2>2, <3>4, OneReading DEF Snaps
      <4> QED BY <1>c, <2>1, <2>2, <3>2, <4>1 DEF PluginTypeOK, part
    <3> QED BY <3>1, <3>3, <3>4
  <2>8. CASE KeepSnapshot
    <3>1. plug' = Keep(plug, part, snap.read[1]) /\ snap' = Done(part)
      BY <2>8 DEF KeepSnapshot, part
    <3>2. Fits(part, snap.read[1])
      BY <2>8 DEF KeepSnapshot, part, PluginTypeOK
    <3>3. plug' \in Plugs
      BY <1>i, <2>2, <3>1, <3>2, PlugOperations
    <3> QED BY <2>3, <2>4, <3>1, <3>3
  <2> QED BY <1>3, <2>5, <2>6, <2>7, <2>8 DEF SnapshotLoop
<1>4. CASE TransportLoop \/ CoolDown
  <2>1. aimp' = aimp /\ main' = main /\ snap' = snap
    BY <1>4 DEF TransportLoop, StopDialing, Dial, Accepted, Rejected, Nap, Wake, Goodbye, SendList,
       SendPlay, SendHeartbeat, CoolDown, Transport
  <2>2. "ProtocolMismatch" \in Reasons /\ {} \in SUBSET {"list", "play"} /\ Part \in SUBSET Part
        /\ {"list", "play"} \in SUBSET {"list", "play"}
    BY DEF Reasons
  <2>3. \/ plug' \in {plug, [plug EXCEPT !.dirty = {}], [plug EXCEPT !.want = Part]}
        \/ plug' \in {[Refresh(plug) EXCEPT !.reason = "Unknown"],
                      SetGoodbyeReason(plug, "ProtocolMismatch")}
        \/ plug' \in {[plug EXCEPT !.dirty = {"list", "play"}], [plug EXCEPT !.dirty = @ \cup {"play"}]}
    BY <1>4 DEF TransportLoop, StopDialing, Dial, Accepted, Rejected, Nap, Wake, Goodbye, SendList,
       SendPlay, SendHeartbeat, CoolDown, WriteFails
  <2>4. plug' \in Plugs
    BY <1>i, <2>2, <2>3, PlugOperations
  <2> QED BY <1>c, <2>1, <2>4 DEF PluginTypeOK
<1>5. CASE EventLoop \/ AppNext
  BY <1>5, <1>c DEF EventLoop, Listening, ProcessLine, SocketClosed, Connection, AppNext,
     SelectAimp, SelectPlayer, ListenFails, SocketError, GoesStale, Hangs, DesktopEnds,
     Service, plugin, PluginTypeOK
<1> QED BY <1>1, <1>2, <1>3, <1>4, <1>5 DEF Next
-----------------------------------------------------------------------------
(* What happens to one end of a pipe.                                      *)

(* The transport thread turns to another instance, or to none.             *)
LEMMA EndOfOther ==
  ASSUME NEW s, NEW p, NEW a, NEW t, NEW u, NEW c, EndFits(s, p, a, t, c), s # t.slot, s # u.slot
  PROVE  EndFits(s, p, a, u, c)
BY DEF EndFits

(* Nothing that concerns this instance changes.                            *)
LEMMA EndUntouched ==
  ASSUME NEW s, NEW p, NEW a, NEW b, NEW t, NEW u, NEW c, EndFits(s, p, a, t, c),
         u.slot = t.slot, u.seq = t.seq, b.sock = a.sock, b.shook = a.shook, b.seq = a.seq
  PROVE  EndFits(s, p, b, u, c)
BY DEF EndFits

(* The plugin hangs up.                                                    *)
LEMMA EndHungUp ==
  ASSUME NEW s, NEW p \in Ends, NEW q \in Ends, NEW a, NEW t, NEW u, NEW c, EndFits(s, p, a, t, c),
         q.wire = p.wire, q.down = p.down, ~q.up, u.slot # s
  PROVE  EndFits(s, q, a, u, c)
BY DEF EndFits

(* The plugin writes a line, and possibly hangs up.                        *)
LEMMA EndWritten ==
  ASSUME NEW s, NEW p \in Ends, NEW q \in Ends, NEW a \in Apps, NEW t \in Transports, NEW u, NEW c,
         EndFits(s, p, a, t, c), s = t.slot,
         NEW l \in TypedLine, l.type # "hello", l.seq = t.seq + 1,
         q.wire = Append(p.wire, l), q.down = p.down,
         (q.up /\ u.slot = s /\ u.seq = t.seq + 1) \/ (~q.up /\ u.slot # s)
  PROVE  EndFits(s, q, a, u, c)
<1>1. p.wire \in Seq(TypedLine) /\ t.seq \in Nat /\ a.seq \in Nat
  BY DEF Ends, Transports, Apps
<1>2. Ordered(p.wire) /\ Below(p.wire, t.seq)
  BY DEF EndFits
<1>3. /\ Ordered(q.wire) /\ Below(q.wire, t.seq + 1)
      /\ Unread(p.wire) => Unread(q.wire)
  BY <1>1, <1>2, LineWritten
<1>4. s = a.sock /\ a.shook => Rest(q.wire, a.seq)
  BY <1>1, <1>2, LineWritten DEF EndFits
<1>5. s = a.sock => a.seq <= t.seq + 1
  BY <1>1 DEF EndFits
<1> QED BY <1>3, <1>4, <1>5 DEF EndFits

(* The service turns to another instance, or to none.                      *)
LEMMA EndElsewhere ==
  ASSUME NEW s, NEW p, NEW a, NEW b, NEW t, NEW c, EndFits(s, p, a, t, c), s # a.sock, s # b.sock
  PROVE  EndFits(s, p, b, t, c)
BY DEF EndFits

(* The service destroys its end.                                           *)
LEMMA EndDestroyed ==
  ASSUME NEW s, NEW p, NEW q, NEW a, NEW b, NEW t, NEW c, EndFits(s, p, a, t, c),
         q.wire = <<>>, q.down = "closed", q.up = p.up, b.sock # s
  PROVE  EndFits(s, q, b, t, c)
BY NoLines DEF EndFits

LEMMA EndClosed ==
  ASSUME NEW p \in Ends
  PROVE  LET q == [p EXCEPT !.down = "closed", !.wire = <<>>]
         IN  q \in Ends /\ q.down = "closed" /\ q.wire = <<>> /\ q.up = p.up
BY NoLines DEF Ends

LEMMA EndOpened ==
  ASSUME NEW p \in Ends
  PROVE  LET q == [p EXCEPT !.down = "open"]
         IN  q \in Ends /\ q.down = "open" /\ q.wire = p.wire /\ q.up = p.up
BY DEF Ends

(* The service accepts the connection.                                     *)
LEMMA EndAccepted ==
  ASSUME NEW s, NEW p, NEW q, NEW a, NEW b, NEW t \in Transports, NEW c, EndFits(s, p, a, t, c),
         p.down = "pending", q.wire = p.wire, q.down = "open", q.up = p.up,
         b.sock = s, ~b.shook, b.seq = 0
  PROVE  EndFits(s, q, b, t, c)
BY DEF EndFits, Transports

(* The service reads a line.                                               *)
LEMMA EndRead ==
  ASSUME NEW s, NEW p \in Ends, NEW q, NEW a \in Apps, NEW b \in Apps, NEW t \in Transports,
         NEW c \in BOOLEAN, EndFits(s, p, a, t, c), s = a.sock, b.sock = a.sock, p.wire # <<>>,
         q.wire = Tail(p.wire), q.up = p.up,
         \/ ~c /\ ~b.shook /\ b.seq = a.seq /\ q.down = "ended"
         \/ /\ c /\ q.down = p.down /\ b.shook /\ b.seq = Head(p.wire).seq
            /\ ~a.shook => Unread(p.wire)
  PROVE  EndFits(s, q, b, t, c)
<1>1. p.wire \in Seq(TypedLine) /\ t.seq \in Nat /\ a.seq \in Nat /\ a.shook \in BOOLEAN
  BY DEF Ends, Transports, Apps
<1>2. Ordered(p.wire)
  BY DEF EndFits
<1>3. /\ Ordered(Tail(p.wire))
      /\ Below(p.wire, t.seq) => Below(Tail(p.wire), t.seq) /\ Head(p.wire).seq <= t.seq
      /\ Unread(p.wire) => Head(p.wire).seq = 1 /\ Rest(Tail(p.wire), 1)
      /\ Rest(p.wire, a.seq) => Rest(Tail(p.wire), Head(p.wire).seq)
  BY <1>1, <1>2, LineRead
<1>4. c => Rest(q.wire, b.seq)
  BY <1>1, <1>3 DEF EndFits
<1>5. p.down \in {"open", "ended"}
  BY DEF EndFits
<1> QED BY <1>3, <1>4, <1>5 DEF EndFits
-----------------------------------------------------------------------------
(* The transport thread.                                                   *)

TransportInv ==
  /\ TransFits /\ trans \in Transports /\ pipe \in [Slot -> Ends] /\ PipesFit

(* What comes next leaves the connection and the snapshots alone.          *)
LEMMA ThenFits ==
  ASSUME NEW t \in Transports, NEW done
  PROVE  /\ Then(t, done) \in Transports
         /\ Then(t, done).slot = t.slot /\ Then(t, done).seq = t.seq
         /\ Then(t, done).pc \in {"list", "play", "beat", "loop"}
BY DEF Then, Transports

LEMMA TransportStep ==
  ASSUME BridgeInv, TransportLoop \/ CoolDown
  PROVE  TransportInv'
<1>i. /\ trans \in Transports /\ pipe \in [Slot -> Ends] /\ app \in Apps /\ TransFits /\ PipesFit
      /\ plug \in Plugs /\ None \notin Slot
  BY BridgeAssumption DEF BridgeInv, PluginTypeOK
<1>u. setup' = setup /\ app' = app /\ main' = main
  BY DEF TransportLoop, StopDialing, Dial, Accepted, Rejected, Nap, Wake, Goodbye, SendList,
     SendPlay, SendHeartbeat, CoolDown, Transport
<1>1. ASSUME pipe' = pipe, trans' \in Transports, trans'.slot = trans.slot, trans'.seq = trans.seq,
             trans'.pc \in {"dial", "stopped"} <=> trans.pc \in {"dial", "stopped"},
             trans.pc = "stopped" => trans'.pc = "stopped"
      PROVE  TransportInv'
  <2>1. TransFits'
    BY <1>1, <1>i, <1>u DEF TransFits
  <2>2. \A s \in Slot : EndFits(s, pipe'[s], app', trans', setup'.compatible)
    BY <1>1, <1>i, <1>u, EndUntouched DEF PipesFit
  <2> QED BY <1>1, <1>i, <2>1, <2>2 DEF TransportInv, PipesFit
<1>2. ASSUME trans.pc \notin {"dial", "stopped"}
      PROVE  trans.slot \in Slot /\ main # "gone"
  BY <1>2, <1>i DEF TransFits, Transports
(* The thread loses its connection, or ends it.                            *)
<1>3. ASSUME trans.slot \in Slot, main # "gone", trans' \in Transports, trans'.slot = None,
             trans'.pc \in {"dial", "stopped"}, NEW q \in Ends, ~q.up,
             pipe' = [pipe EXCEPT ![trans.slot] = q],
             EndFits(trans.slot, q, app, trans', setup.compatible)
      PROVE  TransportInv'
  <2>1. TransFits'
    BY <1>3, <1>u DEF TransFits
  <2>2. ASSUME NEW s \in Slot, s # trans.slot
        PROVE  EndFits(s, pipe[s], app, trans', setup.compatible)
    BY <1>3, <1>i, <2>2, EndOfOther DEF PipesFit
  <2>3. pipe' \in [Slot -> Ends] /\ \A s \in Slot : pipe'[s] = IF s = trans.slot THEN q ELSE pipe[s]
    BY <1>3, <1>i
  <2> QED BY <1>3, <1>u, <2>1, <2>2, <2>3 DEF TransportInv, PipesFit
<1>4. ASSUME trans.slot \in Slot, main # "gone", trans' \in Transports, trans'.slot = None,
             trans'.pc \in {"dial", "stopped"}, HangUp
      PROVE  TransportInv'
  <2> DEFINE q == [pipe[trans.slot] EXCEPT !.up = FALSE]
  <2>1. /\ q \in Ends /\ ~q.up
        /\ q.wire = pipe[trans.slot].wire /\ q.down = pipe[trans.slot].down
    BY <1>4, <1>i DEF Ends
  <2>2. pipe' = [pipe EXCEPT ![trans.slot] = q]
    BY <1>4 DEF HangUp
  <2> HIDE DEF q
  <2>3. EndFits(trans.slot, pipe[trans.slot], app, trans, setup.compatible)
    BY <1>4, <1>i DEF PipesFit
  <2>4. EndFits(trans.slot, q, app, trans', setup.compatible)
    BY <1>4, <1>i, <2>1, <2>3, EndHungUp
  <2> QED BY <1>3, <1>4, <2>1, <2>2, <2>4
(* The thread writes a line.                                               *)
<1>5. ASSUME NEW type \in {"list", "play", "heartbeat"}, NEW data \in Lists \cup Plays \cup {None},
             type = "list" => data \in Lists, type = "play" => data \in Plays,
             trans.pc \notin {"dial", "stopped"}, Write(type, data),
             trans' \in Transports, trans'.slot = trans.slot, trans'.seq = trans.seq + 1,
             trans'.pc \notin {"dial", "stopped"}
      PROVE  TransportInv'
  <2>0. trans.slot \in Slot /\ main # "gone" /\ trans.seq \in Nat
    BY <1>2, <1>5, <1>i DEF Transports
  <2> DEFINE l == [type |-> type, seq |-> trans.seq + 1, data |-> data]
             q == [pipe[trans.slot] EXCEPT !.wire = Append(@, l)]
  <2>1. l \in TypedLine /\ l.type # "hello" /\ l.seq = trans.seq + 1
    BY <1>5, <2>0 DEF TypedLine, Line
  <2>2. pipe' = [pipe EXCEPT ![trans.slot] = q]
    BY <1>5 DEF Write
  <2> HIDE DEF l
  <2>w. pipe[trans.slot] \in Ends /\ Append(pipe[trans.slot].wire, l) \in Seq(TypedLine)
    BY <1>i, <2>0, <2>1 DEF Ends
  <2>3. /\ q \in Ends /\ q.up = pipe[trans.slot].up
        /\ q.wire = Append(pipe[trans.slot].wire, l) /\ q.down = pipe[trans.slot].down
    BY <2>w DEF Ends
  <2> HIDE DEF q
  <2>4. EndFits(trans.slot, pipe[trans.slot], app, trans, setup.compatible)
    BY <1>i, <2>0 DEF PipesFit
  <2>5. q.up
    BY <2>3, <2>4 DEF EndFits
  <2>6. EndFits(trans.slot, q, app, trans', setup.compatible)
    BY <1>5, <1>i, <2>0, <2>1, <2>3, <2>4, <2>5, EndWritten
  <2>7. TransFits'
    BY <1>5, <1>i, <1>u, <2>0 DEF TransFits
  <2>8. ASSUME NEW s \in Slot, s # trans.slot
        PROVE  EndFits(s, pipe[s], app, trans', setup.compatible)
    BY <1>5, <1>i, <2>8, EndOfOther DEF PipesFit
  <2>9. pipe' \in [Slot -> Ends] /\ \A s \in Slot : pipe'[s] = IF s = trans.slot THEN q ELSE pipe[s]
    BY <1>i, <2>2, <2>3
  <2> QED BY <1>5, <1>u, <2>6, <2>7, <2>8, <2>9 DEF TransportInv, PipesFit
<1>6. CASE StopDialing
  <2>1. trans' \in Transports /\ trans'.slot = trans.slot /\ trans'.seq = trans.seq
        /\ trans.pc = "dial" /\ trans'.pc = "stopped"
    BY <1>6, <1>i DEF StopDialing, Transports
  <2> QED BY <1>1, <1>6, <2>1 DEF StopDialing
<1>7. CASE Dial
  <2> DEFINE free == {s \in Slot : ~pipe[s].up /\ pipe[s].down = "closed"}
             l == [type |-> "hello", seq |-> 1, data |-> None]
             q == [up |-> TRUE, down |-> "pending", ack |-> "none", wire |-> <<l>>]
  <2>1. CASE UNCHANGED <<trans, pipe>>
    BY <1>1, <1>i, <2>1
  <2>2. ASSUME NEW s \in free, trans' = [trans EXCEPT !.pc = "hello", !.seq = 1, !.slot = s],
               pipe' = [pipe EXCEPT ![s] = q]
        PROVE  TransportInv'
    <3>1. l \in TypedLine /\ l.type = "hello" /\ l.seq = 1
      BY DEF TypedLine, Line
    <3> HIDE DEF l
    <3>2. q \in Ends /\ q.up /\ q.down = "pending" /\ q.wire = <<l>>
      BY <3>1, OneLine DEF Ends
    <3> HIDE DEF q
    <3>3. /\ trans' \in Transports /\ trans'.pc = "hello" /\ trans'.slot = s /\ trans'.seq = 1
          /\ s \in Slot
      BY <1>i, <2>2 DEF Transports
    <3>4. trans.pc = "dial" /\ trans.slot = None /\ main # "gone"
      BY <1>7, <1>i DEF Dial, TransFits
    <3>5. s # app.sock
      BY <1>i, <2>2 DEF PipesFit, EndFits
    <3>6. EndFits(s, q, app, trans', setup.compatible)
      BY <3>1, <3>2, <3>3, <3>5, OneLine DEF EndFits
    <3>7. ASSUME NEW r \in Slot, r # s
          PROVE  EndFits(r, pipe[r], app, trans', setup.compatible)
      BY <1>i, <3>3, <3>4, <3>7, EndOfOther DEF PipesFit
    <3>8. pipe' \in [Slot -> Ends] /\ \A r \in Slot : pipe'[r] = IF r = s THEN q ELSE pipe[r]
      BY <1>i, <2>2, <3>2, <3>3
    <3>9. TransFits'
      BY <1>i, <1>u, <3>3, <3>4 DEF TransFits
    <3> QED BY <1>u, <3>3, <3>6, <3>7, <3>8, <3>9 DEF TransportInv, PipesFit
  <2>3. UNCHANGED <<trans, pipe>> \/ \E s \in free :
          /\ trans' = [trans EXCEPT !.pc = "hello", !.seq = 1, !.slot = s]
          /\ pipe' = [pipe EXCEPT ![s] = q]
    BY <1>7 DEF Dial
  <2> QED BY <2>1, <2>2, <2>3
<1>8. CASE Accepted \/ Nap \/ CoolDown
  <2>1. /\ trans' \in Transports /\ trans'.slot = trans.slot /\ trans'.seq = trans.seq
        /\ trans'.pc \in {"dial", "stopped"} <=> trans.pc \in {"dial", "stopped"}
        /\ trans.pc = "stopped" => trans'.pc = "stopped"
    BY <1>8, <1>i DEF Accepted, Nap, CoolDown, Transports
  <2> QED BY <1>1, <1>8, <2>1 DEF Accepted, Nap, CoolDown
<1>9. CASE Rejected
  <2>1. trans' \in Transports /\ trans'.slot = None /\ trans'.pc = "dial" /\ trans.pc = "hello"
    BY <1>9, <1>i DEF Rejected, Transports
  <2> QED BY <1>2, <1>4, <1>9, <2>1 DEF Rejected
<1>10. CASE Wake
  <2>1. PICK due \in BOOLEAN :
          trans' = Then([trans EXCEPT !.send = plug.dirty, !.due = due,
                                      !.list = plug.list, !.play = plug.play], {})
    BY <1>10 DEF Wake
  <2> DEFINE t == [trans EXCEPT !.send = plug.dirty, !.due = due,
                                !.list = plug.list, !.play = plug.play]
  <2>2. t \in Transports /\ t.slot = trans.slot /\ t.seq = trans.seq
    BY <1>i DEF Transports, Plugs
  <2> HIDE DEF t
  <2>3. trans' = Then(t, {})
    BY <2>1 DEF t
  <2> QED BY <1>1, <1>10, <2>2, <2>3, ThenFits DEF Wake
<1>11. CASE Goodbye
  <2> DEFINE l == [type |-> "goodbye", seq |-> trans.seq + 1, data |-> None]
             p == pipe[trans.slot]
             w == IF plug.reason = "PluginShutdown" \/ Broken THEN p.wire ELSE Append(p.wire, l)
             q == [p EXCEPT !.up = FALSE, !.wire = w]
  <2>0. trans.slot \in Slot /\ main # "gone" /\ trans.seq \in Nat
    BY <1>2, <1>11, <1>i DEF Goodbye, Transports
  <2>1. trans' \in Transports /\ trans'.slot = None /\ trans'.pc = "stopped"
    BY <1>11, <1>i DEF Goodbye, Transports
  <2>2. pipe' = [pipe EXCEPT ![trans.slot] = q]
    BY <1>11 DEF Goodbye
  <2>3. l \in TypedLine /\ l.type # "hello" /\ l.seq = trans.seq + 1
    BY <2>0 DEF TypedLine, Line
  <2> HIDE DEF l
  <2>4. p \in Ends /\ p.wire \in Seq(TypedLine) /\ w \in Seq(TypedLine)
    BY <1>i, <2>0, <2>3 DEF Ends
  <2>w. w = p.wire \/ w = Append(p.wire, l)
    OBVIOUS
  <2> HIDE DEF w
  <2>5. q \in Ends /\ ~q.up /\ q.wire = w /\ q.down = p.down
    BY <2>4 DEF Ends
  <2> HIDE DEF q
  <2>6. EndFits(trans.slot, p, app, trans, setup.compatible)
    BY <1>i, <2>0 DEF PipesFit
  <2>7. EndFits(trans.slot, q, app, trans', setup.compatible)
    <3>1. CASE w = p.wire
      BY <1>i, <2>0, <2>1, <2>4, <2>5, <2>6, <3>1, EndHungUp
    <3>2. CASE w = Append(p.wire, l)
      BY <1>i, <2>0, <2>1, <2>3, <2>4, <2>5, <2>6, <3>2, EndWritten
    <3> QED BY <2>w, <3>1, <3>2
  <2> QED BY <1>3, <2>0, <2>1, <2>2, <2>5, <2>7
<1>12. ASSUME WriteFails, trans.pc \in {"list", "play", "beat"} PROVE TransportInv'
  <2>1. trans' \in Transports /\ trans'.slot = None /\ trans'.pc = "dial"
    BY <1>12, <1>i DEF WriteFails, Transports
  <2> QED BY <1>2, <1>4, <1>12, <2>1 DEF WriteFails
<1>13. ASSUME NEW done
       PROVE  /\ Sent(done) \in Transports /\ Sent(done).slot = trans.slot
              /\ Sent(done).seq = trans.seq + 1
              /\ Sent(done).pc \in {"list", "play", "beat", "loop"}
  <2> DEFINE t == [trans EXCEPT !.seq = @ + 1]
  <2>1. t \in Transports /\ t.slot = trans.slot /\ t.seq = trans.seq + 1
    BY <1>i DEF Transports
  <2> HIDE DEF t
  <2>2. Sent(done) = Then(t, done)
    BY DEF Sent, t
  <2> QED BY <2>1, <2>2, ThenFits
<1>14. CASE SendList
  <2>1. trans.list \in Lists
    BY <1>i DEF Transports
  <2> QED BY <1>5, <1>12, <1>13, <1>14, <2>1 DEF SendList
<1>15. CASE SendHeartbeat
  BY <1>5, <1>12, <1>13, <1>15 DEF SendHeartbeat
<1>16. CASE SendPlay
  <2>1. CASE trans.cool
    BY <1>1, <1>i, <1>16, <2>1, ThenFits DEF SendPlay
  <2>2. CASE ~trans.cool /\ Broken
    BY <1>12, <1>16, <2>2 DEF SendPlay
  <2>3. CASE ~trans.cool /\ ~Broken
    <3> DEFINE t == Sent({"list", "play"})
    <3>1. trans' = [t EXCEPT !.cool = TRUE] /\ Write("play", trans.play) /\ trans.pc = "play"
      BY <1>16, <2>3 DEF SendPlay
    <3>2. /\ t \in Transports /\ t.slot = trans.slot /\ t.seq = trans.seq + 1
          /\ t.pc \in {"list", "play", "beat", "loop"}
      BY <1>13
    <3> HIDE DEF t
    <3>3. /\ trans' \in Transports /\ trans'.slot = trans.slot /\ trans'.seq = trans.seq + 1
          /\ trans'.pc \in {"list", "play", "beat", "loop"}
      BY <3>1, <3>2 DEF Transports
    <3>4. trans.play \in Plays
      BY <1>i DEF Transports
    <3> QED BY <1>5, <3>1, <3>3, <3>4
  <2> QED BY <2>1, <2>2, <2>3
<1> QED BY <1>6, <1>7, <1>8, <1>9, <1>10, <1>11, <1>14, <1>15, <1>16 DEF TransportLoop
-----------------------------------------------------------------------------
(* AIMP, its main thread and the snapshot thread.                          *)

LEMMA MainStep ==
  ASSUME BridgeInv, AimpNext \/ MainNext \/ SnapshotLoop
  PROVE  TransportInv' /\ app' = app
<1>i. /\ trans \in Transports /\ pipe \in [Slot -> Ends] /\ app \in Apps /\ TransFits /\ PipesFit
      /\ PluginTypeOK /\ None \notin Slot
  BY BridgeAssumption DEF BridgeInv
<1>u. setup' = setup
  <2>1. Next
    BY DEF Next
  <2> QED BY <2>1, SetupStays
<1>1. ASSUME UNCHANGED <<trans, pipe, app>>, main' = "gone" => trans.pc = "stopped"
      PROVE  TransportInv' /\ app' = app
  <2>1. TransFits'
    BY <1>1, <1>i DEF TransFits
  <2>2. PipesFit'
    BY <1>1, <1>i, <1>u DEF PipesFit
  <2> QED BY <1>1, <1>i, <2>1, <2>2 DEF TransportInv
<1>2. CASE AimpNext
  <2>1. UNCHANGED <<main, trans, pipe, app>>
    BY <1>2, <1>i, AimpChanges
  <2> QED BY <1>1, <1>i, <2>1 DEF TransFits
<1>3. CASE SnapshotLoop
  <2>1. UNCHANGED <<main, trans, pipe, app>>
    BY <1>3 DEF SnapshotLoop, TakeRequests, Execute, ReadAimp, KeepSnapshot
  <2> QED BY <1>1, <1>i, <2>1 DEF TransFits
<1>4. CASE Terminating \/ Finalize \/ StopTransport \/ Finalized
  BY <1>1, <1>4 DEF Terminating, Finalize, StopTransport, Finalized
<1>5. CASE Killed
  <2>1. trans' \in Transports /\ trans'.pc = "stopped" /\ trans'.slot = None
    BY <1>5, FreshPlugin DEF Killed, NewTrans, Transports
  <2>2. TransFits'
    BY <2>1 DEF TransFits
  <2>3. /\ pipe' \in [Slot -> Ends]
        /\ \A s \in Slot : /\ pipe'[s].wire = pipe[s].wire /\ pipe'[s].down = pipe[s].down
                           /\ ~pipe'[s].up
    BY <1>5, <1>i DEF Killed, Ends
  <2>4. ASSUME NEW s \in Slot PROVE EndFits(s, pipe'[s], app, trans', setup.compatible)
    <3>1. /\ EndFits(s, pipe[s], app, trans, setup.compatible)
          /\ pipe[s] \in Ends /\ pipe'[s] \in Ends /\ trans'.slot # s
      BY <1>i, <2>1, <2>3 DEF PipesFit
    <3> QED BY <2>3, <3>1, EndHungUp
  <2>5. app' = app
    BY <1>5 DEF Killed
  <2> QED BY <1>u, <2>1, <2>2, <2>3, <2>4, <2>5 DEF TransportInv, PipesFit
<1>6. CASE Initialize
  <2>1. /\ trans' \in Transports /\ trans'.pc = "dial" /\ trans'.slot = None /\ main' = "run"
        /\ pipe' = pipe /\ app' = app
    BY <1>6, FreshPlugin DEF Initialize, NewTrans, Transports
  <2>2. TransFits'
    BY <2>1 DEF TransFits
  <2>3. trans.slot = None
    BY <1>6, <1>i DEF Initialize, TransFits
  <2>4. \A s \in Slot : EndFits(s, pipe[s], app, trans', setup.compatible)
    BY <1>i, <2>1, <2>3, EndOfOther DEF PipesFit
  <2> QED BY <1>i, <1>u, <2>1, <2>2, <2>4 DEF TransportInv, PipesFit
<1> QED BY <1>2, <1>3, <1>4, <1>5, <1>6 DEF MainNext
-----------------------------------------------------------------------------
(* The service.                                                            *)

Refusals == {"unsupportedProtocolVersion", "missingHandshake", "invalidEnvelope"}

LEMMA NoError == None \notin Refusals /\ None \in Errors \cup {None}
BY BridgeAssumption DEF Refusals, Errors

(* A service with nobody to talk to.                                       *)
LEMMA NobodyFits ==
  ASSUME NEW b, NEW c, b.sock = None, ~b.shook, b.list = None, b.play = None,
         ~b.selected => b.server = "off", c => b.error \notin Refusals
  PROVE  AppFits(b, c)
BY DEF AppFits, Refusals

(* The service without a client, whose last number may stay.               *)
LEMMA ClientClosed ==
  ASSUME NEW a \in Apps, NEW c \in BOOLEAN, AppFits(a, c),
         NEW e \in Errors \cup {None}, c => e \notin Refusals,
         NEW b, b = CloseClient(a, e) \/ b = [CloseClient(a, e) EXCEPT !.seq = a.seq]
  PROVE  b \in Apps /\ b.sock = None /\ AppFits(b, c)
<1> DEFINE d == CloseClient(a, e)
<1>1. /\ d \in Apps /\ d.selected = a.selected /\ d.server = a.server /\ d.sock = None
      /\ ~d.shook /\ d.list = None /\ d.play = None /\ d.error = e
  BY DEF CloseClient, Apps
<1> HIDE DEF d
<1>2. /\ b \in Apps /\ b.selected = a.selected /\ b.server = a.server /\ b.sock = None
      /\ ~b.shook /\ b.list = None /\ b.play = None /\ b.error = e
  <2>1. CASE b = d
    BY <1>1, <2>1
  <2>2. CASE b = [d EXCEPT !.seq = a.seq]
    BY <1>1, <2>2 DEF Apps
  <2> QED BY <2>1, <2>2 DEF d
<1>3. ~a.selected => a.server = "off"
  BY DEF AppFits
<1> QED BY <1>2, <1>3, NobodyFits

(* The service that has stopped, failed to start or ended.                 *)
LEMMA ListeningStopped ==
  ASSUME NEW a \in Apps, NEW c \in BOOLEAN,
         NEW b, \/ b = [StopListening(a) EXCEPT !.selected = FALSE]
                \/ a.selected /\ b = [StopListening(a) EXCEPT !.server = "failed"]
                \/ b = NewApp
  PROVE  b \in Apps /\ b.sock = None /\ AppFits(b, c)
<1> DEFINE d == StopListening(a)
<1>1. /\ NewApp \in Apps /\ NewApp.sock = None /\ ~NewApp.shook
      /\ NewApp.list = None /\ NewApp.play = None /\ NewApp.error = None
  BY NoError DEF NewApp, Apps
<1>2. /\ d \in Apps /\ d.selected = a.selected /\ d.server = "off" /\ d.sock = None /\ ~d.shook
      /\ d.list = None /\ d.play = None /\ d.error = None
  BY <1>1 DEF StopListening, Apps
<1> HIDE DEF d
<1>3. \/ b = [d EXCEPT !.selected = FALSE]
      \/ a.selected /\ b = [d EXCEPT !.server = "failed"]
      \/ b = NewApp
  BY DEF d
<1>4. /\ b \in Apps /\ b.sock = None /\ ~b.shook
      /\ b.list = None /\ b.play = None /\ b.error = None
  BY <1>1, <1>2, <1>3 DEF Apps
<1>5. ~b.selected => b.server = "off"
  BY <1>2, <1>3 DEF Apps, NewApp
<1> QED BY <1>4, <1>5, NoError, NobodyFits
(* The service that rejects the hello of another version.                  *)
LEMMA HelloRejected ==
  ASSUME NEW a \in Apps, AppFits(a, FALSE),
         NEW b, b = [a EXCEPT !.error = "unsupportedProtocolVersion"]
  PROVE  /\ b \in Apps /\ AppFits(b, FALSE)
         /\ b.sock = a.sock /\ ~b.shook /\ b.seq = a.seq
BY DEF Apps, AppFits, Errors

(* The service that has taken a line from its client.                      *)
Takes(a, l, b) ==
  LET r == [a EXCEPT !.seq = l.seq]
  IN  \/ l.type = "hello" /\ b = [Live(r) EXCEPT !.shook = TRUE]
      \/ a.shook /\ l.type = "list" /\ b = Live(Reconcile([r EXCEPT !.list = l.data]))
      \/ a.shook /\ l.type = "play" /\ b = Live(Reconcile([r EXCEPT !.play = l.data]))
      \/ a.shook /\ l.type = "heartbeat" /\ b = Live(r)

LEMMA LineTaken ==
  ASSUME NEW a \in Apps, AppFits(a, TRUE), a.sock # None, NEW l \in TypedLine, l.seq \in Nat,
         NEW b, Takes(a, l, b)
  PROVE  /\ b \in Apps /\ AppFits(b, TRUE)
         /\ b.sock = a.sock /\ b.shook /\ b.seq = l.seq
<1> DEFINE Taken(r) == /\ r \in Apps /\ r.sock = a.sock /\ r.seq = l.seq
                       /\ r.server = a.server /\ r.selected = a.selected
<1>1. ASSUME NEW r, Taken(r), r.shook,
             r.list # None /\ r.play # None /\ r.play.item # None => r.play.item \in r.list.tracks,
             b = Live(r)
      PROVE  /\ b \in Apps /\ AppFits(b, TRUE)
             /\ b.sock = a.sock /\ b.shook /\ b.seq = l.seq
  <2>1. /\ Taken(b) /\ b.shook /\ b.connected /\ b.list = r.list /\ b.play = r.play
        /\ b.error = None
    BY <1>1 DEF Live, Apps
  <2>2. a.server = "on" /\ (~a.selected => a.server = "off")
    BY DEF AppFits
  <2> QED BY <1>1, <2>1, <2>2, NoError DEF AppFits, Refusals
<1>2. ASSUME NEW r, Taken(r), r.shook
      PROVE  LET q == Reconcile(r) IN
             /\ Taken(q) /\ q.shook
             /\ q.list # None /\ q.play # None /\ q.play.item # None => q.play.item \in q.list.tracks
  BY <1>2 DEF Reconcile, Apps
<1> DEFINE r == [a EXCEPT !.seq = l.seq]
<1>3. Taken(r) /\ r.shook = a.shook /\ r.list = a.list /\ r.play = a.play
  BY DEF Apps
<1> HIDE DEF r
<1>4. CASE l.type = "hello" /\ b = [Live(r) EXCEPT !.shook = TRUE]
  <2> DEFINE q == [r EXCEPT !.shook = TRUE]
  <2>1. Taken(q) /\ q.shook /\ q.list = a.list /\ q.play = a.play
    BY <1>3 DEF Apps
  <2>2. b = Live(q)
    BY <1>3, <1>4 DEF Live, Apps
  <2> HIDE DEF q
  <2>3. a.list # None /\ a.play # None /\ a.play.item # None => a.play.item \in a.list.tracks
    BY DEF AppFits
  <2> QED BY <1>1, <2>1, <2>2, <2>3
<1>5. CASE a.shook /\ l.type = "list" /\ b = Live(Reconcile([r EXCEPT !.list = l.data]))
  <2> DEFINE q == [r EXCEPT !.list = l.data]
  <2>1. l.data \in Lists
    BY <1>5 DEF TypedLine
  <2>2. Taken(q) /\ q.shook
    BY <1>3, <1>5, <2>1 DEF Apps
  <2> HIDE DEF q
  <2>3. b = Live(Reconcile(q))
    BY <1>5 DEF q
  <2> QED BY <1>1, <1>2, <2>2, <2>3
<1>6. CASE a.shook /\ l.type = "play" /\ b = Live(Reconcile([r EXCEPT !.play = l.data]))
  <2> DEFINE q == [r EXCEPT !.play = l.data]
  <2>1. l.data \in Plays
    BY <1>6 DEF TypedLine
  <2>2. Taken(q) /\ q.shook
    BY <1>3, <1>6, <2>1 DEF Apps
  <2> HIDE DEF q
  <2>3. b = Live(Reconcile(q))
    BY <1>6 DEF q
  <2> QED BY <1>1, <1>2, <2>2, <2>3
<1>7. CASE a.shook /\ l.type = "heartbeat" /\ b = Live(r)
  <2>1. a.list # None /\ a.play # None /\ a.play.item # None => a.play.item \in a.list.tracks
    BY DEF AppFits
  <2> QED BY <1>1, <1>3, <1>7, <2>1
<1> QED BY <1>4, <1>5, <1>6, <1>7 DEF r, Takes

ServiceInv ==
  /\ app \in Apps /\ AppFits(app, setup.compatible) /\ pipe \in [Slot -> Ends] /\ PipesFit

LEMMA ServiceStep ==
  ASSUME BridgeInv, EventLoop \/ AppNext
  PROVE  ServiceInv' /\ TransFits' /\ trans' = trans
<1>i. /\ trans \in Transports /\ pipe \in [Slot -> Ends] /\ app \in Apps /\ TransFits /\ PipesFit
      /\ AppFits(app, setup.compatible)
      /\ None \notin Slot /\ setup.compatible \in BOOLEAN /\ faults \in Nat
  BY BridgeAssumption DEF BridgeInv, PluginTypeOK, Setup
<1>u. setup' = setup /\ trans' = trans /\ main' = main
  <2>1. UNCHANGED <<setup, aimp, main, plugin, changes>>
    BY DEF EventLoop, Listening, ProcessLine, SocketClosed, Connection, AppNext, SelectAimp,
       SelectPlayer, ListenFails, SocketError, GoesStale, Hangs, DesktopEnds, Service
  <2> QED BY <2>1 DEF plugin
<1>0. ASSUME app' \in Apps, AppFits(app', setup.compatible), pipe' \in [Slot -> Ends],
             \A s \in Slot : EndFits(s, pipe'[s], app', trans, setup.compatible)
      PROVE  ServiceInv' /\ TransFits' /\ trans' = trans
  BY <1>0, <1>i, <1>u DEF ServiceInv, PipesFit, TransFits
<1>e. \A s \in Slot : pipe[s] \in Ends /\ EndFits(s, pipe[s], app, trans, setup.compatible)
  BY <1>i DEF PipesFit
<1>1. ASSUME app' \in Apps, AppFits(app', setup.compatible), pipe' = pipe,
             app'.sock = app.sock, app'.shook = app.shook, app'.seq = app.seq
      PROVE  ServiceInv' /\ TransFits' /\ trans' = trans
  BY <1>0, <1>1, <1>e, <1>i, EndUntouched
<1>2. CASE SelectAimp
  <2>1. /\ app' \in Apps /\ app'.sock = app.sock /\ app'.shook = app.shook /\ app'.seq = app.seq
        /\ app'.list = app.list /\ app'.play = app.play /\ app'.selected /\ app'.server = "starting"
        /\ app'.error = app.error /\ app.server = "off"
    BY <1>2, <1>i DEF SelectAimp, Apps, AppFits
  <2>2. AppFits(app', setup.compatible)
    BY <1>i, <2>1 DEF AppFits
  <2> QED BY <1>1, <1>2, <2>1, <2>2 DEF SelectAimp
<1>3. CASE Listening
  <2>1. /\ app' \in Apps /\ app'.sock = app.sock /\ app'.shook = app.shook /\ app'.seq = app.seq
        /\ app'.list = app.list /\ app'.play = app.play /\ app'.selected = app.selected
        /\ app'.error = None /\ app.server = "starting"
    BY <1>3, <1>i DEF Listening, Apps
  <2>2. /\ app.sock = None /\ ~app.shook /\ app.list = None /\ app.play = None /\ app.selected
    BY <1>i, <2>1 DEF AppFits
  <2>3. AppFits(app', setup.compatible)
    BY <2>1, <2>2, NoError, NobodyFits
  <2> QED BY <1>1, <1>3, <2>1, <2>3 DEF Listening
<1>4. CASE GoesStale \/ Hangs
  <2>1. /\ app' \in Apps /\ app'.sock = app.sock /\ app'.shook = app.shook /\ app'.seq = app.seq
        /\ app'.list = app.list /\ app'.play = app.play /\ app'.selected = app.selected
        /\ app'.server = app.server /\ app'.error = app.error /\ app'.connected = app.connected
    BY <1>4, <1>i DEF GoesStale, Hangs, Apps
  <2>2. AppFits(app', setup.compatible)
    BY <1>i, <2>1 DEF AppFits
  <2> QED BY <1>1, <1>4, <2>1, <2>2 DEF GoesStale, Hangs
<1>5. CASE SelectPlayer \/ ListenFails \/ DesktopEnds
  <2>1. ListenFails => app.selected
    BY <1>i DEF ListenFails, AppFits
  <2>2. app' \in Apps /\ app'.sock = None /\ AppFits(app', setup.compatible)
    BY <1>5, <1>i, <2>1, ListeningStopped DEF SelectPlayer, ListenFails, DesktopEnds
  <2>3. Destroy(Slot)
    BY <1>5 DEF SelectPlayer, ListenFails, DesktopEnds
  <2>4. /\ pipe' \in [Slot -> Ends]
        /\ \A s \in Slot : /\ pipe'[s].down = "closed" /\ pipe'[s].wire = <<>>
                           /\ pipe'[s].up = pipe[s].up
    BY <1>e, <2>3, EndClosed DEF Destroy
  <2>5. \A s \in Slot : EndFits(s, pipe'[s], app', trans, setup.compatible)
    BY <1>e, <1>i, <2>2, <2>4, EndDestroyed
  <2> QED BY <1>0, <2>2, <2>4, <2>5
<1>6. ASSUME NEW r \in Slot, Connection(r) PROVE ServiceInv' /\ TransFits' /\ trans' = trans
  <2>1. app.server = "on" /\ pipe[r].down = "pending"
    BY <1>6 DEF Connection
  <2> DEFINE d == CloseClient(app, None)
  <2>2. /\ d \in Apps /\ d.sock = None /\ d.seq = 0 /\ ~d.shook /\ d.list = None /\ d.play = None
        /\ d.error = None /\ d.server = app.server /\ d.selected = app.selected
    BY <1>i, NoError DEF CloseClient, Apps
  <2> HIDE DEF d
  <2>3. app' = [d EXCEPT !.sock = r]
    BY <1>6 DEF Connection, d
  <2>4. /\ app' \in Apps /\ app'.sock = r /\ app'.seq = 0 /\ ~app'.shook /\ app'.list = None
        /\ app'.play = None /\ app'.error = None /\ app'.server = "on"
        /\ app'.selected = app.selected
    BY <2>1, <2>2, <2>3 DEF Apps
  <2>5. AppFits(app', setup.compatible)
    BY <1>i, <2>1, <2>4, NoError DEF AppFits, Refusals
  <2>6. /\ pipe' \in [Slot -> Ends]
        /\ \A s \in Slot :
             /\ pipe'[s].up = pipe[s].up
             /\ s = r => pipe'[s].down = "open" /\ pipe'[s].wire = pipe[s].wire
             /\ s # r /\ s = app.sock => pipe'[s].down = "closed" /\ pipe'[s].wire = <<>>
             /\ s # r /\ s # app.sock => pipe'[s] = pipe[s]
    BY <1>6, <1>e, EndClosed, EndOpened DEF Connection
  <2>7. ASSUME NEW s \in Slot PROVE EndFits(s, pipe'[s], app', trans, setup.compatible)
    <3>1. CASE s = r
      BY <1>e, <1>i, <2>1, <2>4, <2>6, <3>1, EndAccepted
    <3>2. CASE s # r /\ s = app.sock
      BY <1>e, <1>i, <2>4, <2>6, <3>2, EndDestroyed
    <3>3. CASE s # r /\ s # app.sock
      BY <1>e, <1>i, <2>4, <2>6, <3>3, EndElsewhere
    <3> QED BY <3>1, <3>2, <3>3
  <2> QED BY <1>0, <2>4, <2>5, <2>6, <2>7
(* The client is lost: its end is destroyed, and the service has none.     *)
<1>7. ASSUME app.sock \in Slot, app' \in Apps, app'.sock = None, AppFits(app', setup.compatible),
             pipe' = [pipe EXCEPT ![app.sock].down = "closed", ![app.sock].wire = <<>>]
      PROVE  ServiceInv' /\ TransFits' /\ trans' = trans
  <2>1. /\ pipe' \in [Slot -> Ends]
        /\ \A s \in Slot :
             /\ s = app.sock => /\ pipe'[s].down = "closed" /\ pipe'[s].wire = <<>>
                                /\ pipe'[s].up = pipe[s].up
             /\ s # app.sock => pipe'[s] = pipe[s]
    BY <1>7, <1>i, NoLines, ZenonT(60) DEF Ends
  <2>2. ASSUME NEW s \in Slot PROVE EndFits(s, pipe'[s], app', trans, setup.compatible)
    <3>1. CASE s = app.sock
      BY <1>7, <1>e, <1>i, <2>1, <3>1, EndDestroyed
    <3>2. CASE s # app.sock
      BY <1>7, <1>e, <1>i, <2>1, <3>2, EndElsewhere
    <3> QED BY <3>1, <3>2
  <2> QED BY <1>0, <1>7, <2>1, <2>2
<1>8. ASSUME NEW e \in Errors \cup {None}, setup.compatible => e \notin Refusals,
             app.sock \in Slot, Drop(e)
      PROVE  ServiceInv' /\ TransFits' /\ trans' = trans
  <2>1. app' \in Apps /\ app'.sock = None /\ AppFits(app', setup.compatible)
    BY <1>8, <1>i, ClientClosed DEF Drop
  <2> QED BY <1>7, <1>8, <2>1 DEF Drop
<1>9. app.error \in Errors \cup {None} /\ (setup.compatible => app.error \notin Refusals)
  BY <1>i DEF Apps, AppFits, Refusals
<1>10. app.sock # None => app.sock \in Slot
  BY <1>i DEF Apps
<1>11. CASE SocketError
  <2>1. "transport" \in Errors /\ "transport" \notin Refusals
    BY DEF Errors, Refusals
  <2> QED BY <1>8, <1>10, <1>11, <2>1 DEF SocketError
<1>12. CASE SocketClosed
  <2>1. app' \in Apps /\ app'.sock = None /\ AppFits(app', setup.compatible)
    BY <1>9, <1>12, <1>i, ClientClosed DEF SocketClosed
  <2>2. pipe' = [pipe EXCEPT ![app.sock].down = "closed", ![app.sock].wire = <<>>]
    <3>1. app.sock \in Slot /\ pipe[app.sock].wire = <<>>
      BY <1>10, <1>12 DEF SocketClosed
    <3>2. pipe' = [pipe EXCEPT ![app.sock] = [@ EXCEPT !.down = "closed"]]
      BY <1>12 DEF SocketClosed
    <3>3. pipe[app.sock] \in Ends
      BY <1>i, <3>1
    <3>4. [pipe[app.sock] EXCEPT !.down = "closed"] =
            [pipe[app.sock] EXCEPT !.down = "closed", !.wire = <<>>]
      BY <3>1, <3>3 DEF Ends
    <3> QED BY <3>2, <3>4
  <2> QED BY <1>7, <1>10, <1>12, <2>1, <2>2 DEF SocketClosed
(* The service reads a line and keeps the client.                          *)
<1>13. ASSUME app.sock \in Slot, pipe[app.sock].wire # <<>>, app' \in Apps, app'.sock = app.sock,
              AppFits(app', setup.compatible), NEW q \in Ends, pipe' = [pipe EXCEPT ![app.sock] = q],
              q.wire = Tail(pipe[app.sock].wire), q.up = pipe[app.sock].up,
              \/ ~setup.compatible /\ ~app'.shook /\ app'.seq = app.seq /\ q.down = "ended"
              \/ /\ setup.compatible /\ q.down = pipe[app.sock].down /\ app'.shook
                 /\ app'.seq = Head(pipe[app.sock].wire).seq
                 /\ ~app.shook => Unread(pipe[app.sock].wire)
       PROVE  ServiceInv' /\ TransFits' /\ trans' = trans
  <2>1. pipe' \in [Slot -> Ends] /\ \A s \in Slot : pipe'[s] = IF s = app.sock THEN q ELSE pipe[s]
    BY <1>13, <1>i
  <2>2. EndFits(app.sock, q, app', trans, setup.compatible)
    BY <1>13, <1>e, <1>i, EndRead
  <2>3. ASSUME NEW s \in Slot, s # app.sock
        PROVE  EndFits(s, pipe[s], app', trans, setup.compatible)
    BY <1>13, <1>e, <1>i, <2>3, EndElsewhere
  <2> QED BY <1>0, <1>13, <2>1, <2>2, <2>3
<1>14. CASE ProcessLine
  <2> DEFINE p == pipe[app.sock]
             l == Head(p.wire)
  <2>1. /\ app.sock \in Slot /\ p.wire # <<>> /\ p \in Ends
        /\ EndFits(app.sock, p, app, trans, setup.compatible)
    BY <1>10, <1>14, <1>e DEF ProcessLine
  <2>2. /\ p.wire \in Seq(TypedLine) /\ p.down \in {"pending", "open", "ended", "closed"}
        /\ app.seq \in Nat /\ app.shook \in BOOLEAN
    BY <1>i, <2>1 DEF Ends, Apps
  <2>3. Ordered(p.wire)
    BY <2>1 DEF EndFits
  <2>4. /\ l \in TypedLine /\ l.seq \in Nat /\ Tail(p.wire) \in Seq(TypedLine)
        /\ Unread(p.wire) => l.type = "hello" /\ l.seq = 1
        /\ Rest(p.wire, app.seq) => l.type # "hello" /\ app.seq < l.seq
    BY <2>1, <2>2, <2>3, LineRead
  <2>5. setup.compatible => /\ ~app.shook => /\ Unread(p.wire)
                                             /\ l.type = "hello" /\ l.seq = 1 /\ app.seq = 0
                            /\ app.shook => l.type # "hello" /\ app.seq < l.seq
    BY <1>i, <2>1, <2>2, <2>4 DEF EndFits, AppFits
  <2>6. CASE ~setup.compatible
    <3>1. CASE l.type = "hello"
      <4> DEFINE q == [p EXCEPT !.wire = Tail(@), !.ack = "mismatch", !.down = "ended"]
      <4>1. RejectHello
        BY <1>14, <2>6, <3>1 DEF ProcessLine
      <4>2. pipe' = [pipe EXCEPT ![app.sock] = q]
        BY <1>i, <2>1, <4>1 DEF RejectHello, Answer
      <4>3. q \in Ends /\ q.wire = Tail(p.wire) /\ q.up = p.up /\ q.down = "ended"
        BY <2>1, <2>4 DEF Ends
      <4> HIDE DEF q
      <4>4. /\ app' \in Apps /\ AppFits(app', setup.compatible)
            /\ app'.sock = app.sock /\ ~app'.shook /\ app'.seq = app.seq
        BY <1>i, <2>6, <4>1, HelloRejected DEF RejectHello
      <4> QED BY <1>13, <2>1, <2>6, <4>2, <4>3, <4>4
    <3>2. CASE l.type # "hello"
      <4>1. Drop("unsupportedProtocolVersion")
        BY <1>14, <2>6, <3>2 DEF ProcessLine
      <4> QED BY <1>8, <2>1, <2>6, <4>1 DEF Errors
    <3> QED BY <3>1, <3>2
  <2>7. CASE setup.compatible
    <3>1. RouteMessage(l, [app EXCEPT !.seq = l.seq])
      BY <1>14, <2>2, <2>4, <2>5, <2>7 DEF ProcessLine
    <3>t. ASSUME Takes(app, l, app')
          PROVE  /\ app' \in Apps /\ AppFits(app', setup.compatible)
                 /\ app'.sock = app.sock /\ app'.shook /\ app'.seq = l.seq
      <4>1. setup.compatible = TRUE /\ app.sock # None
        BY <1>i, <2>1, <2>7
      <4>2. AppFits(app, TRUE)
        BY <1>i, <4>1
      <4>3. /\ app' \in Apps /\ AppFits(app', TRUE)
            /\ app'.sock = app.sock /\ app'.shook /\ app'.seq = l.seq
        BY <1>i, <2>4, <3>t, <4>1, <4>2, LineTaken
      <4> QED BY <4>1, <4>3
    <3>2. CASE l.type = "goodbye"
      <4>1. Drop(app.error)
        BY <3>1, <3>2, <1>i DEF RouteMessage, Apps
      <4> QED BY <1>8, <1>9, <2>1, <4>1
    <3>3. CASE l.type = "hello"
      <4> DEFINE q == [p EXCEPT !.wire = Tail(@), !.ack = "accepted"]
      <4>1. /\ app' = [Live([app EXCEPT !.seq = l.seq]) EXCEPT !.shook = TRUE]
            /\ Answer("accepted")
        BY <3>1, <3>3 DEF RouteMessage
      <4>2. pipe' = [pipe EXCEPT ![app.sock] = q]
        BY <1>i, <2>1, <4>1 DEF Answer, Ends
      <4>3. q \in Ends /\ q.wire = Tail(p.wire) /\ q.up = p.up /\ q.down = p.down
        BY <2>1, <2>4 DEF Ends
      <4> HIDE DEF q
      <4>4. /\ app' \in Apps /\ AppFits(app', setup.compatible)
            /\ app'.sock = app.sock /\ app'.shook /\ app'.seq = l.seq
        BY <3>3, <3>t, <4>1 DEF Takes
      <4>5. ~app.shook
        BY <2>5, <2>7, <3>3
      <4> QED BY <1>13, <2>1, <2>5, <2>7, <4>2, <4>3, <4>4, <4>5
    <3>4. CASE l.type \in {"list", "play", "heartbeat"}
      <4> DEFINE q == [p EXCEPT !.wire = Tail(@)]
                 r == [app EXCEPT !.seq = l.seq]
      <4>1. app.shook
        BY <2>5, <2>7, <3>4
      <4>2. /\ \/ l.type = "list" /\ app' = Live(Reconcile([r EXCEPT !.list = l.data]))
               \/ l.type = "play" /\ app' = Live(Reconcile([r EXCEPT !.play = l.data]))
               \/ l.type = "heartbeat" /\ app' = Live(r)
            /\ Take
        BY <3>1, <3>4 DEF RouteMessage
      <4>3. pipe' = [pipe EXCEPT ![app.sock] = q]
        BY <4>2 DEF Take
      <4>4. q \in Ends /\ q.wire = Tail(p.wire) /\ q.up = p.up /\ q.down = p.down
        BY <2>1, <2>4 DEF Ends
      <4> HIDE DEF q
      <4>5. /\ app' \in Apps /\ AppFits(app', setup.compatible)
            /\ app'.sock = app.sock /\ app'.shook /\ app'.seq = l.seq
        BY <3>t, <4>1, <4>2 DEF Takes
      <4> QED BY <1>13, <2>1, <2>7, <4>1, <4>3, <4>4, <4>5
    <3>5. l.type \in {"hello", "list", "play", "heartbeat", "goodbye"}
      BY <2>4 DEF TypedLine, Line
    <3> QED BY <3>2, <3>3, <3>4, <3>5
  <2> QED BY <1>i, <2>6, <2>7
<1> QED BY <1>2, <1>3, <1>4, <1>5, <1>6, <1>11, <1>12, <1>14 DEF EventLoop, AppNext
-----------------------------------------------------------------------------
(* The invariant, and what it says of the bridge.                          *)

LEMMA AimpAtFirst == Playing \in Aimps /\ Empty \in Aimps
<1>1. Empty \in Aimps
  BY BridgeAssumption DEF Empty, Aimps
<1> DEFINE l == CHOOSE l \in Playlist : Contents[l] # {}
           t == CHOOSE t \in Contents[l] : TRUE
<1>2. l \in Playlist /\ Contents[l] # {} /\ Contents[l] \subseteq Track
  BY BridgeAssumption
<1> HIDE DEF l
<1>3. t \in Track
  BY <1>2
<1> HIDE DEF t
<1>4. Playing = [Empty EXCEPT !.active = l, !.of = l, !.item = t]
  BY DEF Playing, l, t
<1> QED BY <1>1, <1>2, <1>3, <1>4 DEF Aimps

LEMMA BridgeInvAtFirst == Init => BridgeInv
<1> SUFFICES ASSUME Init PROVE BridgeInv
  OBVIOUS
<1>1. /\ setup \in Setups /\ setup.changes \in Nat /\ setup.faults \in Nat /\ None \notin Slot
      /\ aimp \in Aimps
  BY AimpAtFirst, BridgeAssumption DEF Init, Setup
<1>2. PluginTypeOK
  BY <1>1, FreshPlugin DEF Init, PluginTypeOK, NewSnap, Snaps
<1>3. trans \in Transports /\ TransFits
  BY FreshPlugin DEF Init, NewTrans, Transports, TransFits
<1>4. /\ pipe \in [Slot -> Ends]
      /\ \A s \in Slot : pipe[s].wire = <<>> /\ ~pipe[s].up /\ pipe[s].down = "closed"
  BY NoLines DEF Init, Closed, Ends
<1>5. /\ app \in Apps /\ app.sock = None /\ ~app.shook /\ app.list = None /\ app.play = None
      /\ app.server = "off" /\ app.error = None
  BY NoError DEF Init, NewApp, Apps
<1>6. AppFits(app, setup.compatible)
  BY <1>5, NoError, NobodyFits
<1>7. trans.slot = None
  BY DEF Init, NewTrans
<1>8. PipesFit
  BY <1>1, <1>4, <1>5, <1>7, NoLines DEF PipesFit, EndFits
<1> QED BY <1>2, <1>3, <1>4, <1>5, <1>6, <1>8 DEF BridgeInv

LEMMA BridgeInvStep == BridgeInv /\ [Next]_vars => BridgeInv'
<1> SUFFICES ASSUME BridgeInv, [Next]_vars PROVE BridgeInv'
  OBVIOUS
<1>1. CASE Next
  <2>1. PluginTypeOK' /\ setup' = setup
    BY <1>1, PluginTypesStep, SetupStays DEF BridgeInv
  <2>2. CASE TransportLoop \/ CoolDown
    <3>1. app' = app
      BY <2>2 DEF TransportLoop, StopDialing, Dial, Accepted, Rejected, Nap, Wake, Goodbye, SendList,
         SendPlay, SendHeartbeat, CoolDown, Transport
    <3> QED BY <2>1, <2>2, <3>1, TransportStep DEF BridgeInv, TransportInv
  <2>3. CASE AimpNext \/ MainNext \/ SnapshotLoop
    BY <2>1, <2>3, MainStep DEF BridgeInv, TransportInv
  <2>4. CASE EventLoop \/ AppNext
    BY <2>1, <2>4, ServiceStep DEF BridgeInv, ServiceInv
  <2> QED BY <1>1, <2>2, <2>3, <2>4 DEF Next
<1>2. CASE UNCHANGED vars
  BY <1>2 DEF vars, BridgeInv, PluginTypeOK, TransFits, PipesFit
<1> QED BY <1>1, <1>2

(* In every behaviour the plugin, the ends of the pipe and the service     *)
(* agree as the invariant says: the rest of what was written is on its way *)
(* in order, above what was read.                                          *)
THEOREM BridgeInvariantHolds == Spec => []BridgeInv
BY BridgeInvAtFirst, BridgeInvStep, PTL DEF Spec

(* Every variable of the bridge has its type, and only the transport       *)
(* thread's instance is open at the plugin's end (RunTransportLoop).       *)
THEOREM BridgeTypesHold == Spec => []BridgeTypeOK
<1>1. BridgeInv => BridgeTypeOK
  <2> SUFFICES ASSUME BridgeInv PROVE BridgeTypeOK
    OBVIOUS
  <2>1. /\ setup \in Setups /\ aimp \in Aimps /\ plug \in Plugs /\ snap \in Snaps
        /\ main \in {"run", "closing", "joinSnapshots", "joinTransport", "gone"}
        /\ changes \in 0 .. setup.changes /\ faults \in 0 .. setup.faults
    BY DEF BridgeInv, PluginTypeOK
  <2>2. /\ trans.pc \in {"dial", "hello", "nap", "loop", "list", "play", "beat", "stopped"}
        /\ trans.slot \in Slot \cup {None}
        /\ trans.pc \notin {"dial", "stopped"} => trans.slot # None
    BY DEF BridgeInv, TransFits, Transports
  <2>3. app \in Apps /\ (app.sock # None => app.sock \in Slot)
    BY DEF BridgeInv, Apps
  <2>4. ASSUME NEW s \in Slot
        PROVE  /\ pipe[s].down \in {"pending", "open", "ended", "closed"}
               /\ \A i \in DOMAIN pipe[s].wire : pipe[s].wire[i] \in Line
               /\ pipe[s].up <=> s = trans.slot
               /\ s = app.sock => pipe[s].down \in {"open", "ended"}
    <3>1. pipe[s] \in Ends /\ EndFits(s, pipe[s], app, trans, setup.compatible)
      BY DEF BridgeInv, PipesFit
    <3>2. pipe[s].wire \in Seq(TypedLine)
      BY <3>1 DEF Ends
    <3>3. \A i \in DOMAIN pipe[s].wire : pipe[s].wire[i] \in TypedLine
      BY <3>2
    <3> QED BY <3>1, <3>3 DEF Ends, EndFits, TypedLine
  <2> QED BY <2>1, <2>2, <2>3, <2>4 DEF BridgeTypeOK, Aimps, Plugs, Snaps, Apps
<1> QED BY <1>1, BridgeInvariantHolds, PTL

(* The service never refuses a line of a plugin of its own version,        *)
(* whatever the instances, changes, faults and restarts                    *)
(* (processProtocolLine, handleClientConnection).                          *)
THEOREM PluginIsNeverRefused == Spec => []PluginIsAccepted
<1>1. BridgeInv => PluginIsAccepted
  BY DEF BridgeInv, AppFits, PluginIsAccepted
<1> QED BY <1>1, BridgeInvariantHolds, PTL

(* What the desktop may stream is of one piece: snapshots only of a        *)
(* connected plugin, the current track in the playlist                     *)
(* (reconcilePlaybackSnapshot..., closeClient).                            *)
THEOREM StreamStaysWhole == Spec => []StreamIsWhole
<1>1. BridgeInv => StreamIsWhole
  BY DEF BridgeInv, AppFits, StreamIsWhole
<1> QED BY <1>1, BridgeInvariantHolds, PTL
=============================================================================
