----------------------------- MODULE PartyViewer -----------------------------
(***************************************************************************)
(* A viewer's page in the browser (CherryPlayWeb: PartyView, useSignalR,   *)
(* signalRService, usePartyState) and the part of the server it talks to   *)
(* (PartyHub.Viewer, StreamingService.GetPartyStateAsync).  The page keeps *)
(* a copy of the party: the display status, whether there is playback, the *)
(* playlist.  It learns of changes from the messages to the party's group, *)
(* from the answers to RequestFullState and over HTTP; the connection      *)
(* breaks, is retried, given up and made again.                            *)
(*                                                                         *)
(* An operation of the organizer and its messages are one step (PartyHub   *)
(* has their interleavings).  Both directions of a connection keep their   *)
(* order, and the server runs a viewer's calls one at a time.  Left out:   *)
(* isSessionActive, which only decorates the playlist, the end of the      *)
(* programme (program_ended) and the merging of positions.                 *)
(***************************************************************************)
EXTENDS DisplayStatus, Naturals, Sequences

CONSTANTS
    None,
    Scenarios,      \* which races may happen together, see below
    MaxOps,         \* bound: operations of the organizer and the admin
    MaxDrops,       \* bound: broken connections, failed calls and fetches
    MaxRacyDrops    \* bound: the same, where there are races

\* "state": something happens between the reading of the party by
\*    RequestFullState and its answer
\* "early": the one-second poll sees the connection before connect() joined
\* "throttle": the playlist changes again within two seconds
\* "http": a fetch fails
\* "refused": the server answers a join with an Error message
\* "deaf": the connection breaks before connect() has joined, and reconnects
Race == {"state", "early", "throttle", "http", "refused", "deaf"}

State == [status : DisplayStatuses, playing : BOOLEAN, list : Nat]
Service == [call : {"join", "rejoin", "state"}, read : State, session : Session \cup {NoSession}]
Fetch == [silent : BOOLEAN, info : BOOLEAN]

ASSUME ViewerAssumption ==
    /\ Scenarios \subseteq SUBSET Race
    /\ MaxOps \in Nat /\ MaxDrops \in Nat /\ MaxRacyDrops \in 0 .. MaxDrops
    /\ None \notin DisplayStatuses \cup Nat
    /\ None \notin Service /\ None \notin Fetch

VARIABLES
    allowed,        \* the races of this behaviour
    party,          \* on the server: life, session, organizer, mark, list
    serving,        \* the viewer's call the server is at, with what it read
    net,            \* the connection: link, group; the service: flag, code
    calls, inbox,   \* messages to the server and to the viewer
    hook,           \* useSignalR: status, and how far connect() is
    page,           \* PartyView and usePartyState
    fetches,        \* playlist fetches under way
    ops, drops

vars == <<allowed, party, serving, net, calls, inbox, hook, page, fetches, ops, drops>>

Message == [kind : {"started", "ended", "reset", "changed", "playlist", "position",
                    "session", "preparation", "online", "offline", "error",
                    "joined", "rejoined"}]
           \cup [kind : {"status"}, status : DisplayStatuses]
           \cup [kind : {"answer"}, state : State]
Msg(kind) == [kind |-> kind]
FullState(mode) == Msg(IF mode = "Session" THEN "session" ELSE "preparation")

StatusOf(p) == Compute(p.life, p.session, FALSE, p.organizer, p.mark)
\* GetPartyStateAsync: a stored session is a playback state, on air or not.
StateOf(p) == [status |-> StatusOf(p), playing |-> p.session # NoSession, list |-> p.list]

ViewerTypeOK ==
    /\ allowed \in Scenarios
    /\ party \in [life : {"Ready", "Completed"}, session : Session \cup {NoSession},
                  organizer : BOOLEAN, mark : {"never", "within", "past"},
                  list : 0 .. MaxOps]
    /\ serving \in Service \cup {None}
    /\ net \in [link : {"off", "up", "retry"}, group : BOOLEAN, flag : BOOLEAN,
                code : BOOLEAN]
    /\ calls \in Seq({"join", "rejoin", "state"})
    /\ \A i \in DOMAIN inbox : inbox[i] \in Message
    /\ hook \in [status : {"disconnected", "connecting", "connected"},
                 stage : {"none", "dial", "settle", "join"},
                 first : BOOLEAN, tried : BOOLEAN]
    /\ page \in [status : DisplayStatuses \cup {None}, playing : BOOLEAN,
                 timer : {"none", "end", "freeze"}, list : 0 .. MaxOps \cup {None},
                 loading : BOOLEAN, error : BOOLEAN, reachable : BOOLEAN,
                 recent : BOOLEAN]
    /\ fetches \in [1 .. 2 -> Fetch \cup {None}]
    /\ ops \in 0 .. MaxOps /\ drops \in 0 .. MaxDrops
    /\ net.link # "up" => calls = <<>> /\ inbox = <<>> /\ serving = None
-----------------------------------------------------------------------------
\* The page is opened before the session or during it.  Mounting it loads the playlist and the party's public data.
Init ==
    /\ allowed \in Scenarios
    /\ \E on \in BOOLEAN :
         party = [life |-> "Ready", organizer |-> on, mark |-> "never", list |-> 0,
                  session |-> IF on THEN Started(NoSession, TRUE) ELSE NoSession]
    /\ serving = None
    /\ net = [link |-> "off", group |-> FALSE, flag |-> FALSE, code |-> FALSE]
    /\ calls = <<>> /\ inbox = <<>>
    /\ hook = [status |-> "disconnected", stage |-> "none", first |-> FALSE,
               tried |-> FALSE]
    /\ page = [status |-> None, playing |-> FALSE, timer |-> "none", list |-> None,
               loading |-> TRUE, error |-> FALSE, reachable |-> TRUE, recent |-> TRUE]
    /\ fetches = [i \in 1 .. 2 |->
         IF i = 1 THEN [silent |-> FALSE, info |-> TRUE] ELSE None]
    /\ ops = 0 /\ drops = 0

Fault == drops < (IF allowed = {} THEN MaxDrops ELSE MaxRacyDrops) /\ drops' = drops + 1
-----------------------------------------------------------------------------
(* The organizer and the admin: a new state of the party and what the       *)
(* group hears of it.                                                       *)

Pending(kind) == \E i \in DOMAIN inbox : inbox[i].kind = kind

Become(new, messages) ==
    /\ serving # None /\ serving.call = "state" => "state" \in allowed
    /\ party' = new
    /\ inbox' = IF net.group THEN inbox \o messages ELSE inbox
    /\ UNCHANGED <<allowed, serving, net, calls, hook, page, fetches, drops>>

Operation(new, messages) ==
    /\ ops < MaxOps /\ ops' = ops + 1
    /\ Become(new, messages)

WithStatus(new, messages) ==
    Operation(new, messages \o <<[kind |-> "status", status |-> StatusOf(new)]>>)

Snapshots == {[mode |-> m, status |-> "Playing", started |-> TRUE, marks |-> TRUE] : m \in Mode}

Organize ==
    /\ party.organizer
    /\ \/ WithStatus([party EXCEPT !.session = Started(@, TRUE)], <<Msg("started")>>)
       \/ WithStatus([party EXCEPT !.session = IF @ = NoSession THEN @ ELSE Ended(@)],
                     <<Msg("ended")>>)
       \/ WithStatus([party EXCEPT !.session = Cleared(@)], <<Msg("ended"), Msg("reset")>>)
       \/ \E dto \in Snapshots :
            WithStatus([party EXCEPT !.session = Published(@, dto)], <<FullState(dto.mode)>>)
       \/ party.session # NoSession
          /\ Operation([party EXCEPT !.session = Positioned(@)], <<Msg("position")>>)

OrganizerJoins ==
    WithStatus([party EXCEPT !.organizer = TRUE, !.mark = "never"],
               <<Msg("online")>>)
OrganizerLeaves ==
    /\ party.organizer
    /\ WithStatus([party EXCEPT !.organizer = FALSE, !.mark = "within"],
                  <<Msg("offline")>>)
\* The grace task announces that the organizer did not come back.
GraceEnds ==
    LET new == [party EXCEPT !.mark = "past"] IN
    /\ party.mark = "within"
    /\ Become(new, <<[kind |-> "status", status |-> StatusOf(new)]>>)
    /\ UNCHANGED ops

\* An administrator completes the party: OnStateChanged.
Complete ==
    /\ party.life = "Ready"
    /\ Operation([party EXCEPT !.life = "Completed"], <<Msg("changed")>>)

\* PUT of the playlist: UpdatePartyPlaylistAsync and its notifier.
SavePlaylist ==
    /\ net.group => "throttle" \in allowed \/ ~(page.recent \/ Pending("playlist"))
    /\ Operation([party EXCEPT !.list = @ + 1], <<Msg("playlist")>>)
-----------------------------------------------------------------------------
(* The server's side of the viewer's calls.                                 *)

\* GetPartyStateAsync reads the party.
Read ==
    /\ serving = None /\ calls # <<>>
    /\ serving' = [call |-> Head(calls), read |-> StateOf(party), session |-> party.session]
    /\ calls' = Tail(calls)
    /\ UNCHANGED <<allowed, party, net, inbox, hook, page, fetches, ops, drops>>

IsJoin == serving # None /\ serving.call # "state"
Completion == Msg(IF serving.call = "join" THEN "joined" ELSE "rejoined")

\* JoinPartyAsViewer: into the group, then the caller gets the playback.
AnswerJoin ==
    /\ IsJoin
    /\ net' = [net EXCEPT !.group = TRUE]
    /\ inbox' = inbox \o
         (IF serving.session = NoSession THEN <<>>
          ELSE <<FullState(serving.session.mode)>>) \o <<Completion>>
    /\ serving' = None
    /\ UNCHANGED <<allowed, party, calls, hook, page, fetches, ops, drops>>

\* Any exception in it becomes an Error message; the call itself succeeds.
RefuseJoin ==
    /\ IsJoin /\ "refused" \in allowed /\ Fault
    /\ inbox' = inbox \o <<Msg("error"), Completion>>
    /\ serving' = None
    /\ UNCHANGED <<allowed, party, net, calls, hook, page, fetches, ops>>

AnswerState ==
    /\ serving # None /\ ~IsJoin
    /\ inbox' = Append(inbox, [kind |-> "answer", state |-> serving.read])
    /\ serving' = None
    /\ UNCHANGED <<allowed, party, net, calls, hook, page, fetches, ops, drops>>
-----------------------------------------------------------------------------
(* The page's reactions.  requestFullState clears the session timers and    *)
(* calls the server, if there is a connection; two calls in a row count as  *)
(* one.                                                                     *)

PageAsking(p, asks) == IF asks /\ net.link = "up" THEN [p EXCEPT !.timer = "none"] ELSE p
CallsAsking(asks) ==
    IF asks /\ net.link = "up" /\ (calls = <<>> \/ calls[Len(calls)] # "state")
    THEN Append(calls, "state") ELSE calls

\* What a message makes of the page.
PageAfter(m, p) ==
    CASE m.kind \in {"started", "online"} -> [p EXCEPT !.timer = "none"]
      [] m.kind = "offline" -> [p EXCEPT !.timer = "freeze"]
      [] m.kind = "ended" -> [p EXCEPT !.timer = "end", !.status = "StartingSoon"]
      [] m.kind = "reset" ->
           [p EXCEPT !.timer = "none", !.playing = FALSE, !.status = "StartingSoon"]
      [] m.kind = "session" -> [p EXCEPT !.timer = "none", !.playing = TRUE]
      [] m.kind = "preparation" -> [p EXCEPT !.timer = "none", !.playing = FALSE]
      [] m.kind = "position" -> [p EXCEPT !.playing = TRUE]
      [] m.kind = "status" -> [p EXCEPT !.status = m.status]
      [] m.kind = "error" -> [p EXCEPT !.error = TRUE, !.reachable = FALSE]
      [] m.kind = "answer" ->
           [p EXCEPT !.status = m.state.status, !.list = m.state.list,
                     !.playing = @ \/ m.state.playing]
      [] OTHER -> p

\* Mutants: not when the party changes, not when the organizer is back.
AsksUnlessChanged(m) == m.kind \in {"started", "online"}
AsksUnlessOnline(m) == m.kind \in {"started", "changed"}

\* The messages that make it ask for the full state.
Asks(m) == m.kind \in {"started", "changed", "online"}

FreeSlot(i) == fetches[i] = None
StartFetch(silent) ==
    \E i \in 1 .. 2, info \in BOOLEAN :
        /\ FreeSlot(i)
        /\ fetches' = [fetches EXCEPT ![i] = [silent |-> silent, info |-> info]]

Deliver(m) ==
    /\ inbox # <<>> /\ m = Head(inbox) /\ inbox' = Tail(inbox)
    /\ UNCHANGED <<allowed, party, serving, net, ops, drops>>

Receive ==
    \E m \in {inbox[i] : i \in DOMAIN inbox} :
        /\ Deliver(m) /\ m.kind \notin {"playlist", "joined"}
        /\ page' = PageAsking(PageAfter(m, page), Asks(m))
        /\ calls' = CallsAsking(Asks(m))
        /\ UNCHANGED <<hook, fetches>>

\* loadPlaylist({ silent: true }): nothing within two seconds of the last.
PlaylistChanged ==
    /\ Deliver(Msg("playlist"))
    /\ IF page.recent
       THEN UNCHANGED <<page, fetches>>
       ELSE StartFetch(TRUE) /\ page' = [page EXCEPT !.recent = TRUE]
    /\ UNCHANGED <<calls, hook>>

\* connect() resolves.  The full state is asked for if the status becomes
\* connected by it, and in any case after the first connect.
Joined ==
    /\ Deliver(Msg("joined"))
    /\ LET asks == hook.first \/ hook.status # "connected" IN
         /\ page' = PageAsking(page, asks)
         /\ calls' = CallsAsking(asks)
    /\ hook' = [hook EXCEPT !.status = "connected", !.stage = "none", !.first = FALSE]
    /\ UNCHANGED fetches

\* The session-end grace and the freeze run out.
TimerFires ==
    /\ page.timer # "none"
    /\ page' = [page EXCEPT !.timer = "none", !.playing = FALSE]
    /\ UNCHANGED <<allowed, party, serving, net, calls, inbox, hook, fetches, ops, drops>>
-----------------------------------------------------------------------------
(* usePartyState: fetches over HTTP.                                        *)

UnchangedButPage == UNCHANGED <<allowed, party, serving, net, calls, inbox, hook, ops>>

\* The playlist arrives, and the party's public data if they were asked for.
FetchDone(i) ==
    /\ ~FreeSlot(i)
    /\ page' = [page EXCEPT
         !.list = party.list,
         !.status = IF fetches[i].info THEN StatusOf(party) ELSE @,
         !.loading = @ /\ fetches[i].silent]
    /\ fetches' = [fetches EXCEPT ![i] = None]
    /\ UNCHANGED drops /\ UnchangedButPage

FetchFails(i) ==
    /\ "http" \in allowed /\ ~FreeSlot(i) /\ Fault
    /\ page' = [page EXCEPT !.error = TRUE, !.reachable = FALSE,
                            !.loading = @ /\ fetches[i].silent]
    /\ fetches' = [fetches EXCEPT ![i] = None]
    /\ UnchangedButPage

TwoSecondsPass ==
    /\ page.recent /\ \A i \in 1 .. 2 : FreeSlot(i)
    /\ page' = [page EXCEPT !.recent = FALSE]
    /\ UNCHANGED <<fetches, drops>> /\ UnchangedButPage

\* The error message offers to try again: loadPlaylist().
Retry ==
    /\ page.error /\ ~page.loading
    /\ "throttle" \in allowed \/ ~Pending("playlist")
    /\ StartFetch(FALSE)
    /\ page' = [page EXCEPT !.loading = TRUE, !.error = FALSE, !.reachable = TRUE,
                            !.recent = TRUE]
    /\ UNCHANGED drops /\ UnchangedButPage
-----------------------------------------------------------------------------
(* useSignalR.connect and signalRService.                                   *)

UnchangedByNet == UNCHANGED <<allowed, party, fetches, ops>>

\* connect() of the service returns at once if it believes it is connected.
BeginConnect(first) ==
    /\ hook' = [status |-> "connecting", stage |-> IF net.flag THEN "settle" ELSE "dial",
                first |-> first, tried |-> TRUE]
    /\ UNCHANGED <<serving, net, calls, inbox, page, drops>> /\ UnchangedByNet

FirstConnect ==
    /\ ~hook.tried /\ ~page.loading
    /\ BeginConnect(TRUE)

\* Mutant: only after a connection that came about.
PeriodicConnectAfterLink ==
    /\ hook.status = "disconnected" /\ hook.stage = "none" /\ net.code
    /\ BeginConnect(FALSE)

\* RECONNECT_INTERVAL_MS, while the status is disconnected.
PeriodicConnect ==
    /\ hook.tried /\ hook.status = "disconnected" /\ hook.stage = "none"
    /\ BeginConnect(FALSE)

Failed(h) == [h EXCEPT !.status = "disconnected", !.stage = "none", !.first = FALSE]
PageFailed == [page EXCEPT !.error = @ \/ hook.first]

Dial ==
    /\ hook.stage = "dial"
    /\ net' = [net EXCEPT !.link = "up", !.flag = TRUE, !.group = FALSE]
    /\ hook' = [hook EXCEPT !.stage = "settle"]
    /\ UNCHANGED <<serving, calls, inbox, page, drops>> /\ UnchangedByNet

DialFails ==
    /\ hook.stage = "dial" /\ Fault
    /\ hook' = Failed(hook) /\ page' = PageFailed
    /\ UNCHANGED <<serving, net, calls, inbox>> /\ UnchangedByNet

\* After half a second: join, if there is a connection.
Settle ==
    /\ hook.stage = "settle"
    /\ IF net.link = "up"
       THEN /\ calls' = Append(calls, "join")
            /\ net' = [net EXCEPT !.code = TRUE]
            /\ hook' = [hook EXCEPT !.stage = "join"]
            /\ UNCHANGED page
       ELSE /\ hook' = Failed(hook) /\ page' = PageFailed
            /\ UNCHANGED <<calls, net>>
    /\ UNCHANGED <<serving, inbox, drops>> /\ UnchangedByNet

\* The connection breaks: the calls in progress are rejected.
Drop ==
    /\ net.link = "up" /\ Fault
    /\ net.code \/ "deaf" \in allowed
    /\ net' = [net EXCEPT !.link = "retry", !.group = FALSE]
    /\ calls' = <<>> /\ inbox' = <<>> /\ serving' = None
    /\ IF hook.stage = "join"
       THEN hook' = Failed(hook) /\ page' = PageFailed
       ELSE UNCHANGED <<hook, page>>
    /\ UnchangedByNet

\* Mutant: the party is not joined again.
ReconnectedAlone ==
    /\ net.link = "retry" /\ hook.status # "connected"
    /\ net' = [net EXCEPT !.link = "up", !.flag = TRUE]
    /\ UNCHANGED <<serving, calls, inbox, hook, page, drops>> /\ UnchangedByNet

\* The first automatic retry is after three seconds: the poll was faster.
Reconnected ==
    /\ net.link = "retry" /\ hook.status # "connected"
    /\ net' = [net EXCEPT !.link = "up", !.flag = TRUE]
    /\ calls' = IF net.code THEN Append(calls, "rejoin") ELSE calls
    /\ UNCHANGED <<serving, inbox, hook, page, drops>> /\ UnchangedByNet

GiveUp ==
    /\ net.link = "retry" /\ hook.status # "connected" /\ Fault
    /\ net' = [net EXCEPT !.link = "off", !.flag = FALSE]
    /\ UNCHANGED <<serving, calls, inbox, hook, page>> /\ UnchangedByNet

\* Mutant: nothing is asked for.
PollAlone ==
    /\ \/ /\ net.link = "up" /\ hook.status # "connected" /\ hook.stage = "none"
          /\ hook' = [hook EXCEPT !.status = "connected"]
       \/ /\ net.link # "up" /\ hook.status = "connected"
          /\ hook' = [hook EXCEPT !.status = "disconnected"]
    /\ UNCHANGED <<serving, net, calls, inbox, page, drops>> /\ UnchangedByNet

\* checkConnection, every second; becoming connected asks for the state.
Poll ==
    /\ \/ /\ net.link = "up" /\ hook.status # "connected"
          /\ hook.stage = "none" \/ "early" \in allowed
          /\ hook' = [hook EXCEPT !.status = "connected"]
       \/ /\ net.link # "up" /\ hook.status = "connected"
          /\ hook' = [hook EXCEPT !.status = "disconnected"]
    /\ page' = PageAsking(page, hook'.status = "connected")
    /\ calls' = CallsAsking(hook'.status = "connected")
    /\ UNCHANGED <<serving, net, inbox, drops>> /\ UnchangedByNet

Server == Read \/ AnswerJoin \/ AnswerState
Browser == Receive \/ PlaylistChanged \/ Joined
Connecting == FirstConnect \/ PeriodicConnect \/ Dial \/ Settle

Next ==
    \/ Organize \/ OrganizerJoins \/ OrganizerLeaves \/ GraceEnds \/ Complete
    \/ SavePlaylist
    \/ Server \/ RefuseJoin
    \/ Browser \/ TimerFires
    \/ \E i \in 1 .. 2 : FetchDone(i) \/ FetchFails(i)
    \/ TwoSecondsPass \/ Retry
    \/ Connecting \/ DialFails \/ Drop \/ Reconnected \/ GiveUp \/ Poll

Spec == Init /\ [][Next]_vars

\* The server and the browser go on, attempts to connect are made and end.
Fairness ==
    /\ WF_vars(Server) /\ WF_vars(Browser)
    /\ \A i \in 1 .. 2 : WF_vars(FetchDone(i))
    /\ WF_vars(Connecting) /\ WF_vars(Reconnected \/ GiveUp) /\ WF_vars(Poll)

FairSpec == Spec /\ Fairness
-----------------------------------------------------------------------------
(* Properties. *)

\* mergePartyViewerStatus and resolveShowPlayerByStatus.
ViewerStatus ==
    IF page.status = "PartyEnded" THEN "PartyEnded"
    ELSE IF ~page.reachable \/ hook.status = "disconnected" THEN "server_unreachable"
    ELSE IF page.status = None
         THEN IF hook.status = "connecting" THEN "connecting" ELSE "Scheduled"
         ELSE page.status
ShowsPlayer ==
    /\ ViewerStatus # "server_unreachable"
    /\ ViewerStatus \in {"Live", "OrganizerOffline"} \/ (page.timer = "freeze" /\ page.playing)

\* Connected, and nothing is on its way.
Quiet ==
    /\ net.link = "up" /\ hook.status = "connected" /\ hook.stage = "none"
    /\ calls = <<>> /\ inbox = <<>> /\ serving = None
    /\ \A i \in 1 .. 2 : FreeSlot(i)

Without(races) == allowed \cap races = {}
\* The first join was neither refused nor skipped.
Reached == Without({"refused", "deaf"})

(* A page that is connected hears of the party: it is in the group, however *)
(* the connection broke and came back.                                      *)
ConnectedMeansJoined == (Quiet /\ Reached) => net.group

(* When nothing is on its way, the page shows the party's status and its    *)
(* playlist: no answer overtook a message, and what was missed while the    *)
(* connection was broken has been asked for.                                *)
QuietPageIsRight ==
    (Quiet /\ allowed = {}) => page.status = StatusOf(party) /\ page.list = party.list

(* The timers of the organizer's absence or of an earlier session do not    *)
(* take the playback from a live party.                                     *)
LiveHasPlayback ==
    (/\ Quiet /\ Reached /\ Without({"early"})
     /\ party.organizer /\ StatusOf(party) = "Live") => page.playing

(* A page whose timers have run out shows no player once the session is     *)
(* over.                                                                    *)
NoPlayerOffAir ==
    (/\ Quiet /\ Reached /\ Without({"early", "state"})
     /\ page.timer = "none" /\ ~HasEffectiveActiveSession(party.session))
        => ~ShowsPlayer

(* However often the connection breaks, in the end the viewer is connected  *)
(* and in the group again.                                                  *)
ComesBack == <>[](Reached => hook.status = "connected" /\ net.group)

(* "When the playlist is PUT the server sends viewers OnPlaylistChanged;    *)
(* changes of the playlist and of the session go live": a viewer who missed *)
(* no message and whose fetches succeed shows the party's playlist.         *)
PlaylistIsLive == (Quiet /\ allowed \subseteq {"throttle"}) => page.list = party.list
=============================================================================
