------------------------ MODULE StreamingOrchestrator ------------------------
(***************************************************************************)
(* The desktop's StreamingOrchestrator on its SignalR client: connecting,  *)
(* joining, starting and ending a party's session, recovery, teardown.     *)
(*                                                                         *)
(* JavaScript runs one callback at a time, so a step is a callback: it     *)
(* starts at a user's or a timer's call or at the answer to an await and   *)
(* runs to the next await.  What the object and its promises hold is the   *)
(* record "desk"; a method is an operator from desk to desk.               *)
(*                                                                         *)
(* Generations are only compared with the present one: what belongs to an  *)
(* older generation is marked (fresh = FALSE) or, where the code returns   *)
(* without an effect, forgotten.  Attempts keep their numbers.             *)
(*                                                                         *)
(* The hub runs a connection's invocations one after the other and answers *)
(* them in that order (SignalR's default), so those under way are a        *)
(* sequence.  It reports errors as messages: an invocation is rejected     *)
(* only when its connection goes.                                          *)
(***************************************************************************)
EXTENDS DisplayStatus, Naturals, SequencesExt

CONSTANTS
  Party,
  NoParty,            \* no party joined
  NoConfig,           \* the orchestrator is not running
  Scenarios           \* what users and the network do, and the bound how often

VARIABLES
  scenario,           \* the scenario of this behaviour
  desk,               \* orchestrator and SignalR client
  session,            \* the parties' sessions on the server
  joined,             \* the party the hub has this desktop down for
  sourceLive,         \* isLiveSessionActive of the two broadcast sources
  disturbances

streamingVars == <<scenario, desk, session, joined, sourceLive, disturbances>>

Source == {"cherryPlayPlayer", "aimp"}
Config == [party : Party, source : Source]

Users == {"Start", "Stop", "Reconnect", "GoLive", "StopLive", "NewProject"}
Network == {"Missing", "CheckFailure", "DialFailure", "Loss", "Timeout"}

ASSUME StreamingAssumption ==
  /\ Scenarios \subseteq [kinds : SUBSET (Users \cup Network), times : Nat,
                           parties : SUBSET Party]
  /\ NoParty \notin Party
  /\ NoConfig \notin Config

-----------------------------------------------------------------------------
(* The state of the desktop.                                               *)

(* An invocation of the hub, or what is left of it on the desktop: who     *)
(* waits for it (waiter), the attempt a StartSession is, or whose session  *)
(* an EndSession ends, and what it publishes.                              *)
Invocation(op, p, waiter) ==
  [op |-> op, party |-> p, waiter |-> waiter, attempt |-> 0,
   fresh |-> TRUE, timedOut |-> FALSE, live |-> FALSE]

Invocations ==
  [op : {"Join", "Start", "End", "Reset", "Notify", "Publish"}, party : Party,
   waiter : {"connect", "sync", "late", "teardown", "publish", "rejoin",
             "stop", "newProject", "nobody"},
   attempt : Nat, fresh : BOOLEAN, timedOut : BOOLEAN, live : BOOLEAN]

(* A teardown in lifecycleTail with what it found when it was called.      *)
Teardowns ==
  [party : Party, hadLive : BOOLEAN, owner : Nat, attempt : Nat,
   pending : BOOLEAN, started : BOOLEAN, fresh : BOOLEAN,
   at : {"queued", "waiting", "ending", "ended", "resetting"}]

(* A start that timed out and arrived; it ends once the newer one fails.   *)
Late == [party : Party, attempt : Nat, fresh : BOOLEAN, newer : Nat]

Steps == {"idle", "checking", "dialing", "joining", "starting", "syncing"}
Links == {"none", "preparing", "starting", "connected", "reconnecting"}

Desk ==
  [config : Config \cup {NoConfig}, step : Steps, ready : BOOLEAN, blocked : BOOLEAN,
   timer : BOOLEAN, liveSession : BOOLEAN, subscribed : BOOLEAN,
   coalescing : BOOLEAN, behind : BOOLEAN, lastAttempt : Nat, inFlight : Nat,
   active : [Party -> Nat], handled : SUBSET Nat, late : SUBSET Late,
   lifecycle : Seq(Teardowns), link : Links, dials : BOOLEAN,
   currentParty : Party \cup {NoParty}, wire : Seq(Invocations)]

InitialDesk ==
  [config |-> NoConfig, step |-> "idle", ready |-> FALSE, blocked |-> FALSE,
   timer |-> FALSE, liveSession |-> FALSE, subscribed |-> FALSE,
   coalescing |-> FALSE, behind |-> FALSE, lastAttempt |-> 0, inFlight |-> 0,
   active |-> [p \in Party |-> 0], handled |-> {}, late |-> {},
   lifecycle |-> <<>>, link |-> "none", dials |-> FALSE,
   currentParty |-> NoParty, wire |-> <<>>]

Running(d) == d.config # NoConfig
Connected(d) == d.link = "connected"
Invoke(d, i) == [d EXCEPT !.wire = Append(@, i)]

(* The orchestrator's source is on air, or its party p's.                  *)
Live(d) == Running(d) /\ sourceLive[d.config.source]
Requested(d, p) == Live(d) /\ d.config.party = p

(* sessionStartInFlight is for this party.                                 *)
StartPending(d, p) ==
  \E k \in DOMAIN d.wire :
    /\ d.wire[k].op = "Start"
    /\ d.wire[k].attempt = d.inFlight
    /\ d.wire[k].party = p

ScheduleReconnect(d) == [d EXCEPT !.timer = @ \/ Running(d)]

(* Mutant: a failed attempt is the last one.                               *)
ConnectFailsForGood(d) ==
  [d EXCEPT !.step = "idle", !.dials = FALSE, !.ready = FALSE]

(* The catch of doConnectAndSubscribe.                                     *)
ConnectFails(d) ==
  ScheduleReconnect([d EXCEPT !.step = "idle", !.dials = FALSE, !.ready = FALSE])

(* Mutant: a failed publication is not tried again.                        *)
PublishFailsQuietly(d) == [d EXCEPT !.ready = FALSE]

PublishFails(d) == ScheduleReconnect([d EXCEPT !.ready = FALSE])

-----------------------------------------------------------------------------
(* Ending a session.  signalRService.endSession does not fail: without a   *)
(* connection, or when it is lost, the promise resolves all the same.      *)

EndReturned(d, i) ==
  LET c == [d EXCEPT !.active[i.party] =
                       IF i.attempt # 0 /\ @ = i.attempt THEN 0 ELSE @]
  IN CASE i.waiter = "late" /\ i.fresh -> ScheduleReconnect(c)
       [] i.waiter = "teardown" ->
            [c EXCEPT !.lifecycle[1].at = "ended",
                      !.handled = @ \cup ({d.lifecycle[1].attempt} \ {0})]
       [] OTHER -> c

EndSession(d, i) == IF Connected(d) THEN Invoke(d, i) ELSE EndReturned(d, i)

EndOf(p, owner, waiter) == [Invocation("End", p, waiter) EXCEPT !.attempt = owner]

(* endLateTimedOutSession for each of these starts that came too late,     *)
(* unless its party has a newer session.                                   *)
EndLate(d, starts) ==
  LET tooLate == {l \in starts : d.active[l.party] <= l.attempt}
      order == SetToSeq(tooLate)
      ends == [k \in DOMAIN order |->
                 [EndOf(order[k].party, 0, "late") EXCEPT !.fresh = order[k].fresh]]
  IN CASE Connected(d) -> [d EXCEPT !.wire = @ \o ends]
       [] ~Connected(d) /\ (\E l \in tooLate : l.fresh) -> ScheduleReconnect(d)
       [] OTHER -> d

-----------------------------------------------------------------------------
(* Starting a session.                                                     *)

StartSession(d, p, waiter) ==
  IF StartPending(d, p)
  THEN [d EXCEPT !.wire =
          [k \in DOMAIN @ |->
             IF @[k].op = "Start" /\ @[k].attempt = d.inFlight /\ waiter = "sync"
             THEN [@[k] EXCEPT !.waiter = waiter] ELSE @[k]]]
  ELSE LET a == d.lastAttempt + 1 IN
       Invoke([d EXCEPT !.lastAttempt = a, !.inFlight = a],
              [Invocation("Start", p, waiter) EXCEPT !.attempt = a])

(* Mutant: a teardown that waits for the start does not learn of its end.  *)
SettleForgets(d, a, started) == [d EXCEPT !.inFlight = IF @ = a THEN 0 ELSE @]

(* The promise of attempt a is settled for those who wait for it.          *)
Settle(d, a, started) ==
  [d EXCEPT !.inFlight = IF @ = a THEN 0 ELSE @,
            !.lifecycle = [k \in DOMAIN @ |->
               IF @[k].pending /\ @[k].attempt = a
               THEN [@[k] EXCEPT !.pending = FALSE, !.started = started] ELSE @[k]]]

(* It fails: its connection is lost, or eight seconds are over.            *)
StartFails(d, i) ==
  LET waiting == {l \in d.late : l.newer = i.attempt}
      c == Settle([d EXCEPT !.late = @ \ waiting], i.attempt, FALSE)
      e == EndLate(c, waiting)
      isAwaited == d.step = "starting" /\ d.inFlight = i.attempt
  IN CASE isAwaited -> ConnectFails(e)
       [] ~isAwaited /\ i.waiter = "sync" -> PublishFails(e)
       [] OTHER -> e

(* Mutant: a late start is ended without a look at the newer one.          *)
StartArrivesImpatient(d, i) ==
  IF i.timedOut THEN EndLate(d, {i}) ELSE [d EXCEPT !.active[i.party] = i.attempt]

(* startRequest.then: what the orchestrator makes of a start that worked.  *)
StartArrives(d, i) ==
  IF i.attempt \in d.handled
  THEN [d EXCEPT !.handled = @ \ {i.attempt}]
  ELSE IF ~i.timedOut
  THEN LET c == [d EXCEPT !.active[i.party] = i.attempt] IN
       IF Requested(d, i.party) \/ d.inFlight = i.attempt
       THEN c ELSE EndSession(c, EndOf(i.party, i.attempt, "nobody"))
  ELSE IF d.active[i.party] <= i.attempt /\ StartPending(d, i.party) /\ d.inFlight > i.attempt
  THEN [d EXCEPT !.late = @ \cup {[party |-> i.party, attempt |-> i.attempt,
                                   fresh |-> i.fresh, newer |-> d.inFlight]}]
  ELSE EndLate(d, {i})

-----------------------------------------------------------------------------
(* Publishing the full state: NotifyStateChanged, then UpdateFullState     *)
(* with the state read before.  AIMP publishes only while it is live.      *)

NothingToPublish(d) == d.config.source = "aimp" /\ ~Live(d)

Publish(d, waiter) ==
  Invoke(d, [Invocation("Notify", d.config.party, waiter) EXCEPT !.live = Live(d)])

BecomeReady(d) == [d EXCEPT !.step = "idle", !.timer = FALSE, !.ready = TRUE]

(* A turn of synchronizeLatestState.                                       *)
Synchronize(d) ==
  LET c == [d EXCEPT !.step = "syncing", !.behind = FALSE] IN
  IF NothingToPublish(d) THEN BecomeReady(c) ELSE Publish(c, "connect")

-----------------------------------------------------------------------------
(* doConnectAndSubscribe, from await to await.                             *)

Connect(d) ==
  IF d.step # "idle" THEN d
  ELSE [d EXCEPT !.step = "checking", !.timer = FALSE, !.blocked = FALSE]

JoinParty(d) ==
  Invoke([d EXCEPT !.step = "joining", !.dials = FALSE],
         Invocation("Join", d.config.party, "connect"))

(* signalRService.connect: wait for the dial under way, or dial.           *)
Dial(d) ==
  LET dialing == d.link \in {"preparing", "starting"} IN
  [d EXCEPT !.step = "dialing", !.dials = ~dialing,
            !.link = IF dialing THEN @ ELSE "preparing"]

Joined(d) ==
  LET c == [d EXCEPT !.subscribed = TRUE] IN
  IF Live(d) /\ ~d.liveSession
  THEN StartSession([c EXCEPT !.step = "starting"], d.config.party, "nobody")
  ELSE Synchronize([c EXCEPT !.liveSession = @ /\ Live(d)])

(* The promise of a start that was not given up resolves for its waiters.  *)
StartSucceeds(d, i) ==
  LET c == StartArrives(d, i)
      e == [Settle(c, i.attempt, TRUE) EXCEPT
              !.late = {l \in @ : l.newer # i.attempt},
              !.liveSession = @ \/ i.waiter = "sync"]
  IN CASE i.timedOut -> c
       [] ~i.timedOut /\ d.step = "starting" /\ d.inFlight = i.attempt ->
            Synchronize([e EXCEPT !.liveSession = TRUE])
       [] OTHER -> e

(* Nobody of the new generation waits for this invocation.                 *)
Orphaned(i) ==
  [i EXCEPT !.fresh = FALSE,
            !.waiter = IF @ \in {"connect", "sync", "publish"} THEN "nobody" ELSE @]

(* recover: a new generation, unless the present attempt will do.          *)
Superseded(d) ==
  [d EXCEPT
     !.step = "idle",
     !.dials = FALSE,
     !.late = {[l EXCEPT !.fresh = FALSE] : l \in @},
     !.lifecycle = [k \in DOMAIN @ |-> [@[k] EXCEPT !.fresh = FALSE]],
     !.wire = [k \in DOMAIN @ |-> Orphaned(@[k])]]

Recover(d, supersede) ==
  IF ~Running(d) \/ (d.step # "idle" /\ ~supersede)
  THEN d
  ELSE Connect([Superseded(d) EXCEPT !.ready = FALSE, !.timer = FALSE])

StopInternal(d) ==
  [Superseded(d) EXCEPT !.ready = FALSE, !.liveSession = FALSE, !.timer = FALSE,
                        !.coalescing = FALSE, !.subscribed = FALSE]

(* teardown takes down what it finds and queues the rest.                  *)
TakeDown(d, isLive) ==
  LET p == d.config.party
      pending == StartPending(d, p)
  IN [StopInternal(d) EXCEPT
       !.config = NoConfig,
       !.lifecycle = Append(@,
          [party |-> p, hadLive |-> d.liveSession \/ isLive, owner |-> d.active[p],
           pending |-> pending, attempt |-> IF pending THEN d.inFlight ELSE 0,
           started |-> FALSE, fresh |-> TRUE, at |-> "queued"])]

-----------------------------------------------------------------------------
(* The connection goes: every invocation under way is rejected, and the    *)
(* hub still carries out some of them, the first ones.                     *)

Reject(d, i) ==
  CASE i.op = "Start" /\ ~i.timedOut -> StartFails(d, i)
    [] i.op = "End" /\ i.waiter # "newProject" -> EndReturned(d, i)
    [] i.op = "Reset" /\ i.waiter = "teardown" ->
         [d EXCEPT !.lifecycle = Tail(@)]
    [] i.op \in {"Join", "Notify", "Publish"} /\ i.waiter = "connect" ->
         ConnectFails(d)
    [] i.op \in {"Notify", "Publish"} /\ i.waiter = "publish" -> PublishFails(d)
    [] OTHER -> d

(* Mutant: the invocations under way are never rejected.                   *)
CloseSilently(d, link) == [d EXCEPT !.link = link, !.wire = <<>>]

CloseConnection(d, link) ==
  LET rejected[k \in 0 .. Len(d.wire)] ==
        IF k = 0 THEN [d EXCEPT !.link = link, !.wire = <<>>]
        ELSE Reject(rejected[k - 1], d.wire[k])
  IN rejected[Len(d.wire)]

(* signalRService.disconnect; a dial that has no connection yet goes on.   *)
Disconnect(d) ==
  LET link == IF d.link = "preparing" THEN d.link ELSE "none" IN
  [CloseConnection(d, link) EXCEPT !.currentParty = NoParty]

Dto(live) ==
  [mode |-> IF live THEN "Session" ELSE "Preparation",
   status |-> IF live THEN "Playing" ELSE "Idle",
   started |-> FALSE, marks |-> FALSE]

(* What the hub makes of the sessions.                                     *)
Carry(s, i) ==
  LET p == i.party IN
  CASE i.op = "Start" -> [s EXCEPT ![p] = Started(@, TRUE)]
    [] i.op = "End" /\ s[p] # NoSession -> [s EXCEPT ![p] = Ended(@)]
    [] i.op = "Reset" -> [s EXCEPT ![p] = Cleared(@)]
    [] i.op = "Publish" -> [s EXCEPT ![p] = Published(@, Dto(i.live))]
    [] OTHER -> s

(* What a connection that goes may leave of them: the hub still carries    *)
(* out the first of the invocations under way.                             *)
CarriedSome(s, w) ==
  LET carried[k \in 0 .. Len(w)] ==
        IF k = 0 THEN s ELSE Carry(carried[k - 1], w[k])
  IN {carried[n] : n \in 0 .. Len(w)}

ServerLoses ==
  /\ session' \in CarriedSome(session, desk.wire)
  /\ joined' = NoParty

-----------------------------------------------------------------------------
(* Users, stores and the network.                                          *)

Init ==
  /\ scenario \in Scenarios
  /\ desk = InitialDesk
  /\ session = [p \in Party |-> NoSession]
  /\ joined = NoParty
  /\ sourceLive \in [Source -> BOOLEAN]
  /\ disturbances = 0

Disturbed(kind) ==
  /\ kind \in scenario.kinds
  /\ disturbances < scenario.times
  /\ disturbances' = disturbances + 1
  /\ UNCHANGED scenario

Start(c) ==
  /\ Disturbed("Start")
  /\ c.party \in scenario.parties /\ desk.config # c
  /\ desk' = Connect([StopInternal(desk) EXCEPT !.config = c])
  /\ UNCHANGED <<session, joined, sourceLive>>

Stop ==
  /\ Disturbed("Stop")
  /\ Running(desk)
  /\ desk' = TakeDown(desk, Live(desk))
  /\ UNCHANGED <<session, joined, sourceLive>>

(* The user's button supersedes, the network's return does not.            *)
Reconnect ==
  /\ Disturbed("Reconnect")
  /\ \E supersede \in BOOLEAN : desk' = Recover(desk, supersede)
  /\ UNCHANGED <<session, joined, sourceLive>>

(* Mutant: a change is not counted, and overtakes the synchronization.     *)
SourceChangesUncounted(d) ==
  IF d.subscribed THEN [d EXCEPT !.coalescing = TRUE] ELSE d

(* Mutant: a change is only counted.                                       *)
SourceChangesUnpublished(d) ==
  IF d.subscribed THEN [d EXCEPT !.behind = TRUE] ELSE d

(* The store's subscribers run, then the hook's effect.                    *)
SourceChanges(d) ==
  IF d.subscribed THEN [d EXCEPT !.behind = TRUE, !.coalescing = TRUE] ELSE d

SyncLiveSession(d, isLive) ==
  LET p == d.config.party
      aimpEnds == Invoke(Invoke(d, EndOf(p, d.active[p], "nobody")),
                         Invocation("Reset", p, "nobody"))
  IN CASE ~Running(d) \/ ~d.ready \/ ~Connected(d) -> d
       [] Running(d) /\ d.ready /\ Connected(d) /\ isLive ->
            IF d.liveSession THEN d ELSE StartSession(d, p, "sync")
       [] Running(d) /\ d.ready /\ Connected(d) /\ ~isLive ->
            [IF d.liveSession /\ d.config.source = "aimp" THEN aimpEnds ELSE d
              EXCEPT !.liveSession = FALSE]

PlaysFrom(s) == Running(desk) /\ desk.config.source = s

GoLive(s) ==
  /\ Disturbed("GoLive")
  /\ ~sourceLive[s]
  /\ sourceLive' = [sourceLive EXCEPT ![s] = TRUE]
  /\ desk' = IF PlaysFrom(s) THEN SyncLiveSession(SourceChanges(desk), TRUE) ELSE desk
  /\ UNCHANGED <<session, joined>>

(* Stopping the player also resets the running party's playback, AIMP's    *)
(* too, unless there is no connection.  AIMP's subscribers hear of some     *)
(* ends only.                                                              *)
StopLive(s) ==
  /\ Disturbed("StopLive")
  /\ sourceLive[s]
  /\ sourceLive' = [sourceLive EXCEPT ![s] = FALSE]
  /\ \E heard \in BOOLEAN :
       LET c == IF PlaysFrom(s) /\ heard THEN SourceChanges(desk) ELSE desk
           e == IF s = "cherryPlayPlayer" /\ Running(c) /\ Connected(c)
                THEN Invoke(c, Invocation("Reset", c.config.party, "stop")) ELSE c
       IN /\ s = "cherryPlayPlayer" => heard
          /\ desk' = IF PlaysFrom(s) THEN SyncLiveSession(e, FALSE) ELSE e
  /\ UNCHANGED <<session, joined>>

(* A new project while the player is on: the audio pauses and the session  *)
(* ends and is reset before the project goes.  Without a connection it is   *)
(* given up.                                                               *)
NewProject ==
  /\ Disturbed("NewProject")
  /\ sourceLive["cherryPlayPlayer"]
  /\ \A k \in DOMAIN desk.wire : desk.wire[k].waiter # "newProject"
  /\ \/ /\ ~Running(desk)
        /\ sourceLive' = [sourceLive EXCEPT !["cherryPlayPlayer"] = FALSE]
        /\ UNCHANGED desk
     \/ /\ Running(desk) /\ Connected(desk)
        /\ LET p == desk.config.party
               c == IF PlaysFrom("cherryPlayPlayer") THEN SourceChanges(desk) ELSE desk
           IN desk' = Invoke(c, EndOf(p, c.active[p], "newProject"))
        /\ UNCHANGED sourceLive
  /\ UNCHANGED <<session, joined>>

(* Other changes of AIMP's state make its hook synchronize once more.      *)
SyncAimp ==
  /\ PlaysFrom("aimp")
  /\ desk' = SyncLiveSession(desk, sourceLive["aimp"])
  /\ desk' # desk
  /\ UNCHANGED <<session, joined, sourceLive, disturbances, scenario>>

(* The party does not exist or may not be had: no further attempts.        *)
PartyIsMissing ==
  /\ Disturbed("Missing")
  /\ desk.step = "checking"
  /\ desk' = [desk EXCEPT !.step = "idle", !.blocked = TRUE]
  /\ UNCHANGED <<session, joined, sourceLive>>

CheckFails ==
  /\ Disturbed("CheckFailure")
  /\ desk.step = "checking"
  /\ desk' = ScheduleReconnect([desk EXCEPT !.step = "idle"])
  /\ UNCHANGED <<session, joined, sourceLive>>

DialFails ==
  /\ Disturbed("DialFailure")
  /\ desk.link \in {"preparing", "starting"}
  /\ LET c == [desk EXCEPT !.link = "none"] IN
     desk' = CASE desk.step # "dialing" -> c
               [] desk.step = "dialing" /\ desk.dials -> ConnectFails(c)
               [] desk.step = "dialing" /\ ~desk.dials -> Dial(c)
  /\ UNCHANGED <<session, joined, sourceLive>>

Lose ==
  /\ Disturbed("Loss")
  /\ Connected(desk)
  /\ desk' = CloseConnection(desk, "reconnecting")
  /\ ServerLoses
  /\ UNCHANGED sourceLive

-----------------------------------------------------------------------------
(* Eight seconds without an answer.                                        *)

DialTimesOut ==
  /\ Disturbed("Timeout")
  /\ desk.step = "dialing"
  /\ desk' = ConnectFails(desk)
  /\ UNCHANGED <<session, joined, sourceLive>>

(* The connection is discarded before the next attempt.                    *)
JoinTimesOut ==
  /\ Disturbed("Timeout")
  /\ desk.step = "joining"
  /\ desk' = Disconnect(desk)
  /\ ServerLoses
  /\ UNCHANGED sourceLive

StartTimesOut(k) ==
  /\ Disturbed("Timeout")
  /\ desk.wire[k].op = "Start"
  /\ ~desk.wire[k].timedOut
  /\ desk' = StartFails([desk EXCEPT !.wire[k].timedOut = TRUE,
                                     !.wire[k].waiter = "nobody"], desk.wire[k])
  /\ UNCHANGED <<session, joined, sourceLive>>

PublishTimesOut(k) ==
  /\ Disturbed("Timeout")
  /\ desk.wire[k].op \in {"Notify", "Publish"}
  /\ desk.wire[k].waiter \in {"connect", "publish", "stop"}
  /\ LET c == [desk EXCEPT !.wire[k].waiter = "nobody"] IN
     desk' = CASE desk.wire[k].waiter = "connect" -> ConnectFails(c)
               [] desk.wire[k].waiter = "publish" -> PublishFails(c)
               [] desk.wire[k].waiter = "stop" -> c
  /\ UNCHANGED <<session, joined, sourceLive>>

-----------------------------------------------------------------------------
(* Answers and timers.                                                     *)

(* The project goes, with the party it was linked to.                      *)
ProjectGoes(i) == i.op = "Reset" /\ i.waiter = "newProject"

Answered(d, i) ==
  CASE i.op = "Join" /\ i.waiter = "connect" ->
         Joined([d EXCEPT !.currentParty = i.party])
    [] i.op = "Join" /\ i.waiter = "rejoin" ->
         IF Running(d) /\ d.config.party = d.currentParty THEN Recover(d, FALSE) ELSE d
    [] i.op = "Join" /\ i.waiter = "nobody" -> [d EXCEPT !.currentParty = i.party]
    [] i.op = "Start" -> StartSucceeds(d, i)
    [] i.op = "End" /\ i.waiter = "newProject" ->
         Invoke([EndReturned(d, i) EXCEPT !.liveSession = FALSE],
                Invocation("Reset", i.party, "newProject"))
    [] i.op = "End" /\ i.waiter # "newProject" -> EndReturned(d, i)
    [] i.op = "Reset" /\ i.waiter = "teardown" ->
         LET c == [d EXCEPT !.lifecycle = Tail(@)] IN
         IF d.lifecycle[1].fresh THEN Disconnect(c) ELSE c
    [] ProjectGoes(i) /\ Running(d) ->
         TakeDown(d, d.config.source = "aimp" /\ Live(d))
    [] i.op = "Reset" /\ i.waiter = "stop" /\ Running(d) /\ d.ready ->
         IF NothingToPublish(d) THEN d ELSE Publish(d, "stop")
    [] i.op = "Notify" /\ i.fresh /\ i.waiter \in {"connect", "publish", "stop"} ->
         Invoke(d, [i EXCEPT !.op = "Publish"])
    [] i.op = "Publish" /\ i.waiter = "connect" ->
         IF d.behind THEN Synchronize(d) ELSE BecomeReady(d)
    [] OTHER -> d

Respond ==
  /\ desk.wire # <<>>
  /\ LET i == Head(desk.wire) IN
     /\ desk' = Answered([desk EXCEPT !.wire = Tail(@)], i)
     /\ session' \in IF Connected(desk') THEN {Carry(session, i)}
                     ELSE CarriedSome(Carry(session, i), Tail(desk.wire))
     /\ joined' = CASE ~Connected(desk') -> NoParty
                    [] Connected(desk') /\ i.op = "Join" -> i.party
                    [] Connected(desk') /\ i.op # "Join" -> joined
     /\ sourceLive' = IF ProjectGoes(i)
                      THEN [sourceLive EXCEPT !["cherryPlayPlayer"] = FALSE]
                      ELSE sourceLive
  /\ UNCHANGED <<disturbances, scenario>>

PartyExists ==
  /\ desk.step = "checking"
  /\ desk' = IF Connected(desk) THEN JoinParty(desk) ELSE Dial(desk)
  /\ UNCHANGED <<session, joined, sourceLive, disturbances, scenario>>

DialStarts ==
  /\ desk.link = "preparing"
  /\ desk' = [desk EXCEPT !.link = "starting"]
  /\ UNCHANGED <<session, joined, sourceLive, disturbances, scenario>>

DialSucceeds ==
  /\ desk.link = "starting"
  /\ LET c == [desk EXCEPT !.link = "connected"] IN
     desk' = IF desk.step = "dialing" THEN JoinParty(c) ELSE c
  /\ UNCHANGED <<session, joined, sourceLive, disturbances, scenario>>

(* Mutant: the party is not joined again.                                  *)
ReconnectedAlone ==
  /\ desk.link = "reconnecting"
  /\ desk' = [desk EXCEPT !.link = "connected"]
  /\ UNCHANGED <<session, joined, sourceLive, disturbances, scenario>>

(* The client's own reconnection, which joins the party it knows of.       *)
Reconnected ==
  /\ desk.link = "reconnecting"
  /\ LET c == [desk EXCEPT !.link = "connected"] IN
     desk' = IF desk.currentParty = NoParty THEN c
             ELSE Invoke(c, Invocation("Join", desk.currentParty, "rejoin"))
  /\ UNCHANGED <<session, joined, sourceLive, disturbances, scenario>>

(* handleHubReconnectionExhausted.                                         *)
Exhausted ==
  /\ desk.link = "reconnecting"
  /\ desk' = ScheduleReconnect([desk EXCEPT !.link = "none"])
  /\ UNCHANGED <<session, joined, sourceLive, disturbances, scenario>>

TimerFires ==
  /\ desk.timer
  /\ desk' = Connect([desk EXCEPT !.timer = FALSE])
  /\ UNCHANGED <<session, joined, sourceLive, disturbances, scenario>>

(* The timer of scheduleFullStatePublish.                                  *)
PublishChanges ==
  /\ desk.coalescing
  /\ LET c == [desk EXCEPT !.coalescing = FALSE] IN
     desk' = CASE ~Connected(c) -> PublishFails(c)
               [] Connected(c) /\ NothingToPublish(c) -> c
               [] Connected(c) /\ ~NothingToPublish(c) -> Publish(c, "publish")
  /\ UNCHANGED <<session, joined, sourceLive, disturbances, scenario>>

-----------------------------------------------------------------------------
(* The first teardown of lifecycleTail, from await to await.  A newer      *)
(* generation makes it return wherever it looks.                           *)

TearingDown(ats) ==
  /\ desk.lifecycle # <<>>
  /\ Head(desk.lifecycle).at \in ats
  /\ UNCHANGED <<session, joined, sourceLive, disturbances, scenario>>

MustEnd(t) == t.hadLive \/ t.started

TeardownWaits ==
  /\ TearingDown({"queued"})
  /\ Head(desk.lifecycle).fresh
  /\ Head(desk.lifecycle).pending
  /\ desk' = [desk EXCEPT !.lifecycle[1].at = "waiting"]

TeardownEnds ==
  /\ TearingDown({"queued", "waiting"})
  /\ LET t == Head(desk.lifecycle) IN
     /\ t.fresh
     /\ ~t.pending
     /\ MustEnd(t)
     /\ desk' = EndSession([desk EXCEPT !.lifecycle[1].at = "ending"],
                           EndOf(t.party, t.owner, "teardown"))

(* Mutant: the playback is not reset before the connection goes.           *)
TeardownOnlyDisconnects ==
  /\ TearingDown({"queued", "waiting", "ended"})
  /\ LET t == Head(desk.lifecycle) IN
     /\ t.fresh
     /\ ~t.pending
     /\ t.at = "ended" \/ ~MustEnd(t)
  /\ desk' = Disconnect([desk EXCEPT !.lifecycle = Tail(@)])

TeardownResets ==
  /\ TearingDown({"queued", "waiting", "ended"})
  /\ LET t == Head(desk.lifecycle) IN
     /\ t.fresh
     /\ ~t.pending
     /\ t.at = "ended" \/ ~MustEnd(t)
     /\ desk' = IF Connected(desk)
                THEN Invoke([desk EXCEPT !.lifecycle[1].at = "resetting"],
                            Invocation("Reset", t.party, "teardown"))
                ELSE Disconnect([desk EXCEPT !.lifecycle = Tail(@)])

TeardownReturns ==
  /\ TearingDown({"queued", "waiting", "ended"})
  /\ LET t == Head(desk.lifecycle) IN
     /\ ~t.fresh
     /\ t.at = "waiting" => ~t.pending
  /\ desk' = [desk EXCEPT !.lifecycle = Tail(@)]

Teardown == TeardownWaits \/ TeardownEnds \/ TeardownResets \/ TeardownReturns

-----------------------------------------------------------------------------

(* The event loop runs what is ready, the hub answers.                     *)
Progress ==
  \/ Respond \/ PartyExists \/ DialStarts \/ DialSucceeds
  \/ Reconnected \/ Exhausted \/ TimerFires \/ PublishChanges
  \/ Teardown

Commands ==
  \/ \E c \in Config : Start(c)
  \/ Stop
  \/ Reconnect
  \/ \E s \in Source : GoLive(s) \/ StopLive(s)
  \/ NewProject
  \/ SyncAimp

Failures ==
  \/ PartyIsMissing \/ CheckFails \/ DialFails \/ Lose
  \/ DialTimesOut \/ JoinTimesOut
  \/ \E k \in DOMAIN desk.wire : StartTimesOut(k) \/ PublishTimesOut(k)

Next == Progress \/ Commands \/ Failures

Spec == Init /\ [][Next]_streamingVars
FairSpec == Spec /\ WF_streamingVars(Progress)

-----------------------------------------------------------------------------
(* What must hold.                                                         *)

(* The attempts on record.                                                 *)
Attempts(d) ==
  {d.active[p] : p \in Party} \cup {d.inFlight} \cup d.handled
    \cup {d.wire[k].attempt : k \in DOMAIN d.wire}
    \cup {d.lifecycle[k].attempt : k \in DOMAIN d.lifecycle}

(* Every variable has its type, and no attempt is on record that was never *)
(* made.                                                                   *)
StreamingTypeOK ==
  /\ desk \in Desk
  /\ \A a \in Attempts(desk) : a <= desk.lastAttempt
  /\ 0 \notin desk.handled
  /\ sourceLive \in [Source -> BOOLEAN]
  /\ session \in [Party -> Session \cup {NoSession}]
  /\ joined \in Party \cup {NoParty}

(* A running orchestrator is never left to itself: it is ready on a        *)
(* connection that lives or is being restored, is connecting, has a timer  *)
(* set, or has given the party up.                                         *)
NeverStuck ==
  Running(desk) =>
    \/ desk.blocked
    \/ desk.timer
    \/ desk.step # "idle"
    \/ desk.ready /\ desk.link \in {"connected", "reconnecting"}

(* A connection attempt never waits for a promise that nobody will settle: *)
(* what it waits for is still under way, whatever superseded, timed out or *)
(* went down meanwhile.                                                    *)
ConnectWaits ==
  LET Awaited(ops) ==
        \E k \in DOMAIN desk.wire :
          desk.wire[k].op \in ops /\ desk.wire[k].waiter = "connect"
  IN CASE desk.step = "joining"  -> Awaited({"Join"})
       [] desk.step = "syncing"  -> Awaited({"Notify", "Publish"})
       [] desk.step = "starting" -> StartPending(desk, desk.config.party)
       [] desk.step = "dialing"  -> desk.link \in {"preparing", "starting"}
       [] OTHER                  -> TRUE

(* An orchestrator that is ready on a connection is down at the hub for    *)
(* its own party, unless it is joining again after a reconnection.         *)
ReadyMeansJoined ==
  Running(desk) /\ desk.ready /\ Connected(desk) /\ desk.step = "idle"
    /\ (\A k \in DOMAIN desk.wire : desk.wire[k].op # "Join")
  => joined = desk.config.party

Quiet(d) ==
  /\ d.wire = <<>>
  /\ d.step = "idle"
  /\ ~d.coalescing
  /\ ~d.timer
  /\ d.lifecycle = <<>>

Settled == Quiet(desk) /\ Running(desk) /\ desk.ready /\ Connected(desk)

(* When all is answered, the state the server has published for the party  *)
(* says what the player is doing now.                                      *)
PublishedIsLatest ==
  Settled /\ desk.config.source = "cherryPlayPlayer"
  => session[desk.config.party].mode = Dto(Live(desk)).mode

(* The orchestrator becomes ready only with the latest state published: it *)
(* repeats a publication that the player's changes overtook.               *)
ReadyWithLatest ==
  [][~desk.ready /\ desk'.ready /\ desk'.config.source = "cherryPlayPlayer"
     => session'[desk'.config.party].mode
          = Dto(sourceLive'["cherryPlayPlayer"]).mode]_streamingVars

NoSourceStops == scenario.kinds \cap {"StopLive", "NewProject"} = {}

(* On the air means on the air: when all is answered, a source is live and *)
(* the orchestrator believes in its session, the party has it: no start    *)
(* that comes late and no retry ends a session that a newer start began.   *)
LiveSessionIsReal ==
  Settled /\ desk.liveSession /\ Live(desk) /\ NoSourceStops
  => HasEffectiveActiveSession(session[desk.config.party])

OneParty == \A p, q \in scenario.parties : p = q

(* On a network without failures, after a teardown the hub has no session  *)
(* of the party left on the air, also when it came while a start was under *)
(* way.  (A start for another party supersedes the session of the first.)  *)
StoppedMeansEnded ==
  OneParty /\ scenario.kinds \subseteq Users /\ Quiet(desk) /\ ~Running(desk) /\ desk.link = "none"
  => \A p \in Party : ~HasEffectiveActiveSession(session[p])

(* Once failures cease, a running orchestrator becomes ready by itself or  *)
(* gives the party up.                                                     *)
Recovers == Running(desk) ~> (desk.ready \/ desk.blocked \/ ~Running(desk))

(* A teardown comes to its end, whatever its calls meet.                   *)
TeardownEnd == desk.lifecycle # <<>> ~> desk.lifecycle = <<>>

-----------------------------------------------------------------------------
(* What the documentation says and the code does not do.                   *)

(* StartSession is called when the source goes live (streaming.md:117).    *)
LiveIsStarted == Settled /\ Live(desk) => desk.liveSession

(* StartSession and EndSession follow the transitions of the live session  *)
(* (streaming.md:45): the player's second session is on the air, too.      *)
PlayerIsOnAir ==
  Settled /\ desk.liveSession /\ Live(desk) /\ desk.config.source = "cherryPlayPlayer"
  => HasEffectiveActiveSession(session[desk.config.party])

(* A change of the source leaves no orphan session (streaming.md:148).     *)
NoOrphanSession ==
  Settled /\ ~Live(desk) => ~HasEffectiveActiveSession(session[desk.config.party])

(* Without streaming there is no connection (streaming.md:149).            *)
StoppedMeansDisconnected ==
  Quiet(desk) /\ ~Running(desk) => ~Connected(desk)
=============================================================================
