------------------------------ MODULE PartyHub ------------------------------
(***************************************************************************)
(* PartyCommands together with what the hub tells the viewers of a party:  *)
(* after a call has changed something its handler goes on, outside the     *)
(* coordinator, to announce it.  An announcement reads the party, reads    *)
(* the session and computes the display status from the two readings and   *)
(* from the tracker as it is when it is sent.  The handler of the last     *)
(* organizer connection to leave also starts a task that announces the     *)
(* status again once the grace period is over.                             *)
(*                                                                         *)
(* A connection slot is reused for a new connection only when the grace    *)
(* task it left behind has ended: Conn bounds both.                        *)
(***************************************************************************)
EXTENDS PartyCommands, DisplayStatus

CONSTANT NoTask

VARIABLES
  shown,       \* last OnPartyDisplayStatusChanged sent to a party's group
  announced,   \* last OnConnectionStatusChanged sent to it
  stale,       \* LastUpdatedAt is older than the staleness threshold
  task         \* announcements in progress

hubVars == <<commandVars, shown, announced, stale, task>>
viewerVars == <<shown, announced>>

(* A call's own announcement and the grace task it may start.              *)
Handler(c) == <<c, "call">>
GraceTask(c) == <<c, "grace">>
Task == Conn \X {"call", "grace"}

Stage == {"online", "offline", "wait", "party", "session", "send"}

Announcement ==
  [party : Party, at : Stage, life : Lifecycle \cup {NoArg},
   snap : Session \cup {NoSession}, old : BOOLEAN, last : BOOLEAN]

ASSUME TaskAssumption == NoTask \notin Announcement

HubInit ==
  /\ CommandsInit
  /\ shown = [p \in Party |-> "Scheduled"]
  /\ announced = [p \in Party |-> FALSE]
  /\ stale = [p \in Party |-> FALSE]
  /\ task = [t \in Task |-> NoTask]

Begin(t, p, stage) ==
  task' = [task EXCEPT ![t] =
    [party |-> p, at |-> stage, life |-> NoArg, snap |-> NoSession,
     old |-> FALSE, last |-> stage = "offline"]]

InStage(t, stage) == task[t] # NoTask /\ task[t].at = stage
Step(t, stage) == task' = [task EXCEPT ![t].at = stage]
End(t) == task' = [task EXCEPT ![t] = NoTask]

StatusNow(p, life, s, old) ==
  Compute(life, s, old, IsOrganizerConnected(p), disconnectedAt[p])

-----------------------------------------------------------------------------
(* The handlers of PartyCommands with their announcements.                 *)

HubArrive(c) ==
  /\ task[Handler(c)] = NoTask
  /\ c \in open \/ task[GraceTask(c)] = NoTask
  /\ Arrive(c)
  /\ UNCHANGED <<viewerVars, stale, task>>

HubJoin(c) ==
  /\ Join(c)
  /\ Begin(Handler(c), req[c].party, "online")
  /\ UNCHANGED <<viewerVars, stale>>

(* TryRemoveOrganizer reports the party only when its last connection went. *)
HubLeave(c) ==
  /\ Leave(c)
  /\ LET p == req[c].party IN
       IF Abandoned(c, p) THEN Begin(Handler(c), p, "offline") ELSE UNCHANGED task
  /\ UNCHANGED <<viewerVars, stale>>

AnnouncedOp == {"StartSession", "EndSession", "ResetPlayback", "UpdateFullState"}

(* Every write sets LastUpdatedAt.                                         *)
HubWriteSession(c) ==
  /\ WriteSession(c)
  /\ stale' = [stale EXCEPT ![req[c].party] = FALSE]
  /\ IF req[c].op \in AnnouncedOp
     THEN Begin(Handler(c), req[c].party, "party")
     ELSE UNCHANGED task
  /\ UNCHANGED viewerVars

(* Ending a session that was never stored succeeds, and is announced.      *)
HubReadSession(c) ==
  /\ ReadSession(c)
  /\ IF req'[c] = NoRequest /\ req[c].op = "EndSession"
     THEN Begin(Handler(c), req[c].party, "party")
     ELSE UNCHANGED task
  /\ UNCHANGED <<viewerVars, stale>>

AdminWriteSession(a) ==
  /\ WriteSession(a)
  /\ stale' = [stale EXCEPT ![req[a].party] = FALSE]
  /\ UNCHANGED <<viewerVars, task>>

(* AdminPartySessionResetNotifier sends the new status inside the          *)
(* semaphore; NotifyStateChangedAsync of a lifecycle command sends none.   *)
AdminNotified(a) ==
  /\ Notified(a)
  /\ shown' = IF req[a].op = "ResetSession"
              THEN [shown EXCEPT ![req[a].party] =
                      StatusNow(req[a].party, req[a].life, Blank, FALSE)]
              ELSE shown
  /\ UNCHANGED <<announced, stale, task>>

-----------------------------------------------------------------------------
(* NotifyPartyDisplayStatusChangedAsync, and the end of a grace task.      *)

SendConnectionStatus(t) ==
  /\ InStage(t, "online") \/ InStage(t, "offline")
  /\ announced' = [announced EXCEPT ![task[t].party] = InStage(t, "online")]
  /\ Step(t, "party")
  /\ UNCHANGED <<commandVars, shown, stale>>

(* Mutant: the grace task is not scheduled.                                *)
FinishAtOnce(t) == End(t)

(* What OnDisconnectedAsync does next: ScheduleOrganizerOfflineStatus-     *)
(* AfterGrace.                                                             *)
Finish(t) ==
  task' = [task EXCEPT
    ![t] = NoTask,
    ![GraceTask(t[1])] = IF task[t].last THEN [task[t] EXCEPT !.at = "wait", !.last = FALSE,
                                                !.life = NoArg, !.snap = NoSession, !.old = FALSE]
                         ELSE IF t = GraceTask(t[1]) THEN NoTask ELSE @]

AnnounceParty(t) ==
  /\ InStage(t, "party")
  /\ IF deleted[task[t].party]
     THEN Finish(t)
     ELSE task' = [task EXCEPT ![t].at = "session", ![t].life = lifecycle[task[t].party]]
  /\ UNCHANGED <<commandVars, viewerVars, stale>>

AnnounceSession(t) ==
  /\ InStage(t, "session")
  /\ task' = [task EXCEPT ![t].at = "send",
                          ![t].snap = session[task[t].party],
                          ![t].old = stale[task[t].party]]
  /\ UNCHANGED <<commandVars, viewerVars, stale>>

SendDisplayStatus(t) ==
  /\ InStage(t, "send")
  /\ shown' = [shown EXCEPT ![task[t].party] =
       StatusNow(task[t].party, task[t].life, task[t].snap, task[t].old)]
  /\ Finish(t)
  /\ UNCHANGED <<commandVars, announced, stale>>

(* Mutant: the task does not look at the time stamp again.                 *)
WakeGraceTaskEarly(t) ==
  /\ InStage(t, "wait")
  /\ LET p == task[t].party IN
       \/ IsOrganizerConnected(p) /\ End(t)
       \/ ~IsOrganizerConnected(p) /\ Step(t, "party")
  /\ UNCHANGED <<commandVars, viewerVars, stale>>

(* The loop of the grace task: it ends when an organizer is connected,     *)
(* waits on while a (perhaps newer) disconnect is within its grace period, *)
(* and announces otherwise.                                                *)
WakeGraceTask(t) ==
  /\ InStage(t, "wait")
  /\ LET p == task[t].party IN
       \/ IsOrganizerConnected(p) /\ End(t)
       \/ ~IsOrganizerConnected(p) /\ disconnectedAt[p] # "within" /\ Step(t, "party")
  /\ UNCHANGED <<commandVars, viewerVars, stale>>

Announce(t) ==
  \/ SendConnectionStatus(t) \/ AnnounceParty(t)
  \/ AnnounceSession(t) \/ SendDisplayStatus(t) \/ WakeGraceTask(t)

(* PlaybackStaleThresholdSeconds pass without an update; IsPlaybackStale    *)
(* asks only of a session on air.                                          *)
PlaybackGoesStale(p) ==
  /\ "Stale" \in Ops
  /\ HasEffectiveActiveSession(session[p])
  /\ stale' = [stale EXCEPT ![p] = TRUE]
  /\ UNCHANGED <<commandVars, viewerVars, task>>

(* Viewers reconnect and are given the status computed then.               *)
HubRestart ==
  /\ Restart
  /\ shown' = [p \in Party |->
       IF deleted[p] THEN shown[p]
       ELSE Compute(lifecycle[p], session[p], stale[p], FALSE, "never")]
  /\ announced' = [p \in Party |-> FALSE]
  /\ task' = [t \in Task |-> NoTask]
  /\ UNCHANGED stale

-----------------------------------------------------------------------------
HubConnStep(c) ==
  \/ HubJoin(c) \/ HubLeave(c) \/ HubReadSession(c) \/ HubWriteSession(c)

(* Steps of PartyCommands no viewer hears of.                              *)
Silently(A) == A /\ UNCHANGED <<viewerVars, stale, task>>

HubAcquire(x) == Silently(Acquire(x))

SilentStep(x) ==
  Silently(\/ ReadParty(x) \/ RowVanished(x) \/ WriteLifecycle(x)
           \/ WriteTransition(x) \/ DeleteSession(x) \/ DeleteParty(x))

AdminStep(a) ==
  \/ Silently(ReadSession(a))
  \/ AdminWriteSession(a) \/ AdminNotified(a)

HubGraceTick(p) == Silently(GraceTick(p))

HubNext ==
  \/ \E c \in Conn : HubArrive(c) \/ HubConnStep(c)
  \/ \E a \in Admin : Silently(Command(a)) \/ AdminStep(a)
  \/ \E w \in Web : Silently(Rest(w))
  \/ \E x \in Caller : HubAcquire(x) \/ SilentStep(x)
  \/ \E t \in Task : Announce(t)
  \/ \E p \in Party : PlaybackGoesStale(p) \/ HubGraceTick(p)
  \/ HubRestart

HubSpec == HubInit /\ [][HubNext]_hubVars

(* Calls, handlers and grace tasks keep running, semaphores wake their     *)
(* waiters in turn, and time passes.                                       *)
HubFairness ==
  /\ \A x \in Caller : WF_hubVars(SilentStep(x)) /\ SF_hubVars(HubAcquire(x))
  /\ \A c \in Conn : WF_hubVars(HubConnStep(c))
  /\ \A a \in Admin : WF_hubVars(AdminStep(a))
  /\ \A t \in Task : WF_hubVars(Announce(t))
  /\ \A p \in Party : WF_hubVars(HubGraceTick(p))

FairHubSpec == HubSpec /\ HubFairness

-----------------------------------------------------------------------------
HubTypeOK ==
  /\ CommandsTypeOK
  /\ shown \in [Party -> DisplayStatuses]
  /\ announced \in [Party -> BOOLEAN]
  /\ stale \in [Party -> BOOLEAN]
  /\ task \in [Task -> Announcement \cup {NoTask}]

(* While a party is within its grace period, some handler or grace task is *)
(* still going to tell its viewers when it is over: reconnects, further    *)
(* disconnects and overlapping grace tasks never leave it to nobody.       *)
OfflineIsPending ==
  \A p \in Party : disconnectedAt[p] = "within" =>
    \E t \in Task : /\ task[t] # NoTask /\ task[t].party = p
                     /\ (task[t].last \/ task[t].at = "wait")

(* A party is on air, but its organizer has gone.                          *)
OnAirAlone(p) ==
  /\ ~deleted[p] /\ lifecycle[p] = "Ready"
  /\ HasEffectiveActiveSession(session[p])
  /\ ~IsOrganizerConnected(p) /\ disconnectedAt[p] # "never"

(* When the organizer leaves a party that is on air, the viewers are told  *)
(* organizer_offline after the grace period, unless the organizer comes    *)
(* back or the session ends first.                                         *)
OfflineReachesViewers ==
  \A p \in Party :
    OnAirAlone(p) /\ disconnectedAt[p] = "within"
      ~> shown[p] = "OrganizerOffline" \/ ~OnAirAlone(p)

(* Nothing that concerns p is going on.                                    *)
Settled(p) ==
  /\ \A x \in Caller : req[x] # NoRequest => req[x].party # p
  /\ \A t \in Task : task[t] # NoTask => task[t].party # p

(* Once all is quiet, the last OnConnectionStatusChanged the viewers got   *)
(* says whether an organizer is connected.                                 *)
SettledConnectionStatus ==
  \A p \in Party : Settled(p) /\ ~deleted[p] => announced[p] = IsOrganizerConnected(p)

(* Once all is quiet, the last OnPartyDisplayStatusChanged the viewers got *)
(* is the status the server would compute.                                 *)
SettledDisplayStatus ==
  \A p \in Party : Settled(p) /\ ~deleted[p] =>
    shown[p] = StatusNow(p, lifecycle[p], session[p], stale[p])

(* The viewers of a quiet party know whether it is over.                   *)
SettledLifecycle ==
  \A p \in Party : Settled(p) /\ ~deleted[p] =>
    (shown[p] = "PartyEnded" <=> lifecycle[p] = "Completed")
=============================================================================
