---------------------------- MODULE PartyCommands ----------------------------
(***************************************************************************)
(* Everything that changes a party's stored session or lifecycle while it  *)
(* may be on air: the organizer's hub calls (PartyHub, StreamingService),  *)
(* the administrator's commands (AdminPartyCommandService) and the         *)
(* organizer's REST calls (PartyService).  Hub calls and commands run      *)
(* under PartyActivityCoordinator, REST calls do not.                      *)
(*                                                                         *)
(* Every call is a process that stops at each await: for the semaphore,    *)
(* for the party, for the session, for the write.  Server state that       *)
(* lives in memory (tracker, semaphores, running calls) is lost in a       *)
(* Restart, the database is not.                                           *)
(***************************************************************************)
EXTENDS PartySession, OrganizerTracker

CONSTANTS Admin,      \* administrator requests that can be in flight
          Web,        \* organizer REST requests that can be in flight
          Lock,       \* the coordinator's semaphores
          LockOf,     \* partyId.GetHashCode() & 255: parties may collide
          Ops,        \* operations the callers of a run use
          Targets,    \* lifecycle states asked for
          Snapshots,  \* full states the desktop publishes
          NoCaller, NoRequest, NoArg

Caller == Conn \cup Admin \cup Web
Lifecycle == {"Draft", "Ready", "Completed"}

HubOp     == {"StartSession", "EndSession", "ResetPlayback", "UpdatePosition"}
SessionOp == HubOp \cup {"UpdateFullState", "ResetSession"}
AnyOp     == SessionOp \cup {"Join", "Leave", "SetLifecycle", "Transition", "Delete"}
Phase     == {"lock", "party", "session", "write", "notify"}

ASSUME CallerAssumption ==
  /\ Conn \cap Admin = {} /\ Conn \cap Web = {} /\ Admin \cap Web = {}
  /\ NoCaller \notin Caller
ASSUME LockAssumption == LockOf \in [Party -> Lock]
ASSUME InputAssumption ==
  Ops \subseteq AnyOp \cup {"Restart", "Stale"} /\ Targets \subseteq Lifecycle /\ Snapshots \subseteq Snapshot

Request ==
  [op : AnyOp, party : Party, at : Phase, snap : Session \cup {NoSession},
   target : Lifecycle \cup {NoArg}, dto : Snapshot \cup {NoArg},
   life : Lifecycle \cup {NoArg}, online : BOOLEAN]

ASSUME RequestAssumption == NoRequest \notin Request

VARIABLES
  open,        \* connections that are established
  lifecycle, deleted, session,     \* the database
  owner,       \* which call holds each semaphore
  req          \* the call each process is executing

dbVars == <<lifecycle, deleted, session>>
commandVars == <<trackerVars, open, dbVars, owner, req>>

OnAir(p) == session[p] # NoSession /\ session[p].active /\ IsOrganizerConnected(p)

CommandsInit ==
  /\ TrackerInit
  /\ open = {}
  /\ lifecycle \in [Party -> {"Ready"}]
  /\ deleted = [p \in Party |-> FALSE]
  /\ session = [p \in Party |-> NoSession]
  /\ owner = [l \in Lock |-> NoCaller]
  /\ req = [x \in Caller |-> NoRequest]

At(x, phase) == req[x] # NoRequest /\ req[x].at = phase

Issue(x, op, p, target, dto, phase) ==
  /\ req[x] = NoRequest
  /\ op \in Ops
  /\ req' = [req EXCEPT ![x] =
       [op |-> op, party |-> p, at |-> phase, snap |-> NoSession,
        target |-> target, dto |-> dto,
        life |-> NoArg, online |-> FALSE]]

Proceed(x, phase) == req' = [req EXCEPT ![x].at = phase]
Return(x) == req' = [req EXCEPT ![x] = NoRequest]
Release(x) == owner' = [owner EXCEPT ![LockOf[req[x].party]] = NoCaller]

-----------------------------------------------------------------------------
(* Calls arriving.  SignalR runs the invocations of one connection one     *)
(* after the other, and OnDisconnectedAsync after the last of them.        *)

Connect(c) ==
  /\ c \notin open /\ req[c] = NoRequest
  /\ open' = open \cup {c}
  /\ UNCHANGED <<trackerVars, dbVars, owner, req>>

(* EnsurePartyOwnershipAsync runs before the coordinator is entered.       *)
HubCall(c, op, p, dto) ==
  /\ c \in open /\ ~deleted[p]
  /\ Issue(c, op, p, NoArg, dto, "lock")
  /\ UNCHANGED <<trackerVars, open, dbVars, owner>>

(* Mutant: the party of a connection that never registered is not checked. *)
DisconnectUnchecked(c) ==
  /\ c \in open /\ req[c] = NoRequest
  /\ open' = open \ {c}
  /\ Issue(c, "Leave", connectionToParty[c], NoArg, NoArg, "lock")
  /\ UNCHANGED <<trackerVars, dbVars, owner>>

(* OnDisconnectedAsync reads GetPartyId first, and enters the coordinator  *)
(* only for a connection that was registered.                              *)
Disconnect(c) ==
  /\ c \in open /\ req[c] = NoRequest
  /\ open' = open \ {c}
  /\ \/ connectionToParty[c] = NoParty /\ UNCHANGED req
     \/ connectionToParty[c] # NoParty /\ Issue(c, "Leave", connectionToParty[c], NoArg, NoArg, "lock")
  /\ UNCHANGED <<trackerVars, dbVars, owner>>

AdminCall(a, op, p, target) ==
  /\ Issue(a, op, p, target, NoArg, "lock")
  /\ UNCHANGED <<trackerVars, open, dbVars, owner>>

(* Party.IsOrganizerTransitionAllowed                                      *)
OrganizerTransitions ==
  {<<"Draft", "Ready">>, <<"Ready", "Completed">>, <<"Completed", "Ready">>}

(* TransitionPartyLifecycleCoreAsync checks the state it has read.         *)
TransitionCall(w, p, target) ==
  /\ ~deleted[p] /\ <<lifecycle[p], target>> \in OrganizerTransitions
  /\ Issue(w, "Transition", p, target, NoArg, "write")
  /\ UNCHANGED <<trackerVars, open, dbVars, owner>>

DeleteCall(w, p) ==
  /\ ~deleted[p]
  /\ Issue(w, "Delete", p, NoArg, NoArg, "session")
  /\ UNCHANGED <<trackerVars, open, dbVars, owner>>

-----------------------------------------------------------------------------
(* Coordinated calls: ExecuteAsync takes the party's semaphore and its     *)
(* finally block releases it on every way out.                             *)

(* Mutant: organizer joins and leaves do not wait for the semaphore.       *)
AcquireForCommands(x) ==
  /\ At(x, "lock")
  /\ \/ req[x].op \in {"Join", "Leave"} /\ Proceed(x, "write") /\ UNCHANGED owner
     \/ /\ req[x].op \notin {"Join", "Leave"}
        /\ owner[LockOf[req[x].party]] = NoCaller
        /\ owner' = [owner EXCEPT ![LockOf[req[x].party]] = x]
        /\ Proceed(x, "party")
  /\ UNCHANGED <<trackerVars, open, dbVars>>

(* Mutant: a semaphore that admits any number of calls.                    *)
AcquireShared(x) ==
  /\ At(x, "lock")
  /\ owner' = [owner EXCEPT ![LockOf[req[x].party]] = x]
  /\ Proceed(x, IF req[x].op \in {"Join", "Leave"} THEN "write" ELSE "party")
  /\ UNCHANGED <<trackerVars, open, dbVars>>

(* Mutant: a disconnect is dropped when its party cannot be found.         *)
AcquireToLookUp(x) ==
  /\ At(x, "lock")
  /\ owner[LockOf[req[x].party]] = NoCaller
  /\ owner' = [owner EXCEPT ![LockOf[req[x].party]] = x]
  /\ Proceed(x, IF req[x].op = "Join" THEN "write" ELSE "party")
  /\ UNCHANGED <<trackerVars, open, dbVars>>

Acquire(x) ==
  /\ At(x, "lock")
  /\ owner[LockOf[req[x].party]] = NoCaller
  /\ owner' = [owner EXCEPT ![LockOf[req[x].party]] = x]
  /\ Proceed(x, IF req[x].op \in {"Join", "Leave"} THEN "write" ELSE "party")
  /\ UNCHANGED <<trackerVars, open, dbVars>>

(* PartyNotFoundException, NotFound or Unchanged.                          *)
PartyDeclines(x) ==
  \/ deleted[req[x].party]
  \/ req[x].op = "SetLifecycle" /\ lifecycle[req[x].party] = req[x].target

(* Mutant: the early return is outside the try block.                      *)
ReadPartyKeeping(x) ==
  /\ At(x, "party")
  /\ \/ PartyDeclines(x) /\ Return(x)
     \/ /\ ~PartyDeclines(x)
        /\ req' = [req EXCEPT ![x].at = "session",
                              ![x].life = lifecycle[req[x].party],
                              ![x].online = IsOrganizerConnected(req[x].party)]
  /\ UNCHANGED <<trackerVars, open, dbVars, owner>>

ReadParty(x) ==
  /\ At(x, "party")
  /\ \/ PartyDeclines(x) /\ Return(x) /\ Release(x)
     \/ /\ ~PartyDeclines(x)
        /\ req' = [req EXCEPT ![x].at = "session",
                              ![x].life = lifecycle[req[x].party],
                              ![x].online = IsOrganizerConnected(req[x].party)]
        /\ UNCHANGED owner
  /\ UNCHANGED <<trackerVars, open, dbVars>>

(* Mutant: an active session alone does not stop a lifecycle command.      *)
SessionDeclinesReset(x, s) ==
  \/ s = NoSession /\ req[x].op \in {"UpdatePosition", "EndSession", "ResetSession"}
  \/ /\ s # NoSession /\ req[x].op = "ResetSession"
     /\ ~ChangedByReset(s) \/ (s.active /\ req[x].online)

(* No session to move or to end, nothing to reset, or the administrator is *)
(* refused with ActiveConnectedSession.  ResetSessionAsync asks the        *)
(* tracker before it awaits the session, SetLifecycleStateAsync after.     *)
SessionDeclines(x, s) ==
  \/ s = NoSession /\ req[x].op \in {"UpdatePosition", "EndSession", "ResetSession"}
  \/ /\ s # NoSession /\ req[x].op = "ResetSession"
     /\ ~ChangedByReset(s) \/ (s.active /\ req[x].online)
  \/ /\ s # NoSession /\ req[x].op = "SetLifecycle"
     /\ s.active /\ IsOrganizerConnected(req[x].party)

ReadSession(x) ==
  /\ At(x, "session") /\ req[x].op # "Delete"
  /\ LET s == session[req[x].party] IN
       \/ SessionDeclines(x, s) /\ Return(x) /\ Release(x)
       \/ /\ ~SessionDeclines(x, s)
          /\ req' = [req EXCEPT ![x].at = "write", ![x].snap = s]
          /\ UNCHANGED owner
  /\ UNCHANGED <<trackerVars, open, dbVars>>

Store(x, s) == session' = [session EXCEPT ![req[x].party] = s]

(* What each operation makes of the session it read.                       *)
Rewrite(x, s) ==
  \/ /\ req[x].op = "StartSession"
     /\ \E kept \in BOOLEAN : Store(x, Started(s, kept))
  \/ req[x].op = "EndSession" /\ Store(x, Ended(s))
  \/ req[x].op = "ResetPlayback" /\ Store(x, Cleared(s))
  \/ req[x].op = "UpdatePosition" /\ Store(x, Positioned(s))
  \/ req[x].op = "UpdateFullState" /\ Store(x, Published(s, req[x].dto))
  \/ req[x].op = "ResetSession" /\ Store(x, Blank)

(* SetSessionStateAsync inserts the row if it is gone.                     *)
WriteSession(x) ==
  /\ At(x, "write") /\ Rewrite(x, req[x].snap)
  /\ \/ req[x].op # "ResetSession" /\ Return(x) /\ Release(x)
     \/ req[x].op = "ResetSession" /\ Proceed(x, "notify") /\ UNCHANGED owner
  /\ UNCHANGED <<trackerVars, open, lifecycle, deleted>>

(* The row was deleted between SetSessionStateAsync's look-up and its save: *)
(* the save fails, and so does the call.                                   *)
RowVanished(x) ==
  /\ At(x, "write") /\ req[x].op \in SessionOp
  /\ req[x].snap # NoSession /\ session[req[x].party] = NoSession
  /\ Return(x) /\ Release(x)
  /\ UNCHANGED <<trackerVars, open, dbVars>>

WriteLifecycle(x) ==
  /\ At(x, "write") /\ req[x].op = "SetLifecycle"
  /\ \/ deleted[req[x].party] /\ Return(x) /\ Release(x) /\ UNCHANGED lifecycle
     \/ /\ ~deleted[req[x].party]
        /\ lifecycle' = [lifecycle EXCEPT ![req[x].party] = req[x].target]
        /\ Proceed(x, "notify") /\ UNCHANGED owner
  /\ UNCHANGED <<trackerVars, open, deleted, session>>

(* The command's own broadcast is awaited inside the semaphore.            *)
Notified(x) ==
  /\ At(x, "notify")
  /\ Return(x) /\ Release(x)
  /\ UNCHANGED <<trackerVars, open, dbVars>>

Join(c) ==
  /\ At(c, "write") /\ req[c].op = "Join"
  /\ RegisterOrganizer(c, req[c].party)
  /\ Return(c) /\ Release(c)
  /\ UNCHANGED <<open, dbVars>>

Leave(c) ==
  /\ At(c, "write") /\ req[c].op = "Leave"
  /\ TryRemoveOrganizer(c, req[c].party)
  /\ Return(c) /\ Release(c)
  /\ UNCHANGED <<open, dbVars>>

-----------------------------------------------------------------------------
(* REST calls of the organizer: no semaphore.                              *)

(* UpdateLifecycleStateAsync does not look at the state it overwrites.     *)
WriteTransition(w) ==
  /\ At(w, "write") /\ req[w].op = "Transition"
  /\ lifecycle' = [p \in Party |->
       IF p = req[w].party /\ ~deleted[p] THEN req[w].target ELSE lifecycle[p]]
  /\ Return(w)
  /\ UNCHANGED <<trackerVars, open, deleted, session, owner>>

DeleteSession(w) ==
  /\ At(w, "session") /\ req[w].op = "Delete"
  /\ session' = [session EXCEPT ![req[w].party] = NoSession]
  /\ Proceed(w, "write")
  /\ UNCHANGED <<trackerVars, open, lifecycle, deleted, owner>>

DeleteParty(w) ==
  /\ At(w, "write") /\ req[w].op = "Delete"
  /\ deleted' = [deleted EXCEPT ![req[w].party] = TRUE]
  /\ Return(w)
  /\ UNCHANGED <<trackerVars, open, lifecycle, session, owner>>

-----------------------------------------------------------------------------
(* The server process ends and starts again.                               *)
Restart ==
  /\ "Restart" \in Ops
  /\ connectionToParty' = [c \in Conn |-> NoParty]
  /\ partyToConnections' = [p \in Party |-> {}]
  /\ disconnectedAt' = [p \in Party |-> "never"]
  /\ open' = {}
  /\ owner' = [l \in Lock |-> NoCaller]
  /\ req' = [x \in Caller |-> NoRequest]
  /\ UNCHANGED dbVars
(* The grace period of a party's offline mark runs out.                    *)
GraceTick(p) ==
  /\ GraceElapses(p)
  /\ UNCHANGED <<open, dbVars, owner, req>>

-----------------------------------------------------------------------------
Arrive(c) ==
  \/ Connect(c)
  \/ Disconnect(c)
  \/ \E p \in Party :
       \/ \E op \in HubOp \cup {"Join"} : HubCall(c, op, p, NoArg)
       \/ \E dto \in Snapshots : HubCall(c, "UpdateFullState", p, dto)

Command(a) ==
  \E p \in Party :
    \/ AdminCall(a, "ResetSession", p, NoArg)
    \/ \E target \in Targets : AdminCall(a, "SetLifecycle", p, target)

Rest(w) ==
  \E p \in Party :
    \/ DeleteCall(w, p)
    \/ \E target \in Targets : TransitionCall(w, p, target)

(* The next step of a call in progress, waiting for the semaphore aside.   *)
Advance(x) ==
  \/ ReadParty(x) \/ ReadSession(x)
  \/ WriteSession(x) \/ RowVanished(x) \/ WriteLifecycle(x) \/ Notified(x)
  \/ WriteTransition(x) \/ DeleteSession(x) \/ DeleteParty(x)

ConnAdvance(c) == Join(c) \/ Leave(c)

CommandsNext ==
  \/ \E c \in Conn : Arrive(c) \/ ConnAdvance(c)
  \/ \E a \in Admin : Command(a)
  \/ \E w \in Web : Rest(w)
  \/ \E x \in Caller : Acquire(x) \/ Advance(x)
  \/ \E p \in Party : GraceTick(p)
  \/ Restart

CommandsSpec == CommandsInit /\ [][CommandsNext]_commandVars

(* Calls in progress are executed; a semaphore wakes its waiters in turn,  *)
(* so no waiter is passed over for ever.                                   *)
CommandsFairness ==
  /\ \A x \in Caller : WF_commandVars(Advance(x)) /\ SF_commandVars(Acquire(x))
  /\ \A c \in Conn : WF_commandVars(ConnAdvance(c))

FairCommandsSpec == CommandsSpec /\ CommandsFairness

-----------------------------------------------------------------------------
CommandsTypeOK ==
  /\ TrackerTypeOK
  /\ open \subseteq Conn
  /\ lifecycle \in [Party -> Lifecycle]
  /\ deleted \in [Party -> BOOLEAN]
  /\ session \in [Party -> Session \cup {NoSession}]
  /\ owner \in [Lock -> Caller \cup {NoCaller}]
  /\ req \in [Caller -> Request \cup {NoRequest}]

(* An administrator's command that has passed its check (SetLifecycle,     *)
(* ResetSession) never meets a party that is on air when it writes: between *)
(* the check and the write no organizer can join and no session can start. *)
AdminSparesLiveParty ==
  \A a \in Admin : At(a, "write") => ~OnAir(req[a].party)

(* Deleting a party takes two steps outside the coordinator; from the      *)
(* first on, calls in flight may still write a session they read before.   *)
Doomed(p) ==
  \/ deleted[p]
  \/ \E w \in Web : At(w, "write") /\ req[w].op = "Delete" /\ req[w].party = p

(* A read-modify-write of StreamingService or AdminPartyCommandService     *)
(* never overwrites an update made after its read.                         *)
NoLostUpdate ==
  \A x \in Caller :
    At(x, "write") /\ req[x].op \in SessionOp /\ ~Doomed(req[x].party)
      => session[req[x].party] = req[x].snap

(* A registered organizer connection is open or is being removed: neither  *)
(* a re-join nor a disconnect leaves a party with a connection that no     *)
(* OnDisconnectedAsync will ever take away.                                *)
NoGhostOrganizer ==
  \A c \in Conn :
    connectionToParty[c] # NoParty
      => \/ c \in open
         \/ req[c] # NoRequest /\ req[c].op = "Leave" /\ req[c].party = connectionToParty[c]

(* Only StartSession puts an existing session on; a late UpdateFullState   *)
(* or UpdatePlaybackPosition cannot revive one that was ended or reset.    *)
OnlyStartActivates ==
  [][\A p \in Party :
       session[p] # NoSession /\ ~session[p].active /\ session'[p] # session[p]
         /\ session'[p] # NoSession /\ session'[p].active
       => \/ Doomed(p)
          \/ \E c \in Conn : At(c, "write") /\ req[c].op = "StartSession"
                             /\ req[c].party = p /\ req'[c] = NoRequest]_commandVars

(* Deleting a party takes its session with it.                             *)
DeletedPartyHasNoSession == \A p \in Party : deleted[p] => session[p] = NoSession

(* An organizer's transition, when it is stored, starts from the lifecycle *)
(* state it is allowed from.                                               *)
OrganizerTransitionsHold ==
  [][\A w \in Web, p \in Party :
       At(w, "write") /\ req[w].op = "Transition" /\ req[w].party = p
         /\ lifecycle'[p] # lifecycle[p] /\ req'[w] = NoRequest
       => <<lifecycle[p], lifecycle'[p]>> \in OrganizerTransitions]_commandVars

(* Every call returns: no path out of a coordinated call keeps the         *)
(* semaphore, not even for parties whose ids collide on one semaphore.     *)
EveryCallReturns == \A x \in Caller : req[x] # NoRequest ~> req[x] = NoRequest
=============================================================================
