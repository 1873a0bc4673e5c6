---------------------------- MODULE PartyHubProofs ----------------------------
(***************************************************************************)
(* The safety properties of PartyCommands and of the hub around it, for    *)
(* any number of connections, parties, administrators, REST clients and    *)
(* semaphores.                                                             *)
(*                                                                         *)
(* For the calls, the inductive invariant says which caller may run which  *)
(* operation, that a coordinated call past the semaphore owns it           *)
(* (Coordinated), that the session such a call read is still the stored    *)
(* one (NoLostUpdate), and what an administrator's command found out       *)
(* before it writes.                                                       *)
(*                                                                         *)
(* The hub only adds announcements, so what is proved of the calls holds   *)
(* of it.  The inductive invariant of the announcements themselves says    *)
(* when the two places a connection has for them are free: a call runs     *)
(* only while no handler of its connection is left (HandlerIsFree), and a  *)
(* grace task is started only where none is running (GraceSlotIsFree), so  *)
(* no step ever overwrites an announcement that is still owed.             *)
(***************************************************************************)
EXTENDS PartyHub, PartyCommandsRefinement, TLAPS

-----------------------------------------------------------------------------
(* The calls.                                                              *)

ConnOp  == HubOp \cup {"UpdateFullState", "Join", "Leave"}
AdminOp == {"SetLifecycle", "ResetSession"}
WebOp   == {"Transition", "Delete"}

(* Who calls what, and where such a call can be.                           *)
CallsAreTheirs ==
  \A x \in Caller : req[x] # NoRequest =>
    /\ x \in Conn => req[x].op \in ConnOp
    /\ x \in Admin => req[x].op \in AdminOp
    /\ x \in Web => req[x].op \in WebOp
    /\ req[x].op \in {"Join", "Leave"} => req[x].at \in {"lock", "write"}
    /\ req[x].op = "Transition" => req[x].at = "write"
    /\ req[x].op = "Delete" => req[x].at \in {"session", "write"}

(* The arguments a call works with are those its operation needs.          *)
ArgumentsFit ==
  \A x \in Caller : req[x] # NoRequest =>
    /\ req[x].op = "UpdateFullState" => req[x].dto \in Snapshots
    /\ req[x].op \in {"SetLifecycle", "Transition"} => req[x].target \in Lifecycle
    /\ req[x].op = "Transition" => req[x].target \in {"Ready", "Completed"}
    /\ req[x].op \in {"EndSession", "UpdatePosition", "ResetSession"} /\ req[x].at = "write"
         => req[x].snap # NoSession

Inside(x) == req[x] # NoRequest /\ req[x].at # "lock" /\ req[x].op \notin WebOp

Coordinated == \A x \in Caller : Inside(x) => owner[LockOf[req[x].party]] = x

(* Only an open connection has calls other than its own removal.           *)
CallersAreOpen ==
  \A c \in Conn : req[c] # NoRequest /\ req[c].op # "Leave" => c \in open

(* ResetSessionAsync asked the tracker before it reads the session.        *)
ConnectedIsCurrent ==
  \A a \in Admin :
    At(a, "session") /\ req[a].op = "ResetSession" /\ ~req[a].online
      => ~IsOrganizerConnected(req[a].party)

IInv ==
  /\ CommandsTypeOK
  /\ CallsAreTheirs
  /\ ArgumentsFit
  /\ Coordinated
  /\ MapsAgree
  /\ MarkMeansOffline
  /\ CallersAreOpen
  /\ NoGhostOrganizer
  /\ NoLostUpdate
  /\ ConnectedIsCurrent
  /\ AdminSparesLiveParty
-----------------------------------------------------------------------------
(* The types.                                                              *)

(* Every operation makes a session of what it read.                        *)
LEMMA SessionTypes ==
  ASSUME NEW s \in Session \cup {NoSession}
  PROVE  /\ \A kept \in BOOLEAN : Started(s, kept) \in Session
         /\ Cleared(s) \in Session
         /\ \A dto \in Snapshot : Published(s, dto) \in Session
         /\ s # NoSession => Ended(s) \in Session
         /\ s # NoSession => Positioned(s) \in Session
         /\ Blank \in Session
<1>1. ASSUME NEW kept \in BOOLEAN PROVE Started(s, kept) \in Session
  BY NoSessionAssumption DEF Started, Session, Mode, Status
<1>2. Cleared(s) \in Session /\ Blank \in Session
  BY NoSessionAssumption DEF Cleared, Blank, Session, Mode, Status
<1>3. ASSUME NEW dto \in Snapshot PROVE Published(s, dto) \in Session
  BY NoSessionAssumption DEF Published, Session, Snapshot, Mode, Status
<1>4. s # NoSession => Ended(s) \in Session
  BY NoSessionAssumption DEF Ended, Session, Mode, Status
<1>5. s # NoSession => Positioned(s) \in Session
  BY NoSessionAssumption DEF Positioned, Session, Mode, Status
<1> QED BY <1>1, <1>2, <1>3, <1>4, <1>5

RequestTyped == req \in [Caller -> Request \cup {NoRequest}]

(* A new call is a typed request with the arguments it was issued with.    *)
LEMMA Issued ==
  ASSUME RequestTyped, NEW x \in Caller, NEW op \in AnyOp, NEW p \in Party,
         NEW target \in Lifecycle \cup {NoArg}, NEW dto \in Snapshot \cup {NoArg},
         NEW phase \in Phase, Issue(x, op, p, target, dto, phase)
  PROVE  /\ RequestTyped'
         /\ \A y \in Caller : y # x => req'[y] = req[y]
         /\ req'[x] # NoRequest /\ req[x] = NoRequest
         /\ req'[x].op = op /\ req'[x].party = p /\ req'[x].at = phase
         /\ req'[x].target = target /\ req'[x].dto = dto
<1> DEFINE r == [op |-> op, party |-> p, at |-> phase, snap |-> NoSession,
                 target |-> target, dto |-> dto, life |-> NoArg, online |-> FALSE]
<1>1. r \in Request
  BY DEF Request
<1>2. r # NoRequest
  BY <1>1, RequestAssumption
<1>3. req' = [req EXCEPT ![x] = r]
  BY DEF Issue
<1> HIDE DEF r
<1>4. RequestTyped' /\ req'[x] = r /\ \A y \in Caller : y # x => req'[y] = req[y]
  BY <1>1, <1>3 DEF RequestTyped
<1> QED BY <1>2, <1>4 DEF Issue, r

(* A call that proceeds changes its phase and nothing else.                *)
LEMMA Proceeded ==
  ASSUME RequestTyped, NEW x \in Caller, req[x] # NoRequest,
         NEW phase \in Phase, Proceed(x, phase)
  PROVE  /\ RequestTyped'
         /\ \A y \in Caller : y # x => req'[y] = req[y]
         /\ req'[x] # NoRequest /\ req'[x].at = phase
         /\ req'[x].op = req[x].op /\ req'[x].party = req[x].party
         /\ req'[x].snap = req[x].snap /\ req'[x].target = req[x].target
         /\ req'[x].dto = req[x].dto /\ req'[x].online = req[x].online
<1>1. req[x] \in Request
  BY DEF RequestTyped
<1>2. [req[x] EXCEPT !.at = phase] \in Request
  BY <1>1 DEF Request
<1>3. req'[x] = [req[x] EXCEPT !.at = phase]
  BY DEF Proceed, RequestTyped
<1>4. req'[x] # NoRequest
  BY <1>2, <1>3, RequestAssumption
<1>5. RequestTyped' /\ \A y \in Caller : y # x => req'[y] = req[y]
  BY <1>2 DEF Proceed, RequestTyped
<1> QED BY <1>1, <1>3, <1>4, <1>5 DEF Request

(* A call that returns leaves every other call alone.                      *)
LEMMA Returned ==
  ASSUME RequestTyped, NEW x \in Caller, Return(x)
  PROVE  /\ RequestTyped'
         /\ \A y \in Caller : y # x => req'[y] = req[y]
         /\ req'[x] = NoRequest
BY DEF Return, RequestTyped

(* Releasing a semaphore leaves every other semaphore alone.               *)
LEMMA Released ==
  ASSUME RequestTyped, owner \in [Lock -> Caller \cup {NoCaller}],
         NEW x \in Caller, req[x] # NoRequest, Release(x)
  PROVE  /\ owner' \in [Lock -> Caller \cup {NoCaller}]
         /\ \A l \in Lock : l # LockOf[req[x].party] => owner'[l] = owner[l]
<1>1. req[x].party \in Party
  BY DEF RequestTyped, Request
<1>2. LockOf[req[x].party] \in Lock
  BY <1>1, LockAssumption
<1> QED BY <1>2 DEF Release

(* ReadParty keeps the lifecycle and the tracker's answer in the request.  *)
LEMMA PartyRead ==
  ASSUME CommandsTypeOK, NEW x \in Caller, At(x, "party"),
         req' = [req EXCEPT ![x].at = "session",
                            ![x].life = lifecycle[req[x].party],
                            ![x].online = IsOrganizerConnected(req[x].party)]
  PROVE  /\ RequestTyped'
         /\ \A y \in Caller : y # x => req'[y] = req[y]
         /\ req'[x] # NoRequest /\ req'[x].at = "session"
         /\ req'[x].op = req[x].op /\ req'[x].party = req[x].party
         /\ req'[x].target = req[x].target /\ req'[x].dto = req[x].dto
         /\ req'[x].online = IsOrganizerConnected(req[x].party)
<1> DEFINE r == [req[x] EXCEPT !.at = "session", !.life = lifecycle[req[x].party],
                               !.online = IsOrganizerConnected(req[x].party)]
<1>1. req[x] \in Request /\ RequestTyped
  BY DEF At, CommandsTypeOK, RequestTyped
<1>2. lifecycle[req[x].party] \in Lifecycle /\ IsOrganizerConnected(req[x].party) \in BOOLEAN
  BY <1>1 DEF CommandsTypeOK, Request, IsOrganizerConnected
<1>3. r \in Request
  BY <1>1, <1>2 DEF Request, Phase
<1>4. req' = [req EXCEPT ![x] = r]
  BY <1>1 DEF RequestTyped
<1>5. r # NoRequest /\ r.at = "session" /\ r.op = req[x].op /\ r.party = req[x].party
      /\ r.target = req[x].target /\ r.dto = req[x].dto
      /\ r.online = IsOrganizerConnected(req[x].party)
  BY <1>1, <1>3, RequestAssumption DEF Request
<1> HIDE DEF r
<1>6. RequestTyped' /\ req'[x] = r /\ \A y \in Caller : y # x => req'[y] = req[y]
  BY <1>1, <1>3, <1>4 DEF RequestTyped
<1> QED BY <1>5, <1>6

(* ReadSession keeps the session it read as the call's snapshot.           *)
LEMMA SessionRead ==
  ASSUME CommandsTypeOK, NEW x \in Caller, At(x, "session"),
         req' = [req EXCEPT ![x].at = "write", ![x].snap = session[req[x].party]]
  PROVE  /\ RequestTyped'
         /\ \A y \in Caller : y # x => req'[y] = req[y]
         /\ req'[x] # NoRequest /\ req'[x].at = "write"
         /\ req'[x].op = req[x].op /\ req'[x].party = req[x].party
         /\ req'[x].target = req[x].target /\ req'[x].dto = req[x].dto
         /\ req'[x].snap = session[req[x].party]
<1> DEFINE r == [req[x] EXCEPT !.at = "write", !.snap = session[req[x].party]]
<1>1. req[x] \in Request /\ RequestTyped
  BY DEF At, CommandsTypeOK, RequestTyped
<1>2. session[req[x].party] \in Session \cup {NoSession}
  BY <1>1 DEF CommandsTypeOK, Request
<1>3. r \in Request
  BY <1>1, <1>2 DEF Request, Phase
<1>4. req' = [req EXCEPT ![x] = r]
  BY <1>1 DEF RequestTyped
<1>5. r # NoRequest /\ r.at = "write" /\ r.op = req[x].op /\ r.party = req[x].party
      /\ r.target = req[x].target /\ r.dto = req[x].dto
      /\ r.snap = session[req[x].party]
  BY <1>1, <1>3, RequestAssumption DEF Request
<1> HIDE DEF r
<1>6. RequestTyped' /\ req'[x] = r /\ \A y \in Caller : y # x => req'[y] = req[y]
  BY <1>1, <1>3, <1>4 DEF RequestTyped
<1> QED BY <1>5, <1>6

(* The methods of the tracker keep its types.                              *)
LEMMA TrackerTypes ==
  ASSUME TrackerTypeOK, NEW c \in Conn, NEW p \in Party
  PROVE  /\ RegisterOrganizer(c, p) => TrackerTypeOK'
         /\ TryRemoveOrganizer(c, p) => TrackerTypeOK'
         /\ GraceElapses(p) => TrackerTypeOK'
<1>1. Without(c) \in [Party -> SUBSET Conn]
  BY DEF Without, TrackerTypeOK
<1>2. MarkedWithout(c) \in [Party -> Mark]
  BY DEF MarkedWithout, TrackerTypeOK, Mark
<1>3. RegisterOrganizer(c, p) => TrackerTypeOK'
  BY <1>1, <1>2 DEF RegisterOrganizer, TrackerTypeOK, Mark
<1>4. TryRemoveOrganizer(c, p) => TrackerTypeOK'
  BY <1>1, <1>2 DEF TryRemoveOrganizer, TrackerTypeOK, Mark, trackerVars
<1>5. GraceElapses(p) => TrackerTypeOK'
  BY DEF GraceElapses, TrackerTypeOK, Mark
<1> QED BY <1>3, <1>4, <1>5

-----------------------------------------------------------------------------
(* The steps, one by one: what a proof about CommandsNext has to look at.  *)
LEMMA StepCases ==
  ASSUME CommandsNext
  PROVE  \/ \E c \in Conn : Connect(c) \/ Disconnect(c) \/ Join(c) \/ Leave(c)
         \/ \E c \in Conn, op \in ConnOp \ {"Leave"}, p \in Party, dto \in Snapshot \cup {NoArg} :
              HubCall(c, op, p, dto) /\ (op = "UpdateFullState" => dto \in Snapshots)
         \/ \E a \in Admin, op \in AdminOp, p \in Party, target \in Lifecycle \cup {NoArg} :
              AdminCall(a, op, p, target) /\ (op = "SetLifecycle" => target \in Lifecycle)
         \/ \E w \in Web, p \in Party :
              DeleteCall(w, p) \/ \E target \in Lifecycle : TransitionCall(w, p, target)
         \/ \E x \in Caller : Acquire(x) \/ ReadParty(x) \/ ReadSession(x) \/ WriteSession(x)
              \/ RowVanished(x) \/ WriteLifecycle(x) \/ Notified(x)
              \/ WriteTransition(x) \/ DeleteSession(x) \/ DeleteParty(x)
         \/ \E p \in Party : GraceTick(p)
         \/ Restart
<1>1. ASSUME NEW c \in Conn, Arrive(c)
      PROVE  \/ Connect(c) \/ Disconnect(c)
             \/ \E op \in ConnOp \ {"Leave"}, p \in Party, dto \in Snapshot \cup {NoArg} :
                  HubCall(c, op, p, dto) /\ (op = "UpdateFullState" => dto \in Snapshots)
  BY <1>1, InputAssumption DEF Arrive, ConnOp, HubOp
<1>2. ASSUME NEW a \in Admin, Command(a)
      PROVE  \E op \in AdminOp, p \in Party, target \in Lifecycle \cup {NoArg} :
               AdminCall(a, op, p, target) /\ (op = "SetLifecycle" => target \in Lifecycle)
  BY <1>2, InputAssumption DEF Command, AdminOp
<1>3. ASSUME NEW w \in Web, Rest(w)
      PROVE  \E p \in Party :
               DeleteCall(w, p) \/ \E target \in Lifecycle : TransitionCall(w, p, target)
  BY <1>3, InputAssumption DEF Rest
<1> QED BY <1>1, <1>2, <1>3 DEF CommandsNext, Advance, ConnAdvance

(* Every step keeps the types of the database, the tracker and the calls.  *)
LEMMA TypeStep ==
  ASSUME CommandsTypeOK, CallsAreTheirs, ArgumentsFit, [CommandsNext]_commandVars
  PROVE  CommandsTypeOK'
<1> USE DEF CommandsTypeOK
<1>r. RequestTyped
  BY DEF RequestTyped
<1>c. Conn \subseteq Caller /\ Admin \subseteq Caller /\ Web \subseteq Caller
  BY DEF Caller
<1>1. CASE UNCHANGED commandVars
  BY <1>1 DEF commandVars, dbVars, trackerVars, TrackerTypeOK
<1>2. ASSUME NEW c \in Conn, Connect(c) PROVE CommandsTypeOK'
  BY <1>2 DEF Connect, dbVars, trackerVars, TrackerTypeOK
<1>3. ASSUME NEW c \in Conn, Disconnect(c) PROVE CommandsTypeOK'
  <2>1. /\ open' \subseteq Conn
        /\ UNCHANGED <<trackerVars, dbVars, owner>>
    BY <1>3 DEF Disconnect
  <2>2. RequestTyped'
    <3>1. CASE UNCHANGED req
      BY <3>1, <1>r DEF RequestTyped
    <3>2. CASE connectionToParty[c] # NoParty
               /\ Issue(c, "Leave", connectionToParty[c], NoArg, NoArg, "lock")
      <4>1. connectionToParty[c] \in Party
        BY <3>2 DEF TrackerTypeOK
      <4> QED BY <1>r, <1>c, <3>2, <4>1, Issued DEF AnyOp, Phase
    <3> QED BY <1>3, <3>1, <3>2 DEF Disconnect
  <2> QED BY <2>1, <2>2 DEF dbVars, trackerVars, TrackerTypeOK, RequestTyped
<1>4. ASSUME NEW c \in Conn, Join(c) PROVE CommandsTypeOK'
  <2>1. req[c] # NoRequest /\ req[c].party \in Party
    BY <1>4, <1>c DEF Join, At, Request
  <2>2. TrackerTypeOK'
    BY <1>4, <2>1, TrackerTypes DEF Join
  <2>3. RequestTyped' /\ owner' \in [Lock -> Caller \cup {NoCaller}]
    BY <1>4, <1>r, <1>c, <2>1, Returned, Released DEF Join
  <2> QED BY <1>4, <2>2, <2>3 DEF Join, dbVars, RequestTyped
<1>5. ASSUME NEW c \in Conn, Leave(c) PROVE CommandsTypeOK'
  <2>1. req[c] # NoRequest /\ req[c].party \in Party
    BY <1>5, <1>c DEF Leave, At, Request
  <2>2. TrackerTypeOK'
    BY <1>5, <2>1, TrackerTypes DEF Leave
  <2>3. RequestTyped' /\ owner' \in [Lock -> Caller \cup {NoCaller}]
    BY <1>5, <1>r, <1>c, <2>1, Returned, Released DEF Leave
  <2> QED BY <1>5, <2>2, <2>3 DEF Leave, dbVars, RequestTyped
<1>6. ASSUME NEW c \in Conn, NEW op \in ConnOp \ {"Leave"}, NEW p \in Party,
             NEW dto \in Snapshot \cup {NoArg}, HubCall(c, op, p, dto)
      PROVE  CommandsTypeOK'
  <2>1. RequestTyped'
    BY <1>6, <1>r, <1>c, Issued DEF HubCall, ConnOp, AnyOp, SessionOp, Phase
  <2> QED BY <1>6, <2>1 DEF HubCall, dbVars, trackerVars, TrackerTypeOK, RequestTyped
<1>7. ASSUME NEW a \in Admin, NEW op \in AdminOp, NEW p \in Party,
             NEW target \in Lifecycle \cup {NoArg}, AdminCall(a, op, p, target)
      PROVE  CommandsTypeOK'
  <2>1. RequestTyped'
    BY <1>7, <1>r, <1>c, Issued DEF AdminCall, AdminOp, AnyOp, SessionOp, Phase
  <2> QED BY <1>7, <2>1 DEF AdminCall, dbVars, trackerVars, TrackerTypeOK, RequestTyped
<1>8. ASSUME NEW w \in Web, NEW p \in Party, DeleteCall(w, p) PROVE CommandsTypeOK'
  <2>1. RequestTyped'
    BY <1>8, <1>r, <1>c, Issued DEF DeleteCall, AnyOp, Phase
  <2> QED BY <1>8, <2>1 DEF DeleteCall, dbVars, trackerVars, TrackerTypeOK, RequestTyped
<1>9. ASSUME NEW w \in Web, NEW p \in Party, NEW target \in Lifecycle,
             TransitionCall(w, p, target)
      PROVE  CommandsTypeOK'
  <2>1. RequestTyped'
    BY <1>9, <1>r, <1>c, Issued DEF TransitionCall, AnyOp, Phase
  <2> QED BY <1>9, <2>1 DEF TransitionCall, dbVars, trackerVars, TrackerTypeOK, RequestTyped
<1>10. ASSUME NEW x \in Caller, Acquire(x) PROVE CommandsTypeOK'
  <2>1. req[x] # NoRequest /\ req[x].party \in Party
    BY <1>10 DEF Acquire, At, Request
  <2>2. RequestTyped'
    BY <1>10, <1>r, <2>1, Proceeded DEF Acquire, Phase
  <2>3. owner' \in [Lock -> Caller \cup {NoCaller}]
    BY <1>10, <2>1 DEF Acquire
  <2> QED BY <1>10, <2>2, <2>3 DEF Acquire, dbVars, trackerVars, TrackerTypeOK, RequestTyped
<1>11. ASSUME NEW x \in Caller, ReadParty(x) PROVE CommandsTypeOK'
  <2>1. req[x] # NoRequest
    BY <1>11 DEF ReadParty, At
  <2>2. RequestTyped' /\ owner' \in [Lock -> Caller \cup {NoCaller}]
    BY <1>11, <1>r, <2>1, Returned, Released, PartyRead DEF ReadParty
  <2> QED BY <1>11, <2>2 DEF ReadParty, dbVars, trackerVars, TrackerTypeOK, RequestTyped
<1>12. ASSUME NEW x \in Caller, ReadSession(x) PROVE CommandsTypeOK'
  <2>1. req[x] # NoRequest
    BY <1>12 DEF ReadSession, At
  <2>2. RequestTyped' /\ owner' \in [Lock -> Caller \cup {NoCaller}]
    BY <1>12, <1>r, <2>1, Returned, Released, SessionRead DEF ReadSession
  <2> QED BY <1>12, <2>2 DEF ReadSession, dbVars, trackerVars, TrackerTypeOK, RequestTyped
<1>13. ASSUME NEW x \in Caller, WriteSession(x) PROVE CommandsTypeOK'
  <2>1. /\ req[x] # NoRequest /\ req[x] \in Request /\ req[x].at = "write"
        /\ req[x].party \in Party /\ req[x].snap \in Session \cup {NoSession}
    BY <1>13 DEF WriteSession, At, Request
  <2>2. /\ req[x].op = "UpdateFullState" => req[x].dto \in Snapshots
        /\ req[x].op \in {"EndSession", "UpdatePosition"} => req[x].snap # NoSession
    BY <2>1 DEF ArgumentsFit
  <2>d. Snapshots \subseteq Snapshot
    BY InputAssumption
  <2>3. \E s \in Session : Store(x, s)
    BY <1>13, <2>1, <2>2, <2>d, SessionTypes DEF WriteSession, Rewrite
  <2>5. session' \in [Party -> Session \cup {NoSession}]
    BY <2>1, <2>3 DEF Store
  <2>4. RequestTyped' /\ owner' \in [Lock -> Caller \cup {NoCaller}]
    BY <1>13, <1>r, <2>1, Returned, Released, Proceeded DEF WriteSession, Phase
  <2> QED BY <1>13, <2>4, <2>5 DEF WriteSession, trackerVars, TrackerTypeOK, RequestTyped
<1>14. ASSUME NEW x \in Caller, RowVanished(x) \/ Notified(x) PROVE CommandsTypeOK'
  <2>1. req[x] # NoRequest
    BY <1>14 DEF RowVanished, Notified, At
  <2>2. RequestTyped' /\ owner' \in [Lock -> Caller \cup {NoCaller}]
    BY <1>14, <1>r, <2>1, Returned, Released DEF RowVanished, Notified
  <2> QED BY <1>14, <2>2
          DEF RowVanished, Notified, dbVars, trackerVars, TrackerTypeOK, RequestTyped
<1>15. ASSUME NEW x \in Caller, WriteLifecycle(x) PROVE CommandsTypeOK'
  <2>1. req[x] # NoRequest /\ req[x].target \in Lifecycle
    BY <1>15 DEF WriteLifecycle, At, ArgumentsFit
  <2>2. RequestTyped' /\ owner' \in [Lock -> Caller \cup {NoCaller}]
    BY <1>15, <1>r, <2>1, Returned, Released, Proceeded DEF WriteLifecycle, Phase
  <2>3. lifecycle' \in [Party -> Lifecycle]
    BY <1>15, <2>1 DEF WriteLifecycle
  <2> QED BY <1>15, <2>2, <2>3 DEF WriteLifecycle, trackerVars, TrackerTypeOK, RequestTyped
<1>16. ASSUME NEW x \in Caller, WriteTransition(x) PROVE CommandsTypeOK'
  <2>1. req[x] # NoRequest /\ req[x].target \in Lifecycle
    BY <1>16 DEF WriteTransition, At, ArgumentsFit
  <2>2. RequestTyped'
    BY <1>16, <1>r, Returned DEF WriteTransition
  <2>3. lifecycle' \in [Party -> Lifecycle]
    BY <1>16, <2>1 DEF WriteTransition
  <2> QED BY <1>16, <2>2, <2>3 DEF WriteTransition, trackerVars, TrackerTypeOK, RequestTyped
<1>17. ASSUME NEW x \in Caller, DeleteSession(x) \/ DeleteParty(x) PROVE CommandsTypeOK'
  <2>1. req[x] # NoRequest
    BY <1>17 DEF DeleteSession, DeleteParty, At
  <2>2. RequestTyped'
    BY <1>17, <1>r, <2>1, Returned, Proceeded DEF DeleteSession, DeleteParty, Phase
  <2> QED BY <1>17, <2>2
          DEF DeleteSession, DeleteParty, trackerVars, TrackerTypeOK, RequestTyped
<1>18. ASSUME NEW p \in Party, GraceTick(p) PROVE CommandsTypeOK'
  <2>1. TrackerTypeOK'
    <3>1. CASE Conn = {}
      BY <1>18, <3>1 DEF GraceTick, GraceElapses, TrackerTypeOK, Mark
    <3>2. CASE Conn # {}
      BY <1>18, <3>2, TrackerTypes DEF GraceTick
    <3> QED BY <3>1, <3>2
  <2> QED BY <1>18, <2>1 DEF GraceTick, dbVars
<1>19. CASE Restart
  BY <1>19 DEF Restart, dbVars, TrackerTypeOK, Mark
<1>20. CASE CommandsNext
  BY <1>20, StepCases, <1>2, <1>3, <1>4, <1>5, <1>6, <1>7, <1>8, <1>9, <1>10, <1>11, <1>12,
     <1>13, <1>14, <1>15, <1>16, <1>17, <1>18, <1>19
<1> QED BY <1>1, <1>20

-----------------------------------------------------------------------------
(* How one call changes in a step, and how one semaphore does.             *)

IsNew(y) ==
  /\ req[y] = NoRequest
  /\ req'[y].op = "UpdateFullState" => req'[y].dto \in Snapshots
  /\ req'[y].op \in {"SetLifecycle", "Transition"} => req'[y].target \in Lifecycle
  /\ req'[y].op = "Transition" => req'[y].target \in {"Ready", "Completed"}
  /\ \/ /\ y \in Conn /\ req'[y].op \in ConnOp \ {"Leave"} /\ req'[y].at = "lock"
        /\ y \in open /\ open' = open
     \/ /\ y \in Conn /\ req'[y].op = "Leave" /\ req'[y].at = "lock"
        /\ req'[y].party = connectionToParty[y] /\ Disconnect(y)
     \/ y \in Admin /\ req'[y].op \in AdminOp /\ req'[y].at = "lock"
     \/ y \in Web /\ req'[y].op = "Delete" /\ req'[y].at = "session"
     \/ y \in Web /\ req'[y].op = "Transition" /\ req'[y].at = "write"

MovesOn(y) ==
  /\ req[y] # NoRequest
  /\ req'[y].op = req[y].op /\ req'[y].party = req[y].party
  /\ req'[y].target = req[y].target /\ req'[y].dto = req[y].dto
  /\ \/ /\ Acquire(y)
        /\ req'[y].at = IF req[y].op \in {"Join", "Leave"} THEN "write" ELSE "party"
     \/ /\ ReadParty(y) /\ owner' = owner /\ req'[y].at = "session"
        /\ req'[y].online = IsOrganizerConnected(req[y].party)
     \/ /\ ReadSession(y) /\ owner' = owner /\ req'[y].at = "write"
        /\ req'[y].snap = session[req[y].party] /\ ~SessionDeclines(y, req'[y].snap)
     \/ DeleteSession(y) /\ req'[y].at = "write"
     \/ /\ WriteSession(y) \/ WriteLifecycle(y)
        /\ owner' = owner /\ req'[y].at = "notify"

(* A call that changed and is not over has just arrived or moved on.       *)
LEMMA RequestSteps ==
  ASSUME CommandsTypeOK, CallsAreTheirs, ArgumentsFit, CommandsNext,
         NEW y \in Caller, req'[y] # NoRequest, req'[y] # req[y]
  PROVE  IsNew(y) \/ MovesOn(y)
<1>r. RequestTyped
  BY DEF RequestTyped, CommandsTypeOK
<1>c. Conn \subseteq Caller /\ Admin \subseteq Caller /\ Web \subseteq Caller
  BY DEF Caller
<1>1. ASSUME NEW c \in Conn, Connect(c) \/ Disconnect(c) \/ Join(c) \/ Leave(c)
      PROVE  IsNew(y)
  <2>1. Disconnect(c) /\ req' # req
    BY <1>1, <1>c, <1>r, Returned DEF Connect, Join, Leave
  <2>2. connectionToParty[c] \in Party
        /\ Issue(c, "Leave", connectionToParty[c], NoArg, NoArg, "lock")
    BY <2>1 DEF Disconnect, CommandsTypeOK, TrackerTypeOK
  <2>3. y = c /\ req[y] = NoRequest /\ req'[y].op = "Leave" /\ req'[y].at = "lock"
        /\ req'[y].party = connectionToParty[y]
    <3>1. "Leave" \in AnyOp /\ "lock" \in Phase /\ NoArg \in Lifecycle \cup {NoArg}
          /\ NoArg \in Snapshot \cup {NoArg} /\ c \in Caller
      BY <1>c DEF AnyOp, Phase
    <3>2. /\ \A z \in Caller : z # c => req'[z] = req[z]
          /\ req[c] = NoRequest /\ req'[c].op = "Leave" /\ req'[c].at = "lock"
          /\ req'[c].party = connectionToParty[c]
      BY ONLY <2>2, <3>1, <1>r, Issued
    <3> QED BY <3>2
  <2> QED BY <2>1, <2>3 DEF IsNew
<1>2. ASSUME NEW c \in Conn, NEW op \in ConnOp \ {"Leave"}, NEW p \in Party,
             NEW dto \in Snapshot \cup {NoArg}, HubCall(c, op, p, dto),
             op = "UpdateFullState" => dto \in Snapshots
      PROVE  IsNew(y)
  <2>1. y = c /\ req[y] = NoRequest /\ req'[y].op = op /\ req'[y].at = "lock"
        /\ req'[y].dto = dto
    BY <1>2, <1>c, <1>r, Issued DEF HubCall, ConnOp, AnyOp, SessionOp, Phase
  <2> QED BY <1>2, <2>1 DEF HubCall, IsNew, ConnOp, HubOp
<1>3. ASSUME NEW a \in Admin, NEW op \in AdminOp, NEW p \in Party,
             NEW target \in Lifecycle \cup {NoArg}, AdminCall(a, op, p, target),
             op = "SetLifecycle" => target \in Lifecycle
      PROVE  IsNew(y)
  <2>1. y = a /\ req[y] = NoRequest /\ req'[y].op = op /\ req'[y].at = "lock"
        /\ req'[y].target = target
    <3>1. op \in AnyOp /\ "lock" \in Phase /\ NoArg \in Snapshot \cup {NoArg} /\ a \in Caller
      BY <1>c DEF AdminOp, AnyOp, SessionOp, Phase
    <3>2. Issue(a, op, p, target, NoArg, "lock")
      BY <1>3 DEF AdminCall
    <3>3. /\ \A z \in Caller : z # a => req'[z] = req[z]
          /\ req[a] = NoRequest /\ req'[a].op = op /\ req'[a].at = "lock"
          /\ req'[a].target = target
      BY ONLY <3>1, <3>2, <1>r, Issued, target \in Lifecycle \cup {NoArg}, p \in Party
    <3> QED BY <3>3
  <2> QED BY <1>3, <2>1 DEF IsNew, AdminOp
<1>4. ASSUME NEW w \in Web, NEW p \in Party, DeleteCall(w, p)
      PROVE  IsNew(y)
  <2>1. y = w /\ req[y] = NoRequest /\ req'[y].op = "Delete" /\ req'[y].at = "session"
    BY <1>4, <1>c, <1>r, Issued DEF DeleteCall, AnyOp, Phase
  <2> QED BY <2>1 DEF IsNew
<1>5. ASSUME NEW w \in Web, NEW p \in Party, NEW target \in Lifecycle,
             TransitionCall(w, p, target)
      PROVE  IsNew(y)
  <2>1. y = w /\ req[y] = NoRequest /\ req'[y].op = "Transition" /\ req'[y].at = "write"
        /\ req'[y].target = target
    BY <1>5, <1>c, <1>r, Issued DEF TransitionCall, AnyOp, Phase
  <2>2. target \in {"Ready", "Completed"}
    BY <1>5 DEF TransitionCall, OrganizerTransitions
  <2> QED BY <2>1, <2>2 DEF IsNew
<1>6. ASSUME NEW x \in Caller, Acquire(x)
      PROVE  MovesOn(y)
  <2>1. req[x] # NoRequest
    BY <1>6 DEF Acquire, At
  <2>2. Proceed(x, IF req[x].op \in {"Join", "Leave"} THEN "write" ELSE "party")
    BY <1>6 DEF Acquire
  <2>3. y = x
    BY <1>r, <2>1, <2>2, Proceeded DEF Phase
  <2> QED BY <1>6, <1>r, <2>1, <2>2, <2>3, Proceeded DEF MovesOn, Phase
<1>7. ASSUME NEW x \in Caller, ReadParty(x)
      PROVE  MovesOn(y)
  <2>1. At(x, "party") /\ req[x] # NoRequest
    BY <1>7 DEF ReadParty, At
  <2>2. /\ owner' = owner
        /\ req' = [req EXCEPT ![x].at = "session",
                              ![x].life = lifecycle[req[x].party],
                              ![x].online = IsOrganizerConnected(req[x].party)]
    BY <1>7, <1>r, Returned DEF ReadParty
  <2>3. y = x
    BY <2>1, <2>2, PartyRead
  <2> QED BY <1>7, <2>1, <2>2, <2>3, PartyRead DEF MovesOn
<1>8. ASSUME NEW x \in Caller, ReadSession(x)
      PROVE  MovesOn(y)
  <2>1. At(x, "session") /\ req[x] # NoRequest
    BY <1>8 DEF ReadSession, At
  <2>2. /\ owner' = owner /\ ~SessionDeclines(x, session[req[x].party])
        /\ req' = [req EXCEPT ![x].at = "write", ![x].snap = session[req[x].party]]
    BY <1>8, <1>r, Returned DEF ReadSession
  <2>3. y = x
    BY <2>1, <2>2, SessionRead
  <2> QED BY <1>8, <2>1, <2>2, <2>3, SessionRead DEF MovesOn
<1>9. ASSUME NEW x \in Caller, WriteSession(x) \/ WriteLifecycle(x)
      PROVE  MovesOn(y)
  <2>1. req[x] # NoRequest
    BY <1>9 DEF WriteSession, WriteLifecycle, At
  <2>2. owner' = owner /\ Proceed(x, "notify")
    BY <1>9, <1>r, Returned DEF WriteSession, WriteLifecycle
  <2>3. y = x
    BY <1>r, <2>1, <2>2, Proceeded DEF Phase
  <2> QED BY <1>9, <1>r, <2>1, <2>2, <2>3, Proceeded DEF MovesOn, Phase
<1>10. ASSUME NEW x \in Caller, DeleteSession(x)
      PROVE  MovesOn(y)
  <2>1. req[x] # NoRequest /\ Proceed(x, "write")
    BY <1>10 DEF DeleteSession, At
  <2>3. y = x
    BY <1>r, <2>1, Proceeded DEF Phase
  <2> QED BY <1>10, <1>r, <2>1, <2>3, Proceeded DEF MovesOn, Phase
<1>11. ASSUME NEW x \in Caller, RowVanished(x) \/ Notified(x) \/ WriteTransition(x) \/ DeleteParty(x)
      PROVE  FALSE
  BY <1>11, <1>r, Returned DEF RowVanished, Notified, WriteTransition, DeleteParty
<1>12. CASE \E p \in Party : GraceTick(p)
  BY <1>12 DEF GraceTick
<1>13. CASE Restart
  BY <1>13 DEF Restart
<1> QED BY StepCases, <1>1, <1>2, <1>3, <1>4, <1>5, <1>6, <1>7, <1>8, <1>9, <1>10, <1>11, <1>12, <1>13

(* Steps of a call past the semaphore.                                     *)
Coordinates(z) ==
  \/ ReadParty(z) \/ ReadSession(z) \/ WriteSession(z) \/ RowVanished(z)
  \/ WriteLifecycle(z) \/ Notified(z) \/ (z \in Conn /\ (Join(z) \/ Leave(z)))

(* A call that is over was ended by a step of its own, or by a restart.    *)
LEMMA CallEnds ==
  ASSUME CommandsTypeOK, CommandsNext, NEW y \in Caller, req[y] # NoRequest, req'[y] = NoRequest
  PROVE  \/ Coordinates(y) \/ WriteTransition(y) \/ DeleteSession(y) \/ DeleteParty(y)
         \/ Restart
<1>r. RequestTyped
  BY DEF RequestTyped, CommandsTypeOK
<1>1. ASSUME NEW z \in Caller, ReadParty(z) \/ ReadSession(z) PROVE z = y
  <2>1. req[z] # NoRequest /\ At(z, req[z].at)
    BY <1>1 DEF ReadParty, ReadSession, At
  <2>2. CASE Return(z)
    BY <1>r, <2>2, Returned
  <2>3. CASE ReadParty(z) /\ ~Return(z)
    BY <2>1, <2>3, PartyRead DEF ReadParty
  <2>4. CASE ReadSession(z) /\ ~Return(z)
    BY <2>1, <2>4, SessionRead DEF ReadSession
  <2> QED BY <1>1, <2>2, <2>3, <2>4
<1>2. ASSUME NEW z \in Caller,
             \/ Join(z) \/ Leave(z) \/ Acquire(z)
             \/ WriteSession(z) \/ RowVanished(z) \/ WriteLifecycle(z) \/ Notified(z)
             \/ WriteTransition(z) \/ DeleteSession(z) \/ DeleteParty(z)
      PROVE  z = y /\ ~Acquire(z)
  <2>1. req[z] # NoRequest
    BY <1>2 DEF WriteSession, RowVanished, WriteLifecycle, Notified, WriteTransition,
                DeleteSession, DeleteParty, Join, Leave, Acquire, At
  <2>2. Return(z) \/ \E phase \in Phase : Proceed(z, phase)
    BY <1>2 DEF WriteSession, RowVanished, WriteLifecycle, Notified, WriteTransition,
                DeleteSession, DeleteParty, Join, Leave, Acquire, Phase
  <2>3. z = y
    BY <1>r, <2>1, <2>2, Returned, Proceeded
  <2>4. Acquire(z) => \E phase \in {"write", "party"} : Proceed(z, phase)
    BY DEF Acquire
  <2> QED BY <1>r, <2>1, <2>3, <2>4, Proceeded DEF Phase
<1>3. ASSUME NEW d \in Caller, req[d] = NoRequest, NEW v, req' = [req EXCEPT ![d] = v]
      PROVE  FALSE
  BY <1>r, <1>3 DEF RequestTyped
<1>4. CASE \E d \in Conn : Connect(d) \/ Disconnect(d)
  BY <1>3, <1>4 DEF Connect, Disconnect, Issue, Caller
<1>5. CASE \E d \in Conn, op \in ConnOp \ {"Leave"}, p \in Party, dto \in Snapshot \cup {NoArg} :
             HubCall(d, op, p, dto)
  BY <1>3, <1>5 DEF HubCall, Issue, Caller
<1>6. CASE \E a \in Admin, op \in AdminOp, p \in Party, target \in Lifecycle \cup {NoArg} :
             AdminCall(a, op, p, target)
  BY <1>3, <1>6 DEF AdminCall, Issue, Caller
<1>7. CASE \E w \in Web, p \in Party :
             DeleteCall(w, p) \/ \E target \in Lifecycle : TransitionCall(w, p, target)
  BY <1>3, <1>7 DEF DeleteCall, TransitionCall, Issue, Caller
<1>8. CASE \E p \in Party : GraceTick(p)
  BY <1>8 DEF GraceTick
<1> QED BY StepCases, <1>1, <1>2, <1>4, <1>5, <1>6, <1>7, <1>8 DEF Coordinates, Caller

(* Whoever takes such a step is past the semaphore.                        *)
LEMMA Insiders ==
  ASSUME CallsAreTheirs, NEW z \in Caller, Coordinates(z)
  PROVE  Inside(z)
BY DEF Coordinates, CallsAreTheirs, Inside, WebOp, SessionOp, HubOp, Rewrite, At,
       ReadParty, ReadSession, WriteSession, RowVanished, WriteLifecycle, Notified, Join, Leave

(* A semaphore is taken by a caller that waits for it and given back by    *)
(* one that returns, or lost with the process.                             *)
LEMMA OwnerSteps ==
  ASSUME CommandsTypeOK, CallsAreTheirs, CommandsNext, NEW l \in Lock, owner'[l] # owner[l]
  PROVE  \/ owner[l] = NoCaller
         \/ \E z \in Caller : Inside(z) /\ l = LockOf[req[z].party] /\ req'[z] = NoRequest
         \/ Restart
<1>r. RequestTyped /\ owner \in [Lock -> Caller \cup {NoCaller}]
  BY DEF RequestTyped, CommandsTypeOK
<1>1. ASSUME NEW z \in Caller, Coordinates(z)
      PROVE  Inside(z) /\ l = LockOf[req[z].party] /\ req'[z] = NoRequest
  <2>1. Inside(z) /\ req[z] # NoRequest
    BY <1>1, Insiders DEF Inside
  <2>2. Return(z) /\ Release(z)
    BY <1>1 DEF Coordinates, ReadParty, ReadSession, WriteSession, RowVanished, WriteLifecycle,
                Notified, Join, Leave
  <2> QED BY <1>r, <2>1, <2>2, Returned, Released
<1>2. ASSUME NEW z \in Caller, Acquire(z)
      PROVE  owner[l] = NoCaller
  BY <1>2, <1>r DEF Acquire
<1>3. CASE \E c \in Conn, op \in ConnOp \ {"Leave"}, p \in Party, dto \in Snapshot \cup {NoArg} :
             HubCall(c, op, p, dto)
  BY <1>3 DEF HubCall
<1>4. CASE \E a \in Admin, op \in AdminOp, p \in Party, target \in Lifecycle \cup {NoArg} :
             AdminCall(a, op, p, target)
  BY <1>4 DEF AdminCall
<1>5. CASE \E w \in Web, p \in Party :
             DeleteCall(w, p) \/ \E target \in Lifecycle : TransitionCall(w, p, target)
  BY <1>5 DEF DeleteCall, TransitionCall
<1>6. CASE \E x \in Caller : WriteTransition(x) \/ DeleteSession(x) \/ DeleteParty(x)
  BY <1>6 DEF WriteTransition, DeleteSession, DeleteParty
<1>7. CASE \E p \in Party : GraceTick(p)
  BY <1>7 DEF GraceTick
<1>8. CASE \E c \in Conn : Connect(c) \/ Disconnect(c)
  BY <1>8 DEF Connect, Disconnect
<1> QED BY StepCases, <1>1, <1>2, <1>3, <1>4, <1>5, <1>6, <1>7, <1>8 DEF Coordinates, Caller

(* What changes a stored session.                                          *)
LEMMA SessionSteps ==
  ASSUME CommandsTypeOK, CallsAreTheirs, CommandsNext, NEW p \in Party, session'[p] # session[p]
  PROVE  \/ \E z \in Caller : WriteSession(z) /\ Inside(z) /\ req[z].party = p
         \/ \E w \in Web : DeleteSession(w) /\ req[w].party = p /\ session'[p] = NoSession
<1>1. ASSUME NEW z \in Caller, WriteSession(z)
      PROVE  Inside(z) /\ req[z].party = p
  <2>1. \E s : Store(z, s)
    BY <1>1 DEF WriteSession, Rewrite
  <2>2. req[z].party = p
    BY <2>1 DEF Store, CommandsTypeOK
  <2> QED BY <1>1, <2>2, Insiders DEF Coordinates
<1>2. ASSUME NEW z \in Caller, DeleteSession(z)
      PROVE  z \in Web /\ req[z].party = p /\ session'[p] = NoSession
  <2>1. z \in Web
    BY <1>2 DEF DeleteSession, At, CallsAreTheirs, Caller, ConnOp, HubOp, AdminOp
  <2> QED BY <1>2, <2>1 DEF DeleteSession, CommandsTypeOK
<1>3. CASE \E c \in Conn : Connect(c) \/ Disconnect(c) \/ Join(c) \/ Leave(c)
  BY <1>3 DEF Connect, Disconnect, Join, Leave, dbVars
<1>4. CASE \E c \in Conn, op \in ConnOp \ {"Leave"}, q \in Party, dto \in Snapshot \cup {NoArg} :
             HubCall(c, op, q, dto)
  BY <1>4 DEF HubCall, dbVars
<1>5. CASE \E a \in Admin, op \in AdminOp, q \in Party, target \in Lifecycle \cup {NoArg} :
             AdminCall(a, op, q, target)
  BY <1>5 DEF AdminCall, dbVars
<1>6. CASE \E w \in Web, q \in Party :
             DeleteCall(w, q) \/ \E target \in Lifecycle : TransitionCall(w, q, target)
  BY <1>6 DEF DeleteCall, TransitionCall, dbVars
<1>7. CASE \E x \in Caller : \/ Acquire(x) \/ ReadParty(x) \/ ReadSession(x) \/ RowVanished(x)
                             \/ WriteLifecycle(x) \/ Notified(x) \/ WriteTransition(x)
                             \/ DeleteParty(x)
  BY <1>7 DEF Acquire, ReadParty, ReadSession, RowVanished, WriteLifecycle, Notified,
              WriteTransition, DeleteParty, dbVars
<1>8. CASE (\E q \in Party : GraceTick(q)) \/ Restart
  BY <1>8 DEF GraceTick, Restart, dbVars
<1> QED BY StepCases, <1>1, <1>2, <1>3, <1>4, <1>5, <1>6, <1>7, <1>8

(* What changes the tracker.                                               *)
LEMMA TrackerSteps ==
  ASSUME CommandsNext
  PROVE  \/ UNCHANGED trackerVars
         \/ \E c \in Conn : Join(c) \/ Leave(c)
         \/ \E p \in Party : GraceTick(p)
         \/ Restart
<1>1. CASE \E c \in Conn : Connect(c) \/ Disconnect(c)
  BY <1>1 DEF Connect, Disconnect
<1>2. CASE \E c \in Conn, op \in ConnOp \ {"Leave"}, p \in Party, dto \in Snapshot \cup {NoArg} :
             HubCall(c, op, p, dto)
  BY <1>2 DEF HubCall
<1>3. CASE \E a \in Admin, op \in AdminOp, p \in Party, target \in Lifecycle \cup {NoArg} :
             AdminCall(a, op, p, target)
  BY <1>3 DEF AdminCall
<1>4. CASE \E w \in Web, p \in Party :
             DeleteCall(w, p) \/ \E target \in Lifecycle : TransitionCall(w, p, target)
  BY <1>4 DEF DeleteCall, TransitionCall
<1>5. CASE \E x \in Caller : Acquire(x) \/ ReadParty(x) \/ ReadSession(x) \/ WriteSession(x)
             \/ RowVanished(x) \/ WriteLifecycle(x) \/ Notified(x)
             \/ WriteTransition(x) \/ DeleteSession(x) \/ DeleteParty(x)
  BY <1>5 DEF Acquire, ReadParty, ReadSession, WriteSession, RowVanished, WriteLifecycle,
              Notified, WriteTransition, DeleteSession, DeleteParty
<1> QED BY StepCases, <1>1, <1>2, <1>3, <1>4, <1>5

-----------------------------------------------------------------------------
(* What each step preserves.                                               *)

(* Calls stay with the callers, phases and arguments they may have.        *)
LEMMA CallsStep ==
  ASSUME CommandsTypeOK, CallsAreTheirs, ArgumentsFit, CommandsNext
  PROVE  CallsAreTheirs' /\ ArgumentsFit'
<1> SUFFICES ASSUME NEW y \in Caller, (req[y] # NoRequest)'
             PROVE  /\ (/\ y \in Conn => req[y].op \in ConnOp
                        /\ y \in Admin => req[y].op \in AdminOp
                        /\ y \in Web => req[y].op \in WebOp
                        /\ req[y].op \in {"Join", "Leave"} => req[y].at \in {"lock", "write"}
                        /\ req[y].op = "Transition" => req[y].at = "write"
                        /\ req[y].op = "Delete" => req[y].at \in {"session", "write"})'
                    /\ (/\ req[y].op = "UpdateFullState" => req[y].dto \in Snapshots
                        /\ req[y].op \in {"SetLifecycle", "Transition"} => req[y].target \in Lifecycle
                        /\ req[y].op = "Transition" => req[y].target \in {"Ready", "Completed"}
                        /\ req[y].op \in {"EndSession", "UpdatePosition", "ResetSession"}
                             /\ req[y].at = "write"
                             => req[y].snap # NoSession)'
  BY DEF CallsAreTheirs, ArgumentsFit
<1>1. CASE req'[y] = req[y]
  BY <1>1 DEF CallsAreTheirs, ArgumentsFit
<1>2. CASE req'[y] # req[y] /\ IsNew(y)
  BY <1>2, CallerAssumption DEF IsNew, ConnOp, HubOp, AdminOp, WebOp
<1>3. CASE req'[y] # req[y] /\ MovesOn(y)
  <2>1. /\ y \in Conn => req[y].op \in ConnOp
        /\ y \in Admin => req[y].op \in AdminOp
        /\ y \in Web => req[y].op \in WebOp
        /\ req[y].op \in {"Join", "Leave"} => req[y].at \in {"lock", "write"}
        /\ req[y].op = "Transition" => req[y].at = "write"
        /\ req[y].op = "Delete" => req[y].at \in {"session", "write"}
        /\ req[y].op = "UpdateFullState" => req[y].dto \in Snapshots
        /\ req[y].op \in {"SetLifecycle", "Transition"} => req[y].target \in Lifecycle
        /\ req[y].op = "Transition" => req[y].target \in {"Ready", "Completed"}
        /\ req'[y].op = req[y].op /\ req'[y].target = req[y].target /\ req'[y].dto = req[y].dto
    BY <1>3 DEF MovesOn, CallsAreTheirs, ArgumentsFit
  <2>2. CASE Acquire(y) /\ req'[y].at = IF req[y].op \in {"Join", "Leave"} THEN "write" ELSE "party"
    BY <2>1, <2>2 DEF Acquire, At
  <2>3. CASE ReadParty(y) /\ req'[y].at = "session"
    BY <2>1, <2>3 DEF ReadParty, At
  <2>4. CASE ReadSession(y) /\ req'[y].at = "write" /\ ~SessionDeclines(y, req'[y].snap)
    BY <2>1, <2>4 DEF ReadSession, At, SessionDeclines
  <2>5. CASE DeleteSession(y) /\ req'[y].at = "write"
    BY <2>1, <2>5 DEF DeleteSession, At
  <2>6. CASE (WriteSession(y) \/ WriteLifecycle(y)) /\ req'[y].at = "notify"
    BY <2>1, <2>6 DEF WriteSession, WriteLifecycle, Rewrite, At
  <2> QED BY <1>3, <2>2, <2>3, <2>4, <2>5, <2>6 DEF MovesOn
<1> QED BY <1>1, <1>2, <1>3, RequestSteps

(* A call past the semaphore owns it, also after a step of any other       *)
(* call.                                                                   *)
LEMMA CoordinatedStep ==
  ASSUME CommandsTypeOK, CallsAreTheirs, ArgumentsFit, Coordinated, CommandsNext
  PROVE  Coordinated'
<1> SUFFICES ASSUME NEW y \in Caller, Inside(y)'
             PROVE  (owner[LockOf[req[y].party]] = y)'
  BY DEF Coordinated
<1>0. req'[y] # NoRequest
  BY DEF Inside
<1>1. CASE req'[y] = req[y]
  <2>1. Inside(y) /\ owner[LockOf[req[y].party]] = y /\ y # NoCaller
    BY <1>1, CallerAssumption DEF Inside, Coordinated
  <2>2. LockOf[req[y].party] \in Lock
    BY <1>0, <1>1, LockAssumption DEF CommandsTypeOK, Request
  <2>3. ~Restart
    BY <1>0 DEF Restart
  <2> QED BY <1>0, <1>1, <2>1, <2>2, <2>3, OwnerSteps DEF Coordinated
<1>2. CASE req'[y] # req[y] /\ IsNew(y)
  BY <1>2 DEF IsNew, Inside, WebOp
<1>3. CASE req'[y] # req[y] /\ MovesOn(y)
  <2>1. req[y] # NoRequest /\ req'[y].op = req[y].op /\ req'[y].party = req[y].party
    BY <1>3 DEF MovesOn
  <2>2. CASE Acquire(y)
    <3>1. LockOf[req[y].party] \in Lock
      BY <2>1, LockAssumption DEF CommandsTypeOK, Request
    <3> QED BY <2>1, <2>2, <3>1 DEF Acquire, CommandsTypeOK
  <2>3. CASE (ReadParty(y) \/ ReadSession(y) \/ WriteSession(y) \/ WriteLifecycle(y)) /\ owner' = owner
    BY <2>1, <2>3, Insiders DEF Coordinates, Coordinated
  <2>4. ~DeleteSession(y)
    BY <2>1 DEF DeleteSession, Inside, WebOp
  <2> QED BY <1>3, <2>2, <2>3, <2>4 DEF MovesOn
<1> QED BY <1>0, <1>1, <1>2, <1>3, RequestSteps

(* Two callers of one party cannot both be past its semaphore.             *)
LEMMA OneInside ==
  ASSUME Coordinated, NEW x \in Caller, NEW y \in Caller, Inside(x), Inside(y),
         req[x].party = req[y].party
  PROVE  x = y
BY DEF Coordinated

(* A connection stays open as long as a call of its own is executed.       *)
LEMMA CallersAreOpenStep ==
  ASSUME CommandsTypeOK, CallsAreTheirs, ArgumentsFit, CallersAreOpen, CommandsNext
  PROVE  CallersAreOpen'
<1> SUFFICES ASSUME NEW c \in Conn, (req[c] # NoRequest /\ req[c].op # "Leave")'
             PROVE  c \in open'
  BY DEF CallersAreOpen
<1>c. c \in Caller
  BY DEF Caller
<1>1. CASE req'[c] = req[c]
  <2>1. c \in open
    BY <1>1 DEF CallersAreOpen
  <2>2. ~Disconnect(c) /\ ~Restart
    BY <1>1, <1>c DEF Disconnect, Restart
  <2>3. open' = open \/ (\E d \in Conn : Connect(d) \/ Disconnect(d))
    BY StepCases, <2>2
       DEF Join, Leave, HubCall, AdminCall, DeleteCall, TransitionCall, Acquire, ReadParty,
           ReadSession, WriteSession, RowVanished, WriteLifecycle, Notified, WriteTransition,
           DeleteSession, DeleteParty, GraceTick
  <2>4. \A d \in Conn : d = c => ~Disconnect(d)
    BY <2>2
  <2> QED BY <2>1, <2>3, <2>4 DEF Connect, Disconnect
<1>2. CASE req'[c] # req[c] /\ IsNew(c)
  BY <1>2, CallerAssumption DEF IsNew
<1>3. CASE req'[c] # req[c] /\ MovesOn(c)
  <2>1. c \in open
    BY <1>3 DEF MovesOn, CallersAreOpen
  <2>2. open' = open
    BY <1>3 DEF MovesOn, Acquire, ReadParty, ReadSession, DeleteSession, WriteSession, WriteLifecycle
  <2> QED BY <2>1, <2>2
<1> QED BY <1>c, <1>1, <1>2, <1>3, RequestSteps

(* The tracker's two dictionaries and its offline marks.                   *)
LEMMA TrackerStep ==
  ASSUME CommandsTypeOK, MapsAgree, MarkMeansOffline, CommandsNext
  PROVE  MapsAgree' /\ MarkMeansOffline'
<1> USE DEF MapsAgree, MarkMeansOffline
<1>t. TrackerTypeOK
  BY DEF CommandsTypeOK
<1>1. CASE UNCHANGED trackerVars
  BY <1>1 DEF trackerVars
<1>2. ASSUME NEW c \in Conn, Join(c) PROVE MapsAgree' /\ MarkMeansOffline'
  <2>1. req[c].party \in Party
    BY <1>2 DEF Join, At, CommandsTypeOK, Request, Caller
  <2>2. RegisterOrganizer(c, req[c].party)
    BY <1>2 DEF Join
  <2>3. MapsAgree'
    BY <1>t, <2>1, <2>2, NoPartyAssumption DEF RegisterOrganizer, Without, TrackerTypeOK
  <2>4. MarkMeansOffline'
    BY <1>t, <2>1, <2>2 DEF RegisterOrganizer, Without, MarkedWithout, Abandoned, TrackerTypeOK
  <2> QED BY <2>3, <2>4
<1>3. ASSUME NEW c \in Conn, Leave(c) PROVE MapsAgree' /\ MarkMeansOffline'
  <2>1. req[c].party \in Party
    BY <1>3 DEF Leave, At, CommandsTypeOK, Request, Caller
  <2>2. TryRemoveOrganizer(c, req[c].party)
    BY <1>3 DEF Leave
  <2>3. CASE connectionToParty[c] # req[c].party
    BY <2>2, <2>3 DEF TryRemoveOrganizer, trackerVars
  <2>4. CASE connectionToParty[c] = req[c].party
    <3>1. /\ connectionToParty' = [connectionToParty EXCEPT ![c] = NoParty]
          /\ partyToConnections' = Without(c)
          /\ disconnectedAt' = MarkedWithout(c)
      BY <2>2, <2>4 DEF TryRemoveOrganizer
    <3>2. MapsAgree'
      BY <1>t, <3>1, NoPartyAssumption DEF Without, TrackerTypeOK
    <3>3. MarkMeansOffline'
      BY <1>t, <3>1 DEF Without, MarkedWithout, Abandoned, TrackerTypeOK
    <3> QED BY <3>2, <3>3
  <2> QED BY <2>3, <2>4
<1>4. ASSUME NEW p \in Party, GraceTick(p) PROVE MapsAgree' /\ MarkMeansOffline'
  BY <1>t, <1>4 DEF GraceTick, GraceElapses, TrackerTypeOK
<1>5. CASE Restart
  BY <1>5, NoPartyAssumption DEF Restart
<1> QED BY TrackerSteps, <1>1, <1>2, <1>3, <1>4, <1>5

(* A pending removal stays pending until it is carried out.                *)
LEMMA LeaveReturns ==
  ASSUME CommandsTypeOK, CallsAreTheirs, ArgumentsFit, CommandsNext, NEW c \in Conn,
         req[c] # NoRequest, req[c].op = "Leave"
  PROVE  \/ req'[c] # NoRequest /\ req'[c].op = "Leave" /\ req'[c].party = req[c].party
         \/ Leave(c) \/ Restart
<1>r. RequestTyped /\ c \in Caller
  BY DEF RequestTyped, CommandsTypeOK, Caller
<1>1. CASE req'[c] = req[c]
  BY <1>1
<1>2. CASE req'[c] # req[c] /\ req'[c] # NoRequest
  BY <1>2, <1>r, RequestSteps DEF IsNew, MovesOn
<1>3. CASE req'[c] = NoRequest
  BY <1>3, <1>r, CallEnds
     DEF Coordinates, ReadParty, ReadSession, WriteSession, RowVanished, WriteLifecycle, Notified,
         WriteTransition, DeleteSession, DeleteParty, Join, At, CallsAreTheirs, Rewrite,
         SessionOp, HubOp
<1> QED BY <1>1, <1>2, <1>3

(* A registered connection stays open or keeps its removal pending.        *)
LEMMA NoGhostStep ==
  ASSUME CommandsTypeOK, CallsAreTheirs, ArgumentsFit, CallersAreOpen, NoGhostOrganizer,
         CommandsNext
  PROVE  NoGhostOrganizer'
<1> SUFFICES ASSUME NEW c \in Conn, connectionToParty'[c] # NoParty
             PROVE  \/ c \in open'
                    \/ /\ req'[c] # NoRequest /\ req'[c].op = "Leave"
                       /\ req'[c].party = connectionToParty'[c]
  BY DEF NoGhostOrganizer
<1>r. RequestTyped /\ c \in Caller /\ TrackerTypeOK
  BY DEF RequestTyped, CommandsTypeOK, Caller
<1>n. ~Restart
  BY DEF Restart
<1>1. CASE connectionToParty'[c] = connectionToParty[c] /\ ~Leave(c)
  <2>1. CASE req[c] # NoRequest /\ req[c].op = "Leave" /\ req[c].party = connectionToParty[c]
    BY <1>1, <2>1, <1>n, LeaveReturns
  <2>2. CASE c \in open /\ Disconnect(c)
    <3>1. connectionToParty[c] \in Party
          /\ Issue(c, "Leave", connectionToParty[c], NoArg, NoArg, "lock")
      BY <1>1, <1>r, <2>2 DEF Disconnect, TrackerTypeOK
    <3>2. "Leave" \in AnyOp /\ "lock" \in Phase /\ NoArg \in Lifecycle \cup {NoArg}
          /\ NoArg \in Snapshot \cup {NoArg}
      BY DEF AnyOp, Phase
    <3>3. req'[c] # NoRequest /\ req'[c].op = "Leave" /\ req'[c].party = connectionToParty[c]
      BY ONLY <1>r, <3>1, <3>2, Issued
    <3> QED BY <1>1, <3>3
  <2>3. CASE c \in open /\ ~Disconnect(c)
    <3>1. open' = open \/ (\E d \in Conn : Connect(d) \/ Disconnect(d))
      BY StepCases, <1>n
         DEF Join, Leave, HubCall, AdminCall, DeleteCall, TransitionCall, Acquire, ReadParty,
             ReadSession, WriteSession, RowVanished, WriteLifecycle, Notified, WriteTransition,
             DeleteSession, DeleteParty, GraceTick
    <3>2. \A d \in Conn : d = c => ~Disconnect(d)
      BY <2>3
    <3> QED BY <2>3, <3>1, <3>2 DEF Connect, Disconnect
  <2> QED BY <1>1, <2>1, <2>2, <2>3 DEF NoGhostOrganizer
<1>2. CASE Leave(c)
  <2>1. connectionToParty[c] # req[c].party /\ connectionToParty'[c] = connectionToParty[c]
    BY <1>2, <1>r DEF Leave, TryRemoveOrganizer, TrackerTypeOK, trackerVars
  <2>2. c \in open /\ open' = open
    BY <1>2, <2>1 DEF Leave, NoGhostOrganizer
  <2> QED BY <2>2
<1>3. CASE connectionToParty'[c] # connectionToParty[c]
  <2>1. ASSUME NEW d \in Conn, Join(d) PROVE c \in open'
    <3>1. d = c
      BY <1>3, <1>r, <2>1 DEF Join, RegisterOrganizer, TrackerTypeOK
    <3> QED BY <2>1, <3>1 DEF Join, At, CallersAreOpen
  <2>2. ASSUME NEW d \in Conn, Leave(d) PROVE d = c
    BY <1>3, <1>r, <2>2 DEF Leave, TryRemoveOrganizer, TrackerTypeOK, trackerVars
  <2>3. CASE UNCHANGED trackerVars \/ \E p \in Party : GraceTick(p)
    BY <1>3, <2>3 DEF trackerVars, GraceTick, GraceElapses
  <2> QED BY TrackerSteps, <1>2, <1>n, <2>1, <2>2, <2>3
<1> QED BY <1>1, <1>2, <1>3

(* A party that is being deleted stays so, in a process that lives on.     *)
LEMMA DoomStays ==
  ASSUME CommandsTypeOK, CallsAreTheirs, ArgumentsFit, CommandsNext, ~Restart,
         NEW p \in Party, Doomed(p)
  PROVE  Doomed(p)'
<1>r. RequestTyped
  BY DEF RequestTyped, CommandsTypeOK
<1>1. CASE deleted[p]
  <2>1. deleted' = deleted \/ \E w \in Caller : deleted' = [deleted EXCEPT ![req[w].party] = TRUE]
    BY StepCases
       DEF Connect, Disconnect, Join, Leave, HubCall, AdminCall, DeleteCall, TransitionCall,
           Acquire, ReadParty, ReadSession, WriteSession, RowVanished, WriteLifecycle, Notified,
           WriteTransition, DeleteSession, DeleteParty, GraceTick, dbVars
  <2> QED BY <1>1, <2>1 DEF Doomed, CommandsTypeOK
<1>2. ASSUME NEW w \in Web, At(w, "write"), req[w].op = "Delete", req[w].party = p
      PROVE  Doomed(p)'
  <2>c. w \in Caller /\ req[w] # NoRequest
    BY <1>2 DEF Caller, At
  <2>1. CASE DeleteParty(w)
    BY <1>2, <2>1 DEF DeleteParty, Doomed, CommandsTypeOK
  <2>2. CASE req'[w] = req[w]
    BY <1>2, <2>2 DEF Doomed, At
  <2>3. CASE req'[w] # req[w] /\ req'[w] # NoRequest
    BY <1>2, <2>c, <2>3, RequestSteps
       DEF IsNew, MovesOn, At, Acquire, ReadParty, ReadSession, DeleteSession, WriteSession,
           WriteLifecycle, Rewrite
  <2>4. CASE req'[w] = NoRequest
    BY <1>2, <2>c, <2>1, <2>4, CallEnds
       DEF Coordinates, ReadParty, ReadSession, WriteSession, RowVanished, WriteLifecycle,
           Notified, WriteTransition, DeleteSession, Join, Leave, At, Rewrite, SessionOp, HubOp
  <2> QED BY <2>1, <2>2, <2>3, <2>4
<1> QED BY <1>1, <1>2 DEF Doomed

(* The session a call past its read works with is still the stored one.    *)
LEMMA NoLostUpdateStep ==
  ASSUME CommandsTypeOK, CallsAreTheirs, ArgumentsFit, Coordinated, NoLostUpdate, CommandsNext
  PROVE  NoLostUpdate'
<1> SUFFICES ASSUME NEW x \in Caller,
                    (At(x, "write") /\ req[x].op \in SessionOp /\ ~Doomed(req[x].party))'
             PROVE  (session[req[x].party] = req[x].snap)'
  BY DEF NoLostUpdate
<1>0. req'[x] # NoRequest /\ ~Restart
  BY DEF At, Restart
<1>t. req'[x].party \in Party
  BY <1>0, TypeStep DEF CommandsTypeOK, Request
<1>1. CASE req'[x] = req[x]
  <2>1. At(x, "write") /\ req[x].op \in SessionOp /\ ~Doomed(req[x].party)
    BY <1>0, <1>1, <1>t, DoomStays DEF At
  <2>2. session[req[x].party] = req[x].snap /\ Inside(x)
    BY <2>1 DEF NoLostUpdate, Inside, At, SessionOp, HubOp, WebOp
  <2>3. ASSUME NEW z \in Caller, WriteSession(z), Inside(z), req[z].party = req[x].party
        PROVE  FALSE
    <3>1. z = x
      BY <2>2, <2>3, OneInside
    <3>2. Return(z) \/ Proceed(z, "notify")
      BY <2>3 DEF WriteSession
    <3>3. RequestTyped /\ req[z] # NoRequest /\ req[z].at = "write"
      BY <2>3 DEF RequestTyped, CommandsTypeOK, Inside, WriteSession, At
    <3> QED BY <1>0, <1>1, <3>1, <3>2, <3>3, Returned, Proceeded DEF Phase
  <2>4. ASSUME NEW w \in Web, DeleteSession(w), req[w].party = req[x].party
        PROVE  Doomed(req[x].party)'
    <3>1. RequestTyped /\ w \in Caller /\ req[w] # NoRequest /\ req[w].op = "Delete"
          /\ Proceed(w, "write")
      BY <2>4 DEF RequestTyped, CommandsTypeOK, DeleteSession, At, Caller
    <3>2. /\ req'[w] # NoRequest /\ req'[w].at = "write" /\ req'[w].op = "Delete"
          /\ req'[w].party = req[x].party
      BY <2>4, <3>1, Proceeded DEF Phase
    <3> QED BY <3>2, <1>1 DEF Doomed, At
  <2>5. session'[req[x].party] = session[req[x].party]
    BY <1>1, <1>t, <2>3, <2>4, SessionSteps
  <2> QED BY <1>1, <2>2, <2>5
<1>2. CASE req'[x] # req[x] /\ IsNew(x)
  BY <1>2 DEF IsNew, At, SessionOp, HubOp
<1>3. CASE req'[x] # req[x] /\ MovesOn(x)
  <2>1. ReadSession(x) /\ req'[x].snap = session[req[x].party] /\ req'[x].party = req[x].party
    BY <1>3 DEF MovesOn, At, SessionOp, HubOp, DeleteSession
  <2> QED BY <2>1 DEF ReadSession, dbVars
<1> QED BY <1>0, <1>1, <1>2, <1>3, RequestSteps

(* Nobody connects to a party but by a Join of that party.                 *)
LEMMA JoinsConnect ==
  ASSUME CommandsTypeOK, CallsAreTheirs, CommandsNext, NEW p \in Party,
         ~IsOrganizerConnected(p), IsOrganizerConnected(p)'
  PROVE  \E c \in Conn : Join(c) /\ Inside(c) /\ req[c].party = p /\ session' = session
<1>t. TrackerTypeOK
  BY DEF CommandsTypeOK
<1>1. ASSUME NEW c \in Conn, Join(c)
      PROVE  Inside(c) /\ req[c].party = p /\ session' = session
  <2>1. Inside(c)
    BY <1>1, Insiders DEF Coordinates, Caller
  <2> QED BY <1>1, <1>t, <2>1
          DEF Join, RegisterOrganizer, Without, IsOrganizerConnected, TrackerTypeOK, dbVars
<1>2. ASSUME NEW c \in Conn, Leave(c) PROVE FALSE
  BY <1>2, <1>t DEF Leave, TryRemoveOrganizer, Without, IsOrganizerConnected, TrackerTypeOK,
                    trackerVars
<1>3. CASE UNCHANGED trackerVars \/ (\E q \in Party : GraceTick(q)) \/ Restart
  BY <1>3 DEF trackerVars, GraceTick, GraceElapses, Restart, IsOrganizerConnected
<1> QED BY TrackerSteps, <1>1, <1>2, <1>3

(* What an administrator's command knows of the party.                     *)
LEMMA AdminKnowledgeStep ==
  ASSUME CommandsTypeOK, CallsAreTheirs, ArgumentsFit, Coordinated, ConnectedIsCurrent,
         AdminSparesLiveParty, CommandsNext
  PROVE  ConnectedIsCurrent' /\ AdminSparesLiveParty'
<1>1. ASSUME NEW a \in Admin, (req[a] # NoRequest)', (req[a].at \in {"session", "write"})',
             req'[a] = req[a]
      PROVE  /\ ~IsOrganizerConnected(req[a].party) => ~IsOrganizerConnected(req[a].party)'
             /\ ~OnAir(req[a].party) => ~OnAir(req[a].party)'
  <2>1. a \in Caller /\ Inside(a) /\ req[a].party \in Party
    BY <1>1 DEF Caller, Inside, CallsAreTheirs, AdminOp, WebOp, CommandsTypeOK, Request
  <2>2. ASSUME NEW c \in Conn, Join(c), Inside(c), req[c].party = req[a].party
        PROVE  FALSE
    BY <2>1, <2>2, OneInside, CallerAssumption DEF Caller
  <2>3. ~IsOrganizerConnected(req[a].party) => ~IsOrganizerConnected(req[a].party)'
    BY <1>1, <2>1, <2>2, JoinsConnect
  <2>4. ASSUME NEW z \in Caller, WriteSession(z), Inside(z), req[z].party = req[a].party
        PROVE  FALSE
    <3>1. z = a
      BY <2>1, <2>4, OneInside
    <3>2. Return(z) \/ Proceed(z, "notify")
      BY <2>4 DEF WriteSession
    <3>3. RequestTyped /\ req[z] # NoRequest
      BY <2>4 DEF RequestTyped, CommandsTypeOK, Inside
    <3> QED BY <1>1, <3>1, <3>2, <3>3, Returned, Proceeded DEF Phase
  <2>5. session'[req[a].party] = session[req[a].party] \/ session'[req[a].party] = NoSession
    BY <2>1, <2>4, SessionSteps
  <2> QED BY <1>1, <2>3, <2>5 DEF OnAir, IsOrganizerConnected
<1>2. ASSUME NEW a \in Admin, (At(a, "session") /\ req[a].op = "ResetSession" /\ ~req[a].online)'
      PROVE  (~IsOrganizerConnected(req[a].party))'
  <2>1. CASE req'[a] = req[a]
    BY <1>1, <1>2, <2>1 DEF At, ConnectedIsCurrent
  <2>2. CASE req'[a] # req[a]
    <3>1. MovesOn(a)
      BY <1>2, <2>2, RequestSteps, CallerAssumption DEF IsNew, At, Caller
    <3>2. ReadParty(a) /\ req'[a].online = IsOrganizerConnected(req[a].party)
          /\ req'[a].party = req[a].party
      BY <1>2, <3>1 DEF MovesOn, At
    <3> QED BY <1>2, <3>2 DEF ReadParty, IsOrganizerConnected, trackerVars
  <2> QED BY <2>1, <2>2
<1>3. ASSUME NEW a \in Admin, At(a, "write")'
      PROVE  (~OnAir(req[a].party))'
  <2>1. CASE req'[a] = req[a]
    BY <1>1, <1>3, <2>1 DEF At, AdminSparesLiveParty
  <2>2. CASE req'[a] # req[a]
    <3>1. MovesOn(a)
      BY <1>3, <2>2, RequestSteps, CallerAssumption DEF IsNew, At, Caller
    <3>2. req[a] # NoRequest /\ req[a].op \in AdminOp /\ req'[a].party = req[a].party
      BY <3>1 DEF MovesOn, CallsAreTheirs, Caller
    <3>3. ReadSession(a) /\ ~SessionDeclines(a, session[req[a].party])
      BY <1>3, <3>1, <3>2 DEF MovesOn, At, AdminOp, DeleteSession
    <3>4. ~OnAir(req[a].party)
      BY <3>2, <3>3 DEF SessionDeclines, OnAir, AdminOp, ConnectedIsCurrent, ReadSession
    <3>5. session' = session /\ partyToConnections' = partyToConnections
      BY <3>3 DEF ReadSession, dbVars, trackerVars
    <3> QED BY <3>2, <3>4, <3>5 DEF OnAir, IsOrganizerConnected
  <2> QED BY <2>1, <2>2
<1> QED BY <1>2, <1>3 DEF ConnectedIsCurrent, AdminSparesLiveParty

-----------------------------------------------------------------------------
(* The invariant holds initially and is kept by every step.                *)
LEMMA InitInvariant == CommandsInit => IInv
<1> SUFFICES ASSUME CommandsInit PROVE IInv
  OBVIOUS
<1> USE DEF CommandsInit, TrackerInit
<1>1. CommandsTypeOK
  BY DEF CommandsTypeOK, TrackerTypeOK, Mark, Lifecycle
<1>2. \A x \in Caller : req[x] = NoRequest
  OBVIOUS
<1>3. CallsAreTheirs /\ ArgumentsFit /\ Coordinated /\ NoLostUpdate
  BY <1>2 DEF CallsAreTheirs, ArgumentsFit, Coordinated, Inside, NoLostUpdate, At
<1>4. CallersAreOpen /\ ConnectedIsCurrent /\ AdminSparesLiveParty
  BY <1>2 DEF CallersAreOpen, ConnectedIsCurrent, AdminSparesLiveParty, At, Caller
<1>5. MapsAgree /\ MarkMeansOffline /\ NoGhostOrganizer
  BY NoPartyAssumption DEF MapsAgree, MarkMeansOffline, NoGhostOrganizer
<1> QED BY <1>1, <1>3, <1>4, <1>5 DEF IInv

(* The inductive invariant is kept by every step, stuttering included.     *)
LEMMA KeptInvariant == IInv /\ [CommandsNext]_commandVars => IInv'
<1> SUFFICES ASSUME IInv, [CommandsNext]_commandVars PROVE IInv'
  OBVIOUS
<1> USE DEF IInv
<1>1. CommandsTypeOK'
  BY TypeStep
<1>2. CASE UNCHANGED commandVars
  BY <1>1, <1>2
     DEF commandVars, trackerVars, dbVars, CallsAreTheirs, ArgumentsFit, Coordinated, Inside,
         MapsAgree, MarkMeansOffline, CallersAreOpen, NoGhostOrganizer, NoLostUpdate, Doomed,
         ConnectedIsCurrent, AdminSparesLiveParty, OnAir, IsOrganizerConnected, At
<1>3. CASE CommandsNext
  <2>1. CallsAreTheirs' /\ ArgumentsFit'
    BY <1>3, CallsStep
  <2>2. Coordinated'
    BY <1>3, CoordinatedStep
  <2>3. MapsAgree' /\ MarkMeansOffline'
    BY <1>3, TrackerStep
  <2>4. CallersAreOpen'
    BY <1>3, CallersAreOpenStep
  <2>5. NoGhostOrganizer'
    BY <1>3, NoGhostStep
  <2>6. NoLostUpdate'
    BY <1>3, NoLostUpdateStep
  <2>7. ConnectedIsCurrent' /\ AdminSparesLiveParty'
    BY <1>3, AdminKnowledgeStep
  <2> QED BY <1>1, <2>1, <2>2, <2>3, <2>4, <2>5, <2>6, <2>7
<1> QED BY <1>2, <1>3

(* The inductive invariant holds in every state the server can reach,      *)
(* however its calls interleave and whenever the process restarts.         *)
THEOREM InvariantHolds == CommandsSpec => []IInv
BY InitInvariant, KeptInvariant, PTL DEF CommandsSpec

(* Type correctness: the database, the tracker, the semaphores and the     *)
(* calls in flight stay within their types.                                *)
THEOREM TypesHold == CommandsSpec => []CommandsTypeOK
<1>1. IInv => CommandsTypeOK
  BY DEF IInv
<1> QED BY <1>1, InvariantHolds, PTL

(* The two dictionaries of OrganizerConnectionTracker stay inverse.        *)
THEOREM TrackerMapsAgree == CommandsSpec => []MapsAgree
<1>1. IInv => MapsAgree
  BY DEF IInv
<1> QED BY <1>1, InvariantHolds, PTL

(* No party with a connected organizer is marked offline.                  *)
THEOREM MarksMeanOffline == CommandsSpec => []MarkMeansOffline
<1>1. IInv => MarkMeansOffline
  BY DEF IInv
<1> QED BY <1>1, InvariantHolds, PTL

(* SetLifecycle and ResetSession never write to a party that is on air.    *)
THEOREM AdministratorSparesLiveParty == CommandsSpec => []AdminSparesLiveParty
<1>1. IInv => AdminSparesLiveParty
  BY DEF IInv
<1> QED BY <1>1, InvariantHolds, PTL

(* Read-modify-writes of a session never lose an update, whichever parties *)
(* share a semaphore.                                                      *)
THEOREM UpdatesAreNotLost == CommandsSpec => []NoLostUpdate
<1>1. IInv => NoLostUpdate
  BY DEF IInv
<1> QED BY <1>1, InvariantHolds, PTL

(* No connection stays registered after its disconnect was handled.        *)
THEOREM NoGhosts == CommandsSpec => []NoGhostOrganizer
<1>1. IInv => NoGhostOrganizer
  BY DEF IInv
<1> QED BY <1>1, InvariantHolds, PTL

(* Only StartSession switches a stored session on.                         *)
THEOREM StartsActivate == CommandsSpec => OnlyStartActivates
<1> DEFINE Switches ==
      \A p \in Party :
        session[p] # NoSession /\ ~session[p].active /\ session'[p] # session[p]
          /\ session'[p] # NoSession /\ session'[p].active
        => \/ Doomed(p)
           \/ \E c \in Conn : At(c, "write") /\ req[c].op = "StartSession"
                              /\ req[c].party = p /\ req'[c] = NoRequest
<1>1. ASSUME IInv, CommandsNext PROVE Switches
  <2> SUFFICES ASSUME NEW p \in Party, session[p] # NoSession, ~session[p].active,
                      session'[p] # session[p], session'[p] # NoSession, session'[p].active,
                      ~Doomed(p)
               PROVE  \E c \in Conn : At(c, "write") /\ req[c].op = "StartSession"
                                      /\ req[c].party = p /\ req'[c] = NoRequest
    OBVIOUS
  <2>1. PICK z \in Caller : WriteSession(z) /\ Inside(z) /\ req[z].party = p
    BY <1>1, SessionSteps DEF IInv
  <2>2. At(z, "write") /\ req[z].op \in SessionOp
    BY <2>1 DEF WriteSession, Rewrite, SessionOp, HubOp
  <2>3. req[z].snap = session[p]
    BY <1>1, <2>1, <2>2 DEF IInv, NoLostUpdate
  <2>4. session \in [Party -> Session \cup {NoSession}]
    BY <1>1 DEF IInv, CommandsTypeOK
  <2>5. req[z].op = "StartSession"
    <3>1. ASSUME NEW s, Store(z, s) PROVE session'[p] = s
      BY <2>1, <2>4, <3>1 DEF Store
    <3>2. ~Ended(session[p]).active /\ ~Cleared(session[p]).active /\ ~Blank.active
      BY <2>4 DEF Ended, Cleared, Blank, Session
    <3>3. ~Positioned(session[p]).active
      BY <2>4 DEF Positioned, Session
    <3>4. \A dto : ~Published(session[p], dto).active
      BY DEF Published
    <3> QED BY <2>1, <2>3, <3>1, <3>2, <3>3, <3>4 DEF WriteSession, Rewrite
  <2>6. z \in Conn
    BY <1>1, <2>2, <2>5 DEF IInv, CallsAreTheirs, At, Caller, AdminOp, WebOp
  <2>7. req'[z] = NoRequest
    BY <1>1, <2>1, <2>5 DEF WriteSession, Return, IInv, CommandsTypeOK
  <2> QED BY <2>1, <2>2, <2>5, <2>6, <2>7
<1>2. ASSUME UNCHANGED commandVars PROVE Switches
  BY <1>2 DEF commandVars, dbVars
<1>3. IInv /\ [CommandsNext]_commandVars => [Switches]_commandVars
  BY <1>1, <1>2
<1> HIDE DEF Switches
<1>4. CommandsSpec => [][Switches]_commandVars
  BY <1>3, InvariantHolds, PTL DEF CommandsSpec
<1> QED BY <1>4 DEF Switches, OnlyStartActivates
-----------------------------------------------------------------------------
(* PartyCommands implements SessionObject: each step of a call, under the  *)
(* inductive invariant, is a step of the atomic object or changes nothing  *)
(* the object shows.                                                       *)

(* What the object shows: its variables under the refinement mapping.      *)
Shown == <<session, lifecycle, [p \in Party |-> IsOrganizerConnected(p)], [p \in Party |-> Doomed(p)]>>

(* Only the first step of a deletion dooms a party.                        *)
LEMMA DoomArises ==
  ASSUME CommandsTypeOK, CallsAreTheirs, ArgumentsFit, CommandsNext, NEW p \in Party, Doomed(p)'
  PROVE  Doomed(p) \/ \E w \in Web : DeleteSession(w) /\ req[w].party = p
<1>1. CASE deleted'[p]
  <2>1. \/ deleted' = deleted
        \/ \E w \in Caller : DeleteParty(w) /\ deleted' = [deleted EXCEPT ![req[w].party] = TRUE]
    BY StepCases
       DEF Connect, Disconnect, Join, Leave, HubCall, AdminCall, DeleteCall, TransitionCall,
           Acquire, ReadParty, ReadSession, WriteSession, RowVanished, WriteLifecycle, Notified,
           WriteTransition, DeleteSession, DeleteParty, GraceTick, Restart, dbVars
  <2>2. ASSUME NEW w \in Caller, DeleteParty(w), req[w].party = p
        PROVE  Doomed(p)
    <3>1. w \in Web
      BY <2>2 DEF DeleteParty, At, CallsAreTheirs, Caller, ConnOp, HubOp, AdminOp
    <3> QED BY <2>2, <3>1 DEF DeleteParty, Doomed
  <2> QED BY <1>1, <2>1, <2>2 DEF Doomed, CommandsTypeOK
<1>2. ASSUME NEW w \in Web, At(w, "write")', (req[w].op = "Delete")', (req[w].party = p)'
      PROVE  Doomed(p) \/ (DeleteSession(w) /\ req[w].party = p)
  <2>c. w \in Caller
    BY DEF Caller
  <2>1. CASE req'[w] = req[w]
    BY <1>2, <2>1 DEF Doomed, At
  <2>2. CASE req'[w] # req[w] /\ IsNew(w)
    BY <1>2, <2>2 DEF IsNew, At, ConnOp, HubOp, AdminOp
  <2>3. CASE req'[w] # req[w] /\ MovesOn(w)
    BY <1>2, <2>3, <2>c DEF MovesOn, At, Acquire, ReadSession, CallsAreTheirs
  <2> QED BY <1>2, <2>c, <2>1, <2>2, <2>3, RequestSteps DEF At
<1> QED BY <1>1, <1>2 DEF Doomed

(* Apart from a deletion's first step and a restart, no party's fate       *)
(* changes.                                                                *)
LEMMA DoomUnchanged ==
  ASSUME IInv, CommandsNext, ~Restart, \A w \in Web : ~DeleteSession(w)
  PROVE  [p \in Party |-> Doomed(p)]' = [p \in Party |-> Doomed(p)]
<1>1. ASSUME NEW p \in Party PROVE Doomed(p)' = Doomed(p)
  <2>1. Doomed(p) \in BOOLEAN /\ Doomed(p)' \in BOOLEAN
    BY TypeStep DEF Doomed, IInv, CommandsTypeOK
  <2> QED BY <2>1, DoomStays, DoomArises DEF IInv
<1> QED BY <1>1

(* The initial states are the object's.                                    *)
LEMMA ObjectInit == CommandsInit => Object!Init
<1> SUFFICES ASSUME CommandsInit PROVE Object!Init
  OBVIOUS
<1>1. lifecycle = [p \in Party |-> "Ready"] /\ session = [p \in Party |-> NoSession]
  BY DEF CommandsInit
<1>2. \A p \in Party : ~IsOrganizerConnected(p)
  BY DEF CommandsInit, TrackerInit, IsOrganizerConnected
<1>3. \A p \in Party : ~Doomed(p)
  BY DEF CommandsInit, Doomed, At, Caller
<1>4. \A p \in Party : IsOrganizerConnected(p) \in BOOLEAN /\ Doomed(p) \in BOOLEAN
  BY DEF IsOrganizerConnected, Doomed, CommandsInit
<1> QED BY <1>1, <1>2, <1>3, <1>4 DEF Object!Init

(* A live process that is not deleting a party.                            *)
Ordinary == CommandsNext /\ ~Restart /\ \A w \in Web : ~DeleteSession(w)

(* A step that leaves sessions, lifecycles and connections alone is a      *)
(* stuttering step of the object.                                          *)
LEMMA Unseen ==
  ASSUME IInv, Ordinary, UNCHANGED <<session, lifecycle, partyToConnections>>
  PROVE  UNCHANGED Shown
<1>1. [p \in Party |-> IsOrganizerConnected(p)]' = [p \in Party |-> IsOrganizerConnected(p)]
  BY DEF IsOrganizerConnected
<1> QED BY <1>1, DoomUnchanged DEF Shown, Ordinary

(* The write of a session is an operation of the object.                   *)
LEMMA WriteIsOperation ==
  ASSUME IInv, Ordinary, NEW x \in Caller, WriteSession(x)
  PROVE  Object!Next
<1> DEFINE p == req[x].party
<1>1. /\ At(x, "write") /\ req[x].op \in SessionOp /\ p \in Party /\ Rewrite(x, req[x].snap)
      /\ req[x].snap \in Session \cup {NoSession}
  BY DEF WriteSession, Rewrite, SessionOp, HubOp, At, IInv, CommandsTypeOK, Request
<1>2. UNCHANGED <<lifecycle, [q \in Party |-> IsOrganizerConnected(q)], [q \in Party |-> Doomed(q)]>>
  BY DoomUnchanged DEF Ordinary, WriteSession, trackerVars, IsOrganizerConnected
<1>3. ASSUME NEW s, Store(x, s) PROVE Object!Becomes(p, s)
  BY <1>2, <1>3 DEF Store, Object!Becomes
<1>4. CASE Doomed(p)
  <2>1. PICK s \in Session : Store(x, s)
    BY <1>1, SessionTypes, InputAssumption DEF Rewrite, IInv, ArgumentsFit, At
  <2>2. Object!Orphan(p)
    BY <1>1, <1>3, <1>4, <2>1 DEF Object!Orphan, Object!Session, Session, Object!Mode, Mode,
                                  Object!Status, Status
  <2> QED BY <1>1, <2>2 DEF Object!Next
<1>5. CASE ~Doomed(p)
  <2>1. req[x].snap = session[p]
    BY <1>1, <1>5 DEF IInv, NoLostUpdate
  <2>2. req[x].op \in {"EndSession", "UpdatePosition", "ResetSession"} => session[p] # NoSession
    BY <1>1, <2>1 DEF IInv, ArgumentsFit, At
  <2>3. CASE req[x].op = "StartSession"
    <3>1. PICK kept \in BOOLEAN : Store(x, Started(session[p], kept))
      BY <1>1, <2>1, <2>3 DEF Rewrite
    <3>2. Object!Start(p)
      BY <1>3, <3>1 DEF Object!Start, Object!Started, Started
    <3> QED BY <1>1, <3>2 DEF Object!Next
  <2>4. CASE req[x].op = "EndSession"
    <3>1. Object!End(p)
      BY <1>1, <1>3, <2>1, <2>2, <2>4 DEF Rewrite, Object!End, Object!Ended, Ended
    <3> QED BY <1>1, <3>1 DEF Object!Next
  <2>5. CASE req[x].op = "ResetPlayback"
    <3>1. Object!Reset(p)
      BY <1>1, <1>3, <2>1, <2>5 DEF Rewrite, Object!Reset, Object!Cleared, Cleared
    <3> QED BY <1>1, <3>1 DEF Object!Next
  <2>6. CASE req[x].op = "UpdatePosition"
    <3>1. Object!Move(p)
      BY <1>1, <1>3, <2>1, <2>2, <2>6 DEF Rewrite, Object!Move, Object!Positioned, Positioned
    <3> QED BY <1>1, <3>1 DEF Object!Next
  <2>7. CASE req[x].op = "UpdateFullState"
    <3>1. Object!Publish(p)
      BY <1>1, <1>3, <2>1, <2>7 DEF Rewrite, Object!Publish, Object!Published, Published,
                                    IInv, ArgumentsFit, At
    <3> QED BY <1>1, <3>1 DEF Object!Next
  <2>8. CASE req[x].op = "ResetSession"
    <3>1. x \in Admin
      BY <1>1, <2>8 DEF IInv, CallsAreTheirs, At, Caller, ConnOp, HubOp, WebOp
    <3>2. ~OnAir(p)
      BY <1>1, <3>1 DEF IInv, AdminSparesLiveParty
    <3>3. ~Object!Live(p)
      BY <1>1, <3>2 DEF Object!Live, OnAir
    <3>4. Object!AdminReset(p)
      BY <1>1, <1>3, <2>1, <2>2, <2>8, <3>3 DEF Rewrite, Object!AdminReset, Object!Blank, Blank
    <3> QED BY <1>1, <3>4 DEF Object!Next
  <2> QED BY <1>1, <2>3, <2>4, <2>5, <2>6, <2>7, <2>8 DEF SessionOp, HubOp
<1> QED BY <1>4, <1>5

(* Lifecycle writes: an administrator's while the party is not on air, an  *)
(* organizer's at any time.                                                *)
LEMMA LifecycleIsOperation ==
  ASSUME IInv, Ordinary, NEW x \in Caller, WriteLifecycle(x) \/ WriteTransition(x)
  PROVE  Object!Next \/ UNCHANGED Shown
<1> DEFINE p == req[x].party
<1>1. At(x, "write") /\ p \in Party
  BY DEF WriteLifecycle, WriteTransition, At, IInv, CommandsTypeOK, Request
<1>2. UNCHANGED <<session, partyToConnections>>
  BY DEF WriteLifecycle, WriteTransition, trackerVars
<1>3. UNCHANGED <<session, [q \in Party |-> IsOrganizerConnected(q)], [q \in Party |-> Doomed(q)]>>
  BY <1>2, DoomUnchanged DEF Ordinary, IsOrganizerConnected
<1>4. CASE UNCHANGED lifecycle
  BY <1>2, <1>4, Unseen
<1>5. CASE WriteLifecycle(x) /\ ~UNCHANGED lifecycle
  <2>1. x \in Admin /\ req[x].target \in Lifecycle
    BY <1>1, <1>5 DEF WriteLifecycle, IInv, CallsAreTheirs, ArgumentsFit, At, Caller, ConnOp,
                      HubOp, WebOp
  <2>2. ~Object!Live(p)
    BY <1>1, <2>1 DEF IInv, AdminSparesLiveParty, OnAir, Object!Live
  <2>3. lifecycle' = [lifecycle EXCEPT ![p] = req[x].target]
    BY <1>5 DEF WriteLifecycle
  <2>4. Object!AdminLifecycle(p)
    BY <1>3, <2>1, <2>2, <2>3 DEF Object!AdminLifecycle, Object!LifecycleState, Lifecycle
  <2> QED BY <1>1, <2>4 DEF Object!Next
<1>6. CASE WriteTransition(x) /\ ~UNCHANGED lifecycle
  <2>1. req[x].target \in {"Ready", "Completed"}
    BY <1>1, <1>6 DEF WriteTransition, IInv, ArgumentsFit, At
  <2>2. lifecycle' = [q \in Party |-> IF q = p /\ ~deleted[q] THEN req[x].target ELSE lifecycle[q]]
    BY <1>6 DEF WriteTransition
  <2>3. lifecycle \in [Party -> Lifecycle]
    BY DEF IInv, CommandsTypeOK
  <2>4. ~deleted[p]
    BY <1>6, <2>2, <2>3
  <2>5. lifecycle' = [lifecycle EXCEPT ![p] = req[x].target]
    BY <2>2, <2>3, <2>4
  <2>6. Object!OrganizerLifecycle(p)
    BY <1>3, <2>1, <2>5 DEF Object!OrganizerLifecycle
  <2> QED BY <1>1, <2>6 DEF Object!Next
<1> QED BY <1>4, <1>5, <1>6

(* The first step of a deletion.                                           *)
LEMMA DeletionDooms ==
  ASSUME IInv, CommandsNext, ~Restart, NEW w \in Web, DeleteSession(w),
         NEW p \in Party, req[w].party = p
  PROVE  Object!Next
<1>1. /\ w \in Caller /\ req[w] # NoRequest /\ req[w].op = "Delete"
      /\ RequestTyped /\ Proceed(w, "write")
  BY DEF Caller, DeleteSession, At, IInv, CommandsTypeOK, Request, RequestTyped
<1>2. req'[w] # NoRequest /\ req'[w].at = "write" /\ req'[w].op = "Delete" /\ req'[w].party = p
      /\ \A y \in Caller : y # w => req'[y] = req[y]
  BY <1>1, Proceeded DEF Phase
<1>3. Doomed(p)'
  BY <1>2 DEF Doomed, At
<1>4. ASSUME NEW q \in Party, q # p PROVE Doomed(q)' = Doomed(q)
  <2>1. Doomed(q) => Doomed(q)'
    BY DoomStays DEF IInv
  <2>2. deleted' = deleted
    BY DEF DeleteSession
  <2>3. ASSUME NEW v \in Web, At(v, "write")', (req[v].op = "Delete")', (req[v].party = q)'
        PROVE  Doomed(q)
    BY <1>2, <1>4, <2>3 DEF Doomed, At, Caller
  <2>4. Doomed(q)' => Doomed(q)
    BY <2>2, <2>3 DEF Doomed
  <2>5. Doomed(q) \in BOOLEAN /\ Doomed(q)' \in BOOLEAN
    BY TypeStep DEF Doomed, IInv, CommandsTypeOK
  <2> QED BY <2>1, <2>4, <2>5
<1>5. Doomed(p)' = TRUE
  BY <1>1, <1>3, TypeStep DEF Doomed, IInv, CommandsTypeOK
<1>6. [q \in Party |-> Doomed(q)]' = [[q \in Party |-> Doomed(q)] EXCEPT ![p] = TRUE]
  <2>1. \A q \in Party : Doomed(q)' = IF q = p THEN TRUE ELSE Doomed(q)
    BY <1>4, <1>5
  <2>2. [q \in Party |-> Doomed(q)]' = [q \in Party |-> IF q = p THEN TRUE ELSE Doomed(q)]
    BY <2>1
  <2> QED BY <2>2
<1>7. /\ session' = [session EXCEPT ![p] = NoSession]
      /\ UNCHANGED <<lifecycle, [q \in Party |-> IsOrganizerConnected(q)]>>
  BY DEF DeleteSession, trackerVars, IsOrganizerConnected
<1>8. Object!Doom(p)
  BY <1>6, <1>7 DEF Object!Doom
<1> QED BY <1>1, <1>8 DEF Object!Next

(* A restart forgets the connections and the deletions in progress.        *)
LEMMA RestartIsCrash ==
  ASSUME IInv, Restart
  PROVE  Object!Next
<1>1. \A p \in Party : ~IsOrganizerConnected(p)'
  BY DEF Restart, IsOrganizerConnected
<1>2. ASSUME NEW p \in Party PROVE Doomed(p)' <=> deleted[p]
  <2>1. deleted' = deleted /\ \A w \in Web : req'[w] = NoRequest
    BY DEF Restart, dbVars, Caller
  <2> QED BY <2>1 DEF Doomed, At
<1>7. \A p \in Party : Doomed(p)' \in BOOLEAN
  <2>1. \A p \in Party : deleted[p] \in BOOLEAN
    BY DEF IInv, CommandsTypeOK
  <2> QED BY <1>2, <2>1 DEF Doomed
<1>3. \A p \in Party : deleted[p] \in BOOLEAN /\ (deleted[p] => Doomed(p))
  BY DEF Doomed, IInv, CommandsTypeOK
<1>4. [p \in Party |-> IsOrganizerConnected(p)]' = [p \in Party |-> FALSE]
  BY <1>1 DEF IsOrganizerConnected
<1>5. /\ [p \in Party |-> Doomed(p)]' \in [Party -> BOOLEAN]
      /\ \A p \in Party : [q \in Party |-> Doomed(q)]'[p] => [q \in Party |-> Doomed(q)][p]
  BY <1>2, <1>3, <1>7
<1>6. UNCHANGED <<session, lifecycle>>
  BY DEF Restart, dbVars
<1> QED BY <1>4, <1>5, <1>6 DEF Object!Next, Object!Crash

(* Organizers coming and going.                                            *)
LEMMA PresenceIsPresence ==
  ASSUME IInv, Ordinary, UNCHANGED <<session, lifecycle>>
  PROVE  Object!Next
<1>1. [p \in Party |-> IsOrganizerConnected(p)]' \in [Party -> BOOLEAN]
  BY DEF IsOrganizerConnected
<1> QED BY <1>1, DoomUnchanged DEF Ordinary, Object!Next, Object!Presence

(* Every step is a step of the object or none of its business.             *)
LEMMA ObjectStep ==
  ASSUME IInv, [CommandsNext]_commandVars
  PROVE  [Object!Next]_Object!objectVars
<1>1. CASE UNCHANGED commandVars
  BY <1>1 DEF commandVars, trackerVars, dbVars, Object!objectVars, IsOrganizerConnected, Doomed, At
<1>2. CASE Restart
  BY <1>2, RestartIsCrash
<1>3. ASSUME CommandsNext, ~Restart, NEW w \in Web, DeleteSession(w)
      PROVE  Object!Next
  <2>1. req[w].party \in Party
    BY <1>3 DEF DeleteSession, At, IInv, CommandsTypeOK, Request, Caller
  <2> QED BY <1>3, <2>1, DeletionDooms
<1>4. CASE Ordinary
  <2>1. \/ \E x \in Caller : WriteSession(x) \/ WriteLifecycle(x) \/ WriteTransition(x)
        \/ UNCHANGED <<session, lifecycle>>
    <3>1. ASSUME NEW x \in Caller, DeleteSession(x) PROVE x \in Web
      BY <3>1 DEF DeleteSession, At, IInv, CallsAreTheirs, Caller, ConnOp, HubOp, AdminOp
    <3> QED BY StepCases, <1>4, <3>1
            DEF Ordinary, Connect, Disconnect, Join, Leave, HubCall, AdminCall, DeleteCall,
                TransitionCall, Acquire, ReadParty, ReadSession, RowVanished, Notified,
                DeleteParty, GraceTick, dbVars
  <2> QED BY <1>4, <2>1, WriteIsOperation, LifecycleIsOperation, PresenceIsPresence
          DEF Shown, Object!objectVars
<1> QED BY <1>1, <1>2, <1>3, <1>4 DEF Ordinary

(* The coordinated calls implement the atomic session object.              *)
THEOREM CallsAreAtomic == CommandsSpec => SessionsAreAtomic
BY ObjectInit, ObjectStep, InvariantHolds, PTL DEF CommandsSpec, SessionsAreAtomic, Object!Spec

-----------------------------------------------------------------------------
(* The announcements.                                                      *)

(* A connection's next call waits for the handler of the one before.       *)
HandlerIsFree ==
  \A c \in Conn : req[c] # NoRequest => task[Handler(c)] = NoTask

(* The handler of the last organizer connection to leave.                  *)
LastLeft(c) == task[Handler(c)] # NoTask /\ task[Handler(c)].last

(* A connection being removed is closed, and the handler of its removal is *)
(* the last thing it runs.                                                 *)
LeavingIsClosed ==
  \A c \in Conn : (req[c] # NoRequest /\ req[c].op = "Leave") \/ LastLeft(c) => c \notin open

(* No grace task runs for a connection that may yet start one.             *)
GraceSlotIsFree ==
  \A c \in Conn : c \in open \/ req[c] # NoRequest \/ LastLeft(c) => task[GraceTask(c)] = NoTask

(* What an announcement knows at each of its stages, and only grace tasks  *)
(* wait.                                                                   *)
AnnouncementsFit ==
  \A t \in Task : task[t] # NoTask =>
    /\ task[t].at \in {"session", "send"} => task[t].life \in Lifecycle
    /\ task[t].at = "wait" => t[2] = "grace"
    /\ task[t].last => t[2] = "call"

(* ResetSessionAsync announces the lifecycle it read.                      *)
ResetKnowsLifecycle ==
  \A x \in Caller :
    /\ req[x] # NoRequest
    /\ req[x].op = "ResetSession" /\ req[x].at \in {"session", "write", "notify"}
    => req[x].life \in Lifecycle

HubInv ==
  /\ HubTypeOK
  /\ IInv
  /\ HandlerIsFree
  /\ LeavingIsClosed
  /\ GraceSlotIsFree
  /\ AnnouncementsFit
  /\ ResetKnowsLifecycle
-----------------------------------------------------------------------------
(* Every step of the hub is a step of the calls or leaves them alone.      *)
LEMMA HubStep == [HubNext]_hubVars => [CommandsNext]_commandVars
<1> SUFFICES ASSUME [HubNext]_hubVars PROVE [CommandsNext]_commandVars
  OBVIOUS
<1>1. ASSUME NEW c \in Conn, HubArrive(c) \/ HubConnStep(c) PROVE CommandsNext
  BY <1>1 DEF HubArrive, HubConnStep, HubJoin, HubLeave, HubReadSession, HubWriteSession,
              CommandsNext, ConnAdvance, Advance, Caller
<1>2. ASSUME NEW a \in Admin, Silently(Command(a)) \/ AdminStep(a) PROVE CommandsNext
  BY <1>2 DEF Silently, AdminStep, AdminWriteSession, AdminNotified, CommandsNext, Advance, Caller
<1>3. ASSUME NEW w \in Web, Silently(Rest(w)) PROVE CommandsNext
  BY <1>3 DEF Silently, CommandsNext
<1>4. ASSUME NEW x \in Caller, HubAcquire(x) \/ SilentStep(x) PROVE CommandsNext
  BY <1>4 DEF HubAcquire, SilentStep, Silently, CommandsNext, Advance
<1>5. ASSUME NEW t \in Task, Announce(t) PROVE UNCHANGED commandVars
  BY <1>5 DEF Announce, SendConnectionStatus, AnnounceParty, AnnounceSession, SendDisplayStatus,
              WakeGraceTask
<1>6. ASSUME NEW p \in Party, PlaybackGoesStale(p) \/ HubGraceTick(p)
      PROVE  CommandsNext \/ UNCHANGED commandVars
  BY <1>6 DEF PlaybackGoesStale, HubGraceTick, Silently, CommandsNext
<1>7. CASE HubRestart
  BY <1>7 DEF HubRestart, CommandsNext
<1>8. CASE UNCHANGED hubVars
  BY <1>8 DEF hubVars
<1> QED BY <1>1, <1>2, <1>3, <1>4, <1>5, <1>6, <1>7, <1>8 DEF HubNext

(* The hub implements the coordinated calls, so their invariants hold in   *)
(* it while announcements and grace tasks run.                             *)
THEOREM HubImplementsCommands == HubSpec => CommandsSpec
<1>1. HubInit => CommandsInit
  BY DEF HubInit
<1> QED BY <1>1, HubStep, PTL DEF HubSpec, CommandsSpec

-----------------------------------------------------------------------------
(* How the announcements change.                                           *)

TasksTyped == task \in [Task -> Announcement \cup {NoTask}]

(* The two places of a connection are places, and differ.                  *)
LEMMA Places ==
  /\ \A c \in Conn : Handler(c) \in Task /\ GraceTask(c) \in Task
  /\ \A c, d \in Conn : Handler(c) # GraceTask(d)
  /\ \A c, d \in Conn : Handler(c) = Handler(d) => c = d
  /\ \A c, d \in Conn : GraceTask(c) = GraceTask(d) => c = d
  /\ \A c \in Conn : /\ Handler(c)[1] = c /\ Handler(c)[2] = "call"
                     /\ GraceTask(c)[1] = c /\ GraceTask(c)[2] = "grace"
  /\ \A t \in Task : /\ t[1] \in Conn
                     /\ \/ t[2] = "call" /\ t = Handler(t[1])
                        \/ t[2] = "grace" /\ t = GraceTask(t[1])
BY DEF Task, Handler, GraceTask

(* A handler that begins says what it was begun with.                      *)
LEMMA Begun ==
  ASSUME TasksTyped, NEW t \in Task, NEW p \in Party,
         NEW stage \in {"online", "offline", "party"}, Begin(t, p, stage)
  PROVE  /\ TasksTyped'
         /\ \A u \in Task : u # t => task'[u] = task[u]
         /\ task'[t] # NoTask /\ task'[t].party = p /\ task'[t].at = stage
         /\ task'[t].last <=> stage = "offline"
<1> DEFINE r == [party |-> p, at |-> stage, life |-> NoArg, snap |-> NoSession,
                 old |-> FALSE, last |-> stage = "offline"]
<1>1. r \in Announcement
  BY DEF Announcement, Stage
<1>2. r # NoTask
  BY <1>1, TaskAssumption
<1>3. task' = [task EXCEPT ![t] = r]
  BY DEF Begin
<1>4. r.party = p /\ r.at = stage /\ r.last = (stage = "offline")
  OBVIOUS
<1> HIDE DEF r
<1>5. TasksTyped' /\ task'[t] = r /\ \A u \in Task : u # t => task'[u] = task[u]
  BY <1>1, <1>3 DEF TasksTyped
<1> QED BY <1>2, <1>4, <1>5

(* An announcement that goes on to a stage keeps all it knows.             *)
LEMMA Stepped ==
  ASSUME TasksTyped, NEW t \in Task, task[t] # NoTask, NEW stage \in Stage, Step(t, stage)
  PROVE  /\ TasksTyped'
         /\ \A u \in Task : u # t => task'[u] = task[u]
         /\ task'[t] # NoTask /\ task'[t].at = stage /\ task'[t].party = task[t].party
         /\ task'[t].last = task[t].last /\ task'[t].life = task[t].life
<1> DEFINE r == [task[t] EXCEPT !.at = stage]
<1>1. task[t] \in Announcement
  BY DEF TasksTyped
<1>2. r \in Announcement
  BY <1>1 DEF Announcement
<1>3. task' = [task EXCEPT ![t] = r]
  BY DEF Step
<1>4. /\ r # NoTask /\ r.at = stage /\ r.party = task[t].party
      /\ r.last = task[t].last /\ r.life = task[t].life
  BY <1>1, <1>2, TaskAssumption DEF Announcement
<1> HIDE DEF r
<1>5. TasksTyped' /\ task'[t] = r /\ \A u \in Task : u # t => task'[u] = task[u]
  BY <1>2, <1>3 DEF TasksTyped
<1> QED BY <1>4, <1>5

(* AnnounceParty and AnnounceSession keep what they read.                  *)
LEMMA Recorded ==
  ASSUME TasksTyped, NEW t \in Task, task[t] # NoTask,
         NEW stage \in Stage, NEW life \in Lifecycle \cup {NoArg},
         NEW snap \in Session \cup {NoSession}, NEW old \in BOOLEAN,
         task' = [task EXCEPT ![t] = [@ EXCEPT !.at = stage, !.life = life, !.snap = snap, !.old = old]]
  PROVE  /\ TasksTyped'
         /\ \A u \in Task : u # t => task'[u] = task[u]
         /\ task'[t] # NoTask /\ task'[t].at = stage /\ task'[t].party = task[t].party
         /\ task'[t].last = task[t].last /\ task'[t].life = life
<1> DEFINE r == [task[t] EXCEPT !.at = stage, !.life = life, !.snap = snap, !.old = old]
<1>1. task[t] \in Announcement
  BY DEF TasksTyped
<1>2. r \in Announcement
  BY <1>1 DEF Announcement
<1>3. task' = [task EXCEPT ![t] = r]
  BY DEF TasksTyped
<1>4. /\ r # NoTask /\ r.at = stage /\ r.party = task[t].party
      /\ r.last = task[t].last /\ r.life = life
  BY <1>1, <1>2, TaskAssumption DEF Announcement
<1> HIDE DEF r
<1>5. TasksTyped' /\ task'[t] = r /\ \A u \in Task : u # t => task'[u] = task[u]
  BY <1>2, <1>3 DEF TasksTyped
<1> QED BY <1>4, <1>5

(* A handler that is done hands a last connection's party to the grace     *)
(* task, and only then touches it.                                         *)
LEMMA Finished ==
  ASSUME TasksTyped, NEW t \in Task, task[t] # NoTask, Finish(t),
         task[t].last => t[2] = "call"
  PROVE  /\ TasksTyped'
         /\ task'[t] = NoTask
         /\ \A u \in Task : u # t /\ u # GraceTask(t[1]) => task'[u] = task[u]
         /\ ~task[t].last => \A u \in Task : u # t => task'[u] = task[u]
         /\ task[t].last =>
              LET g == task'[GraceTask(t[1])]
              IN  g # NoTask /\ g.at = "wait" /\ g.party = task[t].party /\ ~g.last
<1> DEFINE r == [task[t] EXCEPT !.at = "wait", !.last = FALSE,
                                !.life = NoArg, !.snap = NoSession, !.old = FALSE]
           g == GraceTask(t[1])
<1>1. task[t] \in Announcement
  BY DEF TasksTyped
<1>2. r \in Announcement
  BY <1>1 DEF Announcement, Stage
<1>3. r # NoTask /\ r.at = "wait" /\ r.party = task[t].party /\ ~r.last
  BY <1>1, <1>2, TaskAssumption DEF Announcement
<1>4. g \in Task /\ (t = g => t[2] = "grace")
  BY Places
<1>5. task' = [task EXCEPT ![t] = NoTask,
                           ![g] = IF task[t].last THEN r ELSE IF t = g THEN NoTask ELSE @]
  BY DEF Finish
<1> HIDE DEF r, g
<1>6. CASE task[t].last
  <2>1. t # g
    BY <1>4, <1>6
  <2>2. task' = [task EXCEPT ![t] = NoTask, ![g] = r]
    BY <1>5, <1>6
  <2>3. /\ TasksTyped' /\ task'[t] = NoTask /\ task'[g] = r
        /\ \A u \in Task : u # t /\ u # g => task'[u] = task[u]
    BY <1>2, <1>4, <2>1, <2>2 DEF TasksTyped
  <2> QED BY <1>3, <1>6, <2>3 DEF g
<1>7. CASE ~task[t].last
  <2>1. task' = [task EXCEPT ![t] = NoTask]
    BY <1>4, <1>5, <1>7 DEF TasksTyped
  <2> QED BY <1>7, <2>1 DEF TasksTyped
<1> QED BY <1>6, <1>7

-----------------------------------------------------------------------------
(* The steps, by what they do to the announcements.                        *)

(* The handler of a call that ended begins to announce.                    *)
Announces(c, stage) ==
  /\ req[c] # NoRequest /\ req'[c] = NoRequest
  /\ Begin(Handler(c), req[c].party, stage)
  /\ stage = "offline" => Leave(c) /\ Abandoned(c, req[c].party)

(* An announcement goes on to a later stage.                               *)
GoesOn(t) ==
  /\ task[t] # NoTask
  /\ \/ InStage(t, "online") \/ InStage(t, "offline")
     \/ InStage(t, "party") \/ InStage(t, "session")
  /\ TasksTyped'
  /\ \A u \in Task : u # t => task'[u] = task[u]
  /\ task'[t] # NoTask /\ task'[t].party = task[t].party /\ task'[t].last = task[t].last
  /\ task'[t].at \in {"party", "session", "send"}
  /\ task'[t].at \in {"session", "send"} => task'[t].life \in Lifecycle
  /\ UNCHANGED commandVars

Ends(t) ==
  /\ task[t] # NoTask /\ ~InStage(t, "wait")
  /\ Finish(t)
  /\ UNCHANGED commandVars

Wakes(t) ==
  /\ InStage(t, "wait")
  /\ LET p == task[t].party IN
       \/ IsOrganizerConnected(p) /\ End(t)
       \/ disconnectedAt[p] # "within" /\ Step(t, "party")
  /\ UNCHANGED commandVars

LEMMA AnnounceSteps ==
  ASSUME HubTypeOK, AnnouncementsFit, NEW t \in Task, Announce(t)
  PROVE  GoesOn(t) \/ Ends(t) \/ Wakes(t)
<1>t. TasksTyped /\ task[t] # NoTask /\ task[t] \in Announcement
  BY DEF HubTypeOK, TasksTyped, Announce, SendConnectionStatus, AnnounceParty, AnnounceSession,
         SendDisplayStatus, WakeGraceTask, InStage
<1>p. task[t].party \in Party /\ task[t].life \in Lifecycle \cup {NoArg}
      /\ task[t].snap \in Session \cup {NoSession} /\ task[t].old \in BOOLEAN
  BY <1>t DEF Announcement
<1>1. CASE SendConnectionStatus(t)
  <2>1. Step(t, "party") /\ "party" \in Stage
    BY <1>1 DEF SendConnectionStatus, Stage
  <2>2. /\ TasksTyped'
        /\ \A u \in Task : u # t => task'[u] = task[u]
        /\ task'[t] # NoTask /\ task'[t].at = "party" /\ task'[t].party = task[t].party
        /\ task'[t].last = task[t].last
    BY ONLY <1>t, <2>1, Stepped
  <2> QED BY <1>1, <1>t, <2>2 DEF SendConnectionStatus, GoesOn
<1>2. CASE AnnounceParty(t) /\ deleted[task[t].party]
  BY <1>2, <1>t DEF AnnounceParty, Ends, InStage
<1>3. CASE AnnounceParty(t) /\ ~deleted[task[t].party]
  <2> DEFINE life == lifecycle[task[t].party]
  <2>1. life \in Lifecycle
    BY <1>p DEF HubTypeOK, CommandsTypeOK
  <2>2. task' = [task EXCEPT ![t] = [@ EXCEPT !.at = "session", !.life = life,
                                               !.snap = task[t].snap, !.old = task[t].old]]
    <3>1. task' = [task EXCEPT ![t].at = "session", ![t].life = life]
      BY <1>3 DEF AnnounceParty
    <3>2. [task[t] EXCEPT !.at = "session", !.life = life]
            = [task[t] EXCEPT !.at = "session", !.life = life,
                              !.snap = task[t].snap, !.old = task[t].old]
      BY <1>t DEF Announcement
    <3> HIDE DEF life
    <3> QED BY <3>1, <3>2, <1>t DEF TasksTyped
  <2> HIDE DEF life
  <2>3. /\ TasksTyped'
        /\ \A u \in Task : u # t => task'[u] = task[u]
        /\ task'[t] # NoTask /\ task'[t].at = "session" /\ task'[t].party = task[t].party
        /\ task'[t].last = task[t].last /\ task'[t].life = life
    BY <1>t, <1>p, <2>1, <2>2, Recorded, ZenonT(60) DEF Stage
  <2> QED BY <1>3, <1>t, <2>1, <2>3 DEF AnnounceParty, GoesOn
<1>4. CASE AnnounceSession(t)
  <2> DEFINE snap == session[task[t].party]
             old == stale[task[t].party]
  <2>1. snap \in Session \cup {NoSession} /\ old \in BOOLEAN
    BY <1>p DEF HubTypeOK, CommandsTypeOK
  <2>2. task' = [task EXCEPT ![t] = [@ EXCEPT !.at = "send", !.life = task[t].life,
                                               !.snap = snap, !.old = old]]
    <3>1. task' = [task EXCEPT ![t].at = "send", ![t].snap = snap, ![t].old = old]
      BY <1>4 DEF AnnounceSession
    <3>2. [task[t] EXCEPT !.at = "send", !.snap = snap, !.old = old]
            = [task[t] EXCEPT !.at = "send", !.life = task[t].life, !.snap = snap, !.old = old]
      BY <1>t DEF Announcement
    <3> HIDE DEF snap, old
    <3> QED BY <3>1, <3>2, <1>t DEF TasksTyped
  <2> HIDE DEF snap, old
  <2>3. /\ TasksTyped'
        /\ \A u \in Task : u # t => task'[u] = task[u]
        /\ task'[t] # NoTask /\ task'[t].at = "send" /\ task'[t].party = task[t].party
        /\ task'[t].last = task[t].last /\ task'[t].life = task[t].life
    BY <1>t, <1>p, <2>1, <2>2, Recorded, ZenonT(60) DEF Stage
  <2>4. task[t].life \in Lifecycle
    BY <1>4, <1>t DEF AnnounceSession, InStage, AnnouncementsFit
  <2> QED BY <1>4, <1>t, <2>3, <2>4 DEF AnnounceSession, GoesOn
<1>5. CASE SendDisplayStatus(t)
  BY <1>5, <1>t DEF SendDisplayStatus, Ends, InStage
<1>6. CASE WakeGraceTask(t)
  BY <1>6 DEF WakeGraceTask, Wakes
<1> QED BY <1>1, <1>2, <1>3, <1>4, <1>5, <1>6 DEF Announce

(* Whatever else happens leaves the announcements alone.                   *)
LEMMA TaskSteps ==
  ASSUME HubTypeOK, AnnouncementsFit, HubNext
  PROVE  \/ UNCHANGED task
         \/ \E c \in Conn, stage \in {"online", "offline", "party"} : Announces(c, stage)
         \/ \E t \in Task : GoesOn(t) \/ Ends(t) \/ Wakes(t)
         \/ HubRestart
<1>r. RequestTyped
  BY DEF HubTypeOK, CommandsTypeOK, RequestTyped
<1>1. ASSUME NEW c \in Conn, HubArrive(c) \/ HubConnStep(c), task' # task
      PROVE  \E stage \in {"online", "offline", "party"} : Announces(c, stage)
  <2>c. c \in Caller
    BY DEF Caller
  <2>1. CASE HubJoin(c)
    <3>1. req[c] # NoRequest /\ Return(c) /\ Begin(Handler(c), req[c].party, "online")
      BY <2>1 DEF HubJoin, Join, At
    <3> QED BY <1>r, <2>c, <3>1, Returned DEF Announces
  <2>2. CASE HubLeave(c)
    <3>1. /\ req[c] # NoRequest /\ Return(c) /\ Leave(c)
          /\ Begin(Handler(c), req[c].party, "offline") /\ Abandoned(c, req[c].party)
      BY <1>1, <2>2 DEF HubLeave, Leave, At
    <3> QED BY <1>r, <2>c, <3>1, Returned DEF Announces
  <2>3. CASE HubReadSession(c)
    <3>1. req[c] # NoRequest /\ req'[c] = NoRequest /\ Begin(Handler(c), req[c].party, "party")
      BY <1>1, <2>3 DEF HubReadSession, ReadSession, At
    <3> QED BY <3>1 DEF Announces
  <2>4. CASE HubWriteSession(c)
    <3>1. /\ req[c] # NoRequest /\ req[c].op \in AnnouncedOp /\ WriteSession(c)
          /\ Begin(Handler(c), req[c].party, "party")
      BY <1>1, <2>4 DEF HubWriteSession, WriteSession, At
    <3>2. Return(c)
      BY <3>1 DEF WriteSession, AnnouncedOp
    <3> QED BY <1>r, <2>c, <3>1, <3>2, Returned DEF Announces
  <2> QED BY <1>1, <2>1, <2>2, <2>3, <2>4 DEF HubArrive, HubConnStep
<1>2. ASSUME NEW a \in Admin, Silently(Command(a)) \/ AdminStep(a) PROVE UNCHANGED task
  BY <1>2 DEF Silently, AdminStep, AdminWriteSession, AdminNotified
<1>3. ASSUME NEW w \in Web, Silently(Rest(w)) PROVE UNCHANGED task
  BY <1>3 DEF Silently
<1>4. ASSUME NEW x \in Caller, HubAcquire(x) \/ SilentStep(x) PROVE UNCHANGED task
  BY <1>4 DEF HubAcquire, SilentStep, Silently
<1>5. ASSUME NEW p \in Party, PlaybackGoesStale(p) \/ HubGraceTick(p) PROVE UNCHANGED task
  BY <1>5 DEF PlaybackGoesStale, HubGraceTick, Silently
<1> QED BY <1>1, <1>2, <1>3, <1>4, <1>5, AnnounceSteps DEF HubNext

-----------------------------------------------------------------------------
(* The two places of a connection.                                         *)

(* A connection opens, and its next call starts, only in HubArrive, which  *)
(* looks at both places.                                                   *)
LEMMA Arrivals ==
  ASSUME RequestTyped, HubNext, NEW c \in Conn,
         \/ req[c] = NoRequest /\ req'[c] # NoRequest
         \/ c \notin open /\ c \in open'
  PROVE  HubArrive(c)
<1>c. Conn \subseteq Caller /\ Admin \subseteq Caller /\ Web \subseteq Caller
  BY DEF Caller
<1>1. ASSUME NEW x \in Caller, x # c \/ req[x] # NoRequest, NEW v,
             req' = [req EXCEPT ![x] = v], open' = open
      PROVE  FALSE
  BY <1>1 DEF RequestTyped
<1>2. ASSUME NEW d \in Conn, HubArrive(d) PROVE d = c
  <2>1. CASE Connect(d) \/ Disconnect(d)
    BY <1>c, <2>1 DEF Connect, Disconnect, Issue, RequestTyped
  <2>2. ASSUME NEW op, NEW p, NEW dto, HubCall(d, op, p, dto) PROVE d = c
    BY <1>1, <1>c, <2>2 DEF HubCall, Issue
  <2> QED BY <1>2, <2>1, <2>2 DEF HubArrive, Arrive
<1>3. ASSUME NEW a \in Admin, Command(a) PROVE FALSE
  BY <1>1, <1>3, <1>c, CallerAssumption DEF Command, AdminCall, Issue
<1>4. ASSUME NEW w \in Web, Rest(w) PROVE FALSE
  BY <1>1, <1>4, <1>c, CallerAssumption DEF Rest, DeleteCall, TransitionCall, Issue
<1>5. ASSUME NEW x \in Caller,
             \/ Acquire(x) \/ Advance(x) \/ Join(x) \/ Leave(x)
      PROVE  FALSE
  <2>1. req[x] # NoRequest /\ open' = open
    BY <1>5 DEF Acquire, Advance, Join, Leave, ReadParty, ReadSession, WriteSession, RowVanished,
                WriteLifecycle, Notified, WriteTransition, DeleteSession, DeleteParty, At
  <2>2. \E v : req' = [req EXCEPT ![x] = v]
    BY <1>5 DEF Acquire, Advance, Join, Leave, ReadParty, ReadSession, WriteSession, RowVanished,
                WriteLifecycle, Notified, WriteTransition, DeleteSession, DeleteParty,
                Return, Proceed
  <2> QED BY <1>1, <2>1, <2>2
<1>6. ASSUME NEW p \in Party, GraceTick(p) PROVE FALSE
  BY <1>6 DEF GraceTick
<1>7. CASE Restart
  BY <1>7, <1>c DEF Restart
<1>8. ASSUME NEW t \in Task, Announce(t) PROVE FALSE
  BY <1>8 DEF Announce, SendConnectionStatus, AnnounceParty, AnnounceSession, SendDisplayStatus,
              WakeGraceTask, commandVars
<1>9. ASSUME NEW p \in Party, PlaybackGoesStale(p) PROVE FALSE
  BY <1>9 DEF PlaybackGoesStale, commandVars
<1> QED
  BY <1>2, <1>3, <1>4, <1>5, <1>6, <1>7, <1>8, <1>9, <1>c
     DEF HubNext, HubConnStep, HubJoin, HubLeave, HubReadSession, HubWriteSession, Silently,
         AdminStep, AdminWriteSession, AdminNotified, HubAcquire, SilentStep, HubGraceTick,
         HubRestart, Advance

(* How one announcement changes.                                           *)
LEMMA TaskChanges ==
  ASSUME HubTypeOK, AnnouncementsFit, HubNext, NEW u \in Task, task'[u] # task[u]
  PROVE  \/ \E c \in Conn, stage \in {"online", "offline", "party"} :
              Announces(c, stage) /\ u = Handler(c)
         \/ GoesOn(u) \/ Ends(u) \/ Wakes(u)
         \/ \E c \in Conn : Ends(Handler(c)) /\ LastLeft(c) /\ u = GraceTask(c)
         \/ HubRestart
<1>t. TasksTyped
  BY DEF TasksTyped, HubTypeOK
<1>1. ASSUME NEW c \in Conn, NEW stage \in {"online", "offline", "party"}, Announces(c, stage)
      PROVE  u = Handler(c)
  <2>1. req[c].party \in Party /\ Handler(c) \in Task
    BY <1>1, Places DEF Announces, HubTypeOK, CommandsTypeOK, Request, Caller
  <2> QED BY <1>1, <1>t, <2>1, Begun DEF Announces
<1>2. ASSUME NEW t \in Task, GoesOn(t) PROVE u = t
  BY <1>2 DEF GoesOn
<1>3. ASSUME NEW t \in Task, Ends(t)
      PROVE  u = t \/ (t = Handler(t[1]) /\ LastLeft(t[1]) /\ u = GraceTask(t[1]) /\ t[1] \in Conn)
  <2>1. task[t] # NoTask /\ Finish(t) /\ (task[t].last => t[2] = "call")
    BY <1>3 DEF Ends, AnnouncementsFit
  <2>2. CASE task[t].last
    <3>1. t[2] = "call" /\ t = Handler(t[1]) /\ t[1] \in Conn
      BY <2>1, <2>2, Places
    <3>2. u # t => u = GraceTask(t[1])
      BY <1>t, <2>1, Finished
    <3> QED BY <2>1, <2>2, <3>1, <3>2 DEF LastLeft
  <2>3. CASE ~task[t].last
    BY <1>t, <2>1, <2>3, Finished
  <2> QED BY <2>2, <2>3
<1>4. ASSUME NEW t \in Task, Wakes(t) PROVE u = t
  BY <1>4 DEF Wakes, Step, End, HubTypeOK
<1> QED BY <1>1, <1>2, <1>3, <1>4, TaskSteps

(* The announcements keep their types and know what they need.             *)
LEMMA AnnouncementsStep ==
  ASSUME HubTypeOK, AnnouncementsFit, HubNext
  PROVE  TasksTyped' /\ AnnouncementsFit'
<1>t. TasksTyped
  BY DEF TasksTyped, HubTypeOK
<1>1. ASSUME NEW c \in Conn, NEW stage \in {"online", "offline", "party"}, Announces(c, stage)
      PROVE  TasksTyped' /\ AnnouncementsFit'
  <2>1. req[c].party \in Party /\ Handler(c) \in Task /\ Handler(c)[2] = "call"
    BY <1>1, Places DEF Announces, HubTypeOK, CommandsTypeOK, Request, Caller
  <2>2. /\ TasksTyped'
        /\ \A u \in Task : u # Handler(c) => task'[u] = task[u]
        /\ task'[Handler(c)].at = stage
    BY <1>1, <1>t, <2>1, Begun DEF Announces
  <2>3. TasksTyped' /\ task'[Handler(c)].at \notin {"session", "send", "wait"}
    BY <2>2
  <2> QED BY <2>1, <2>2, <2>3 DEF AnnouncementsFit
<1>2. ASSUME NEW t \in Task, GoesOn(t) PROVE TasksTyped' /\ AnnouncementsFit'
  BY <1>2 DEF GoesOn, AnnouncementsFit
<1>3. ASSUME NEW t \in Task, Ends(t) PROVE TasksTyped' /\ AnnouncementsFit'
  <2>1. task[t] # NoTask /\ Finish(t) /\ (task[t].last => t[2] = "call")
    BY <1>3 DEF Ends, AnnouncementsFit
  <2>2. GraceTask(t[1]) \in Task /\ GraceTask(t[1])[2] = "grace"
    BY Places
  <2>3. CASE task[t].last
    <3>1. /\ TasksTyped' /\ task'[t] = NoTask
          /\ \A u \in Task : u # t /\ u # GraceTask(t[1]) => task'[u] = task[u]
          /\ task'[GraceTask(t[1])].at = "wait" /\ ~task'[GraceTask(t[1])].last
      BY <1>t, <2>1, <2>3, Finished
    <3> QED BY <2>2, <3>1 DEF AnnouncementsFit
  <2>4. CASE ~task[t].last
    <3>1. /\ TasksTyped' /\ task'[t] = NoTask
          /\ \A u \in Task : u # t => task'[u] = task[u]
      BY <1>t, <2>1, <2>4, Finished
    <3> QED BY <3>1 DEF AnnouncementsFit
  <2> QED BY <2>3, <2>4
<1>4. ASSUME NEW t \in Task, Wakes(t) PROVE TasksTyped' /\ AnnouncementsFit'
  <2>1. task[t] # NoTask
    BY <1>4 DEF Wakes, InStage
  <2>2. CASE End(t)
    BY <1>t, <2>2 DEF End, TasksTyped, AnnouncementsFit
  <2>3. CASE Step(t, "party")
    <3>1. /\ TasksTyped'
          /\ \A u \in Task : u # t => task'[u] = task[u]
          /\ task'[t].at = "party" /\ task'[t].last = task[t].last
      BY <1>t, <2>1, <2>3, Stepped DEF Stage
    <3> QED BY <2>1, <3>1 DEF AnnouncementsFit
  <2> QED BY <1>4, <2>2, <2>3 DEF Wakes
<1>5. CASE UNCHANGED task
  BY <1>5, <1>t DEF TasksTyped, AnnouncementsFit
<1>6. CASE HubRestart
  BY <1>6 DEF HubRestart, TasksTyped, AnnouncementsFit
<1> QED BY <1>1, <1>2, <1>3, <1>4, <1>5, <1>6, TaskSteps

(* No call starts while a handler of its connection is left, and none      *)
(* begins while the call still runs.                                       *)
LEMMA HandlerIsFreeStep ==
  ASSUME HubTypeOK, AnnouncementsFit, HandlerIsFree, HubNext
  PROVE  HandlerIsFree'
<1> SUFFICES ASSUME NEW c \in Conn, req'[c] # NoRequest
             PROVE  task'[Handler(c)] = NoTask
  BY DEF HandlerIsFree, Handler
<1>r. RequestTyped /\ c \in Caller /\ Handler(c) \in Task
  BY Places DEF HubTypeOK, CommandsTypeOK, RequestTyped, Caller
<1>1. CASE req[c] = NoRequest
  BY <1>1, <1>r, Arrivals DEF HubArrive
<1>2. CASE req[c] # NoRequest
  <2>1. task[Handler(c)] = NoTask /\ ~HubRestart
    BY <1>2, <1>r DEF HandlerIsFree, HubRestart, Restart
  <2>2. ASSUME NEW d \in Conn, NEW stage, Announces(d, stage), Handler(c) = Handler(d) PROVE FALSE
    BY <2>2, Places DEF Announces
  <2> QED BY <1>r, <2>1, <2>2, TaskChanges, Places DEF GoesOn, Ends, Wakes, InStage
<1> QED BY <1>1, <1>2

LEMMA LeavingIsClosedStep ==
  ASSUME HubTypeOK, IInv, AnnouncementsFit, HandlerIsFree, LeavingIsClosed, HubNext
  PROVE  LeavingIsClosed'
<1> SUFFICES ASSUME NEW c \in Conn,
                    \/ req'[c] # NoRequest /\ req'[c].op = "Leave"
                    \/ task'[Handler(c)] # NoTask /\ task'[Handler(c)].last
             PROVE  c \notin open'
  BY DEF LeavingIsClosed, LastLeft, Handler
<1>r. RequestTyped /\ c \in Caller /\ Handler(c) \in Task /\ CommandsTypeOK
      /\ CallsAreTheirs /\ ArgumentsFit
  BY Places DEF HubTypeOK, CommandsTypeOK, RequestTyped, Caller, IInv
<1>1. ASSUME c \notin open, req[c] # NoRequest \/ task[Handler(c)] # NoTask PROVE c \notin open'
  <2>1. ~HubArrive(c) \/ req[c] # NoRequest
    BY <1>1 DEF HubArrive
  <2>2. HubArrive(c) => Connect(c) \/ open' \subseteq open
    BY DEF HubArrive, Arrive, Disconnect, HubCall
  <2> QED BY <1>1, <1>r, <2>1, <2>2, Arrivals DEF Connect
<1>2. CASE req'[c] # NoRequest /\ req'[c].op = "Leave"
  <2>1. CASE req[c] = NoRequest
    <3>1. HubArrive(c)
      BY <1>2, <1>r, <2>1, Arrivals
    <3>2. ASSUME NEW op \in ConnOp \ {"Leave"}, NEW p \in Party, NEW dto \in Snapshot \cup {NoArg},
                 HubCall(c, op, p, dto)
          PROVE  FALSE
      BY <1>2, <1>r, <3>2, Issued DEF HubCall, ConnOp, AnyOp, SessionOp, Phase
    <3>3. Disconnect(c)
      BY <1>2, <2>1, <3>1, <3>2, InputAssumption
         DEF HubArrive, Arrive, Connect, ConnOp, HubOp
    <3> QED BY <3>3 DEF Disconnect
  <2>2. CASE req[c] # NoRequest
    <3>1. CommandsNext \/ UNCHANGED req
      BY HubStep DEF commandVars
    <3>2. req[c].op = "Leave"
      BY <1>2, <1>r, <2>2, <3>1, RequestSteps DEF IsNew, MovesOn
    <3> QED BY <1>1, <2>2, <3>2 DEF LeavingIsClosed
  <2> QED BY <2>1, <2>2
<1>3. CASE task'[Handler(c)] # NoTask /\ task'[Handler(c)].last
  <2>1. CASE LastLeft(c)
    BY <1>1, <2>1 DEF LeavingIsClosed, LastLeft
  <2>2. CASE ~LastLeft(c)
    <3>0. task'[Handler(c)] # task[Handler(c)]
      BY <1>3, <2>2 DEF LastLeft
    <3>1. ASSUME NEW d \in Conn, NEW stage \in {"online", "offline", "party"},
                 Announces(d, stage), Handler(c) = Handler(d)
          PROVE  Leave(c)
      <4>1. d = c /\ req[c].party \in Party /\ TasksTyped
        BY <3>1, <1>r, Places DEF Announces, RequestTyped, Request, HubTypeOK, TasksTyped
      <4>2. task'[Handler(c)].last <=> stage = "offline"
        BY <1>r, <3>1, <4>1, Begun DEF Announces
      <4> QED BY <1>3, <3>1, <4>1, <4>2 DEF Announces
    <3>2. ~GoesOn(Handler(c)) /\ ~HubRestart
      BY <1>3, <1>r, <2>2 DEF GoesOn, LastLeft, HubRestart
    <3>3. ~Ends(Handler(c))
      BY <1>3, <1>r, Finished DEF Ends, AnnouncementsFit, HubTypeOK, TasksTyped
    <3>4. ~Wakes(Handler(c))
      BY <1>r, Places DEF Wakes, InStage, AnnouncementsFit
    <3>5. Leave(c)
      BY <1>r, <3>0, <3>1, <3>2, <3>3, <3>4, TaskChanges, Places
    <3> QED BY <1>1, <3>5 DEF Leave, At, LeavingIsClosed
  <2> QED BY <2>1, <2>2
<1> QED BY <1>2, <1>3

(* The place a grace task will need stays free until it is needed.         *)
LEMMA GraceSlotIsFreeStep ==
  ASSUME HubTypeOK, AnnouncementsFit, HandlerIsFree, LeavingIsClosed, GraceSlotIsFree, HubNext
  PROVE  GraceSlotIsFree'
<1> SUFFICES ASSUME NEW c \in Conn,
                    \/ c \in open' \/ req'[c] # NoRequest
                    \/ task'[Handler(c)] # NoTask /\ task'[Handler(c)].last
             PROVE  task'[GraceTask(c)] = NoTask
  BY DEF GraceSlotIsFree, LastLeft, Handler, GraceTask
<1>r. RequestTyped /\ c \in Caller /\ Handler(c) \in Task /\ GraceTask(c) \in Task /\ TasksTyped
  BY Places DEF HubTypeOK, CommandsTypeOK, RequestTyped, TasksTyped, Caller
<1>1. CASE HubRestart
  BY <1>1, <1>r DEF HubRestart
<1>2. CASE ~HubRestart
  <2>1. task[GraceTask(c)] = NoTask
    <3>1. CASE HubArrive(c)
      BY <3>1 DEF HubArrive, GraceSlotIsFree
    <3>2. CASE ~HubArrive(c) /\ (c \in open' \/ req'[c] # NoRequest)
      BY <1>r, <3>2, Arrivals DEF GraceSlotIsFree
    <3>3. CASE task'[Handler(c)] # NoTask /\ task'[Handler(c)].last /\ ~LastLeft(c)
      <4>1. task'[Handler(c)] # task[Handler(c)]
        BY <3>3 DEF LastLeft
      <4>2. ~GoesOn(Handler(c))
        BY <3>3, <1>r DEF GoesOn, LastLeft
      <4>3. ~Ends(Handler(c))
        BY <3>3, <1>r, Finished DEF Ends, AnnouncementsFit
      <4>4. ~Wakes(Handler(c))
        BY <1>r, Places DEF Wakes, InStage, AnnouncementsFit
      <4>5. req[c] # NoRequest
        BY <1>2, <1>r, <4>1, <4>2, <4>3, <4>4, TaskChanges, Places DEF Announces
      <4> QED BY <4>5 DEF GraceSlotIsFree
    <3>4. CASE LastLeft(c)
      BY <3>4 DEF GraceSlotIsFree
    <3> QED BY <3>1, <3>2, <3>3, <3>4
  <2>2. ASSUME NEW d \in Conn, Ends(Handler(d)), LastLeft(d), GraceTask(c) = GraceTask(d) PROVE FALSE
    <3>1. d = c
      BY <2>2, Places
    <3>2. req[c] = NoRequest /\ c \notin open
      BY <2>2, <3>1 DEF LastLeft, HandlerIsFree, LeavingIsClosed
    <3>3. req'[c] = NoRequest /\ c \notin open'
      BY <2>2, <3>2 DEF Ends, commandVars
    <3>4. task'[Handler(c)] = NoTask
      BY <1>r, <2>2, <3>1, Finished DEF Ends, AnnouncementsFit
    <3> QED BY <3>3, <3>4
  <2> QED BY <1>2, <1>r, <2>1, <2>2, TaskChanges, Places DEF GoesOn, Ends, Wakes, InStage
<1> QED BY <1>1, <1>2

-----------------------------------------------------------------------------
(* The types of what viewers are told.                                     *)

(* ReadParty gives a command the lifecycle, and no later step takes it.    *)
LEMMA LifecycleIsKept ==
  ASSUME CommandsTypeOK, CallsAreTheirs, ArgumentsFit, ResetKnowsLifecycle,
         [CommandsNext]_commandVars
  PROVE  ResetKnowsLifecycle'
<1> SUFFICES ASSUME NEW x \in Caller, req'[x] # NoRequest, req'[x].op = "ResetSession",
                    req'[x].at \in {"session", "write", "notify"}
             PROVE  req'[x].life \in Lifecycle
  BY DEF ResetKnowsLifecycle
<1>r. RequestTyped
  BY DEF CommandsTypeOK, RequestTyped
<1>1. CASE req'[x] = req[x]
  BY <1>1 DEF ResetKnowsLifecycle
<1>2. CASE req'[x] # req[x]
  <2>1. MovesOn(x)
    BY <1>2, RequestSteps DEF IsNew, ConnOp, HubOp, commandVars
  <2>2. req[x] \in Request /\ req[x].op = "ResetSession"
    BY <1>r, <2>1 DEF MovesOn, RequestTyped
  <2>3. CASE ReadParty(x) /\ owner' = owner
    <3>1. req' = [req EXCEPT ![x].at = "session", ![x].life = lifecycle[req[x].party],
                             ![x].online = IsOrganizerConnected(req[x].party)]
      BY <1>r, <2>3, Returned DEF ReadParty
    <3>2. req'[x].life = lifecycle[req[x].party]
      BY <1>r, <2>2, <3>1 DEF RequestTyped, Request
    <3> QED BY <2>2, <3>2 DEF Request, CommandsTypeOK
  <2>4. CASE ReadSession(x) /\ owner' = owner
    <3>1. req' = [req EXCEPT ![x].at = "write", ![x].snap = session[req[x].party]]
      BY <1>r, <2>4, Returned DEF ReadSession
    <3>2. req'[x].life = req[x].life
      BY <1>r, <2>2, <3>1 DEF RequestTyped, Request
    <3> QED BY <2>2, <2>4, <3>2 DEF ReadSession, At, ResetKnowsLifecycle
  <2>5. CASE WriteSession(x) \/ WriteLifecycle(x)
    <3>1. Proceed(x, "notify") /\ req[x].at = "write"
      BY <1>r, <2>2, <2>5, Returned DEF WriteSession, WriteLifecycle, At
    <3>2. req'[x].life = req[x].life
      BY <1>r, <2>2, <3>1 DEF RequestTyped, Request, Proceed
    <3> QED BY <2>1, <2>2, <3>1, <3>2 DEF MovesOn, ResetKnowsLifecycle
  <2>6. CASE Acquire(x)
    BY <2>1, <2>2, <2>6 DEF MovesOn, Acquire, ReadParty, ReadSession, WriteSession,
       WriteLifecycle, DeleteSession, At
  <2>7. CASE DeleteSession(x)
    BY <2>2, <2>7 DEF DeleteSession
  <2> QED BY <2>1, <2>3, <2>4, <2>5, <2>6, <2>7 DEF MovesOn
<1> QED BY <1>1, <1>2

(* Compute has an answer for every party the server can have.              *)
LEMMA ComputeTypes ==
  ASSUME NEW life \in Lifecycle, NEW s, NEW old \in BOOLEAN, NEW connected \in BOOLEAN, NEW mark
  PROVE  Compute(life, s, old, connected, mark) \in DisplayStatuses
BY DEF Compute, DisplayStatuses, HasEffectiveActiveSession, Lifecycle

LEMMA StatusTypes ==
  ASSUME NEW p \in Party, NEW life \in Lifecycle, NEW s, NEW old \in BOOLEAN
  PROVE  StatusNow(p, life, s, old) \in DisplayStatuses
BY ComputeTypes DEF StatusNow, IsOrganizerConnected

(* Every step keeps the types of what viewers were told.                   *)
LEMMA ShownStep ==
  ASSUME HubTypeOK, AnnouncementsFit, ResetKnowsLifecycle, HubNext
  PROVE  /\ shown' \in [Party -> DisplayStatuses]
         /\ announced' \in [Party -> BOOLEAN]
         /\ stale' \in [Party -> BOOLEAN]
<1> USE DEF HubTypeOK
<1> DEFINE Told == /\ shown' \in [Party -> DisplayStatuses]
                   /\ announced' \in [Party -> BOOLEAN]
                   /\ stale' \in [Party -> BOOLEAN]
<1>1. CASE UNCHANGED <<viewerVars, stale>>
  BY <1>1 DEF viewerVars
<1>2. ASSUME NEW x \in Caller, stale' = [stale EXCEPT ![req[x].party] = FALSE], UNCHANGED viewerVars
      PROVE  Told
  BY <1>2 DEF viewerVars
<1>3. ASSUME NEW a \in Admin, AdminNotified(a) PROVE Told
  <2>1. /\ req[a] \in Request /\ req[a] # NoRequest /\ req[a].at = "notify" /\ a \in Caller
        /\ req[a].party \in Party
    BY <1>3 DEF AdminNotified, Notified, At, CommandsTypeOK, Request, Caller
  <2>2. CASE req[a].op = "ResetSession"
    <3>1. StatusNow(req[a].party, req[a].life, Blank, FALSE) \in DisplayStatuses
      BY <2>1, <2>2, StatusTypes DEF ResetKnowsLifecycle
    <3> QED BY <1>3, <2>2, <3>1 DEF AdminNotified
  <2> QED BY <1>3, <2>2 DEF AdminNotified
<1>4. ASSUME NEW t \in Task, Announce(t) PROVE Told
  <2>t. task[t] # NoTask => task[t] \in Announcement /\ task[t].party \in Party
    BY DEF Announcement
  <2>1. CASE SendConnectionStatus(t)
    BY <2>1, <2>t DEF SendConnectionStatus, InStage
  <2>2. CASE SendDisplayStatus(t)
    <3>1. task[t] # NoTask /\ task[t].life \in Lifecycle /\ task[t].old \in BOOLEAN
      BY <2>2, <2>t DEF SendDisplayStatus, InStage, AnnouncementsFit, Announcement
    <3>2. StatusNow(task[t].party, task[t].life, task[t].snap, task[t].old) \in DisplayStatuses
      BY <2>t, <3>1, StatusTypes
    <3> QED BY <2>2, <3>2 DEF SendDisplayStatus
  <2> QED BY <1>1, <1>4, <2>1, <2>2 DEF Announce, AnnounceParty, AnnounceSession, WakeGraceTask
<1>5. ASSUME NEW p \in Party, PlaybackGoesStale(p) PROVE Told
  BY <1>5 DEF PlaybackGoesStale, viewerVars
<1>6. ASSUME HubRestart PROVE Told
  <2>1. \A p \in Party :
          Compute(lifecycle[p], session[p], stale[p], FALSE, "never") \in DisplayStatuses
    BY ComputeTypes DEF CommandsTypeOK
  <2> QED BY <1>6, <2>1 DEF HubRestart
<1>7. ASSUME NEW c \in Conn, HubArrive(c) \/ HubConnStep(c) PROVE Told
  BY <1>1, <1>2, <1>7 DEF HubArrive, HubConnStep, HubJoin, HubLeave, HubReadSession, HubWriteSession,
     viewerVars, Caller
<1>8. ASSUME NEW a \in Admin, Silently(Command(a)) \/ AdminStep(a) PROVE Told
  BY <1>1, <1>2, <1>3, <1>8 DEF Silently, AdminStep, AdminWriteSession, viewerVars, Caller
<1>9. ASSUME NEW w \in Web, Silently(Rest(w)) PROVE Told
  BY <1>1, <1>9 DEF Silently, viewerVars
<1>10. ASSUME NEW x \in Caller, HubAcquire(x) \/ SilentStep(x) PROVE Told
  BY <1>1, <1>10 DEF Silently, HubAcquire, SilentStep, viewerVars
<1>11. ASSUME NEW p \in Party, HubGraceTick(p) PROVE Told
  BY <1>1, <1>11 DEF Silently, HubGraceTick, viewerVars
<1> HIDE DEF Told
<1>12. Told
  BY <1>4, <1>5, <1>6, <1>7, <1>8, <1>9, <1>10, <1>11 DEF HubNext
<1> QED BY <1>12 DEF Told

-----------------------------------------------------------------------------
LEMMA InitHubInvariant == HubInit => HubInv
<1> SUFFICES ASSUME HubInit PROVE HubInv
  OBVIOUS
<1>1. IInv /\ CommandsTypeOK
  BY InitInvariant DEF HubInit, IInv
<1>2. /\ \A t \in Task : task[t] = NoTask
      /\ \A x \in Caller : req[x] = NoRequest
      /\ open = {}
  BY DEF HubInit, CommandsInit
<1>3. HubTypeOK
  BY <1>1 DEF HubInit, HubTypeOK, DisplayStatuses
<1>4. HandlerIsFree /\ LeavingIsClosed /\ GraceSlotIsFree
  BY <1>2, Places DEF HandlerIsFree, LeavingIsClosed, GraceSlotIsFree, LastLeft, Caller
<1>5. AnnouncementsFit /\ ResetKnowsLifecycle
  BY <1>2 DEF AnnouncementsFit, ResetKnowsLifecycle
<1> QED BY <1>1, <1>3, <1>4, <1>5 DEF HubInv

(* The inductive invariant is kept by every step, stuttering included.     *)
LEMMA KeptHubInvariant == HubInv /\ [HubNext]_hubVars => HubInv'
<1> SUFFICES ASSUME HubInv, [HubNext]_hubVars PROVE HubInv'
  OBVIOUS
<1> USE DEF HubInv
<1>1. IInv' /\ CommandsTypeOK'
  BY HubStep, KeptInvariant DEF IInv
<1>2. CASE UNCHANGED hubVars
  BY <1>1, <1>2
     DEF hubVars, commandVars, dbVars, HubTypeOK, HandlerIsFree, LeavingIsClosed,
         GraceSlotIsFree, AnnouncementsFit, ResetKnowsLifecycle, LastLeft, Handler, GraceTask
<1>3. CASE HubNext
  <2>1. TasksTyped' /\ AnnouncementsFit'
    BY <1>3, AnnouncementsStep
  <2>2. HubTypeOK'
    BY <1>1, <1>3, <2>1, ShownStep DEF HubTypeOK, TasksTyped
  <2>3. HandlerIsFree'
    BY <1>3, HandlerIsFreeStep
  <2>4. LeavingIsClosed'
    BY <1>3, LeavingIsClosedStep
  <2>5. GraceSlotIsFree'
    BY <1>3, GraceSlotIsFreeStep
  <2>6. ResetKnowsLifecycle'
    BY HubStep, LifecycleIsKept DEF IInv
  <2> QED BY <1>1, <2>1, <2>2, <2>3, <2>4, <2>5, <2>6
<1> QED BY <1>2, <1>3

(* Calls, handlers and grace tasks respect each other's places for         *)
(* announcements, however they interleave.                                 *)
THEOREM HubInvariantHolds == HubSpec => []HubInv
BY InitHubInvariant, KeptHubInvariant, PTL DEF HubSpec

(* Every status and connection status the hub sends is one it has a name   *)
(* for: no announcement computes with a lifecycle it never read.           *)
THEOREM HubTypesHold == HubSpec => []HubTypeOK
<1>1. HubInv => HubTypeOK
  BY DEF HubInv
<1> QED BY <1>1, HubInvariantHolds, PTL

-----------------------------------------------------------------------------
(* The announcement that is owed to a party in its grace period.           *)

Pending(p) ==
  \E t \in Task : /\ task[t] # NoTask /\ task[t].party = p
                  /\ task[t].last \/ task[t].at = "wait"

PendingWithin(p) == disconnectedAt[p] = "within" => Pending(p)

(* RegisterOrganizer takes c, the last connection of p, to another party.  *)
MovesAway(c, p) ==
  HubJoin(c) /\ Abandoned(c, p) /\ req[c].party # p

(* The steps that touch the tracker.                                       *)
LEMMA HubTrackerSteps ==
  ASSUME HubNext
  PROVE  \/ UNCHANGED trackerVars
         \/ \E c \in Conn : HubJoin(c) \/ HubLeave(c)
         \/ \E p \in Party : GraceTick(p)
         \/ Restart
<1>1. ASSUME NEW c \in Conn, HubArrive(c) PROVE UNCHANGED trackerVars
  BY <1>1 DEF HubArrive, Arrive, Connect, Disconnect, HubCall
<1>2. ASSUME NEW c \in Conn, HubReadSession(c) \/ HubWriteSession(c) PROVE UNCHANGED trackerVars
  BY <1>2 DEF HubReadSession, HubWriteSession, ReadSession, WriteSession
<1>3. ASSUME NEW a \in Admin, Silently(Command(a)) \/ AdminStep(a) PROVE UNCHANGED trackerVars
  BY <1>3 DEF Silently, AdminStep, AdminWriteSession, AdminNotified, Command, AdminCall,
              ReadSession, WriteSession, Notified
<1>4. ASSUME NEW w \in Web, Silently(Rest(w)) PROVE UNCHANGED trackerVars
  BY <1>4 DEF Silently, Rest, DeleteCall, TransitionCall
<1>5. ASSUME NEW x \in Caller, HubAcquire(x) \/ SilentStep(x) PROVE UNCHANGED trackerVars
  BY <1>5 DEF HubAcquire, SilentStep, Silently, Acquire, ReadParty, RowVanished, WriteLifecycle,
              WriteTransition, DeleteSession, DeleteParty
<1>6. ASSUME NEW t \in Task, Announce(t) PROVE UNCHANGED trackerVars
  BY <1>6 DEF Announce, SendConnectionStatus, AnnounceParty, AnnounceSession, SendDisplayStatus,
              WakeGraceTask, commandVars
<1>7. ASSUME NEW p \in Party, PlaybackGoesStale(p) PROVE UNCHANGED trackerVars
  BY <1>7 DEF PlaybackGoesStale, commandVars
<1> QED BY <1>1, <1>2, <1>3, <1>4, <1>5, <1>6, <1>7
        DEF HubNext, HubConnStep, HubGraceTick, Silently, HubRestart

(* A party enters its grace period when its last connection is removed or  *)
(* moves away; the removal begins a handler that owes the announcement.    *)
LEMMA GraceBegins ==
  ASSUME HubInv, HubNext, NEW p \in Party,
         disconnectedAt[p] # "within", disconnectedAt'[p] = "within"
  PROVE  Pending(p)' \/ \E c \in Conn : MovesAway(c, p)
<1>t. RequestTyped /\ TasksTyped /\ TrackerTypeOK
  BY DEF HubInv, HubTypeOK, CommandsTypeOK, RequestTyped, TasksTyped
<1>1. CASE UNCHANGED trackerVars \/ (\E q \in Party : GraceTick(q)) \/ Restart
  BY <1>1, <1>t DEF trackerVars, GraceTick, GraceElapses, Restart, TrackerTypeOK
<1>2. ASSUME NEW c \in Conn, HubJoin(c) PROVE MovesAway(c, p)
  BY <1>2, <1>t DEF HubJoin, Join, RegisterOrganizer, MarkedWithout, MovesAway, TrackerTypeOK
<1>3. ASSUME NEW c \in Conn, HubLeave(c) PROVE Pending(p)'
  <2>1. req[c] # NoRequest /\ req[c].party \in Party /\ Handler(c) \in Task
    BY <1>3, <1>t, Places DEF HubLeave, Leave, At, RequestTyped, Request, Caller
  <2>2. req[c].party = p /\ Abandoned(c, req[c].party)
    BY <1>3, <1>t DEF HubLeave, Leave, TryRemoveOrganizer, MarkedWithout, trackerVars, Abandoned
  <2>3. Begin(Handler(c), p, "offline")
    BY <1>3, <2>2 DEF HubLeave
  <2>4. task'[Handler(c)] # NoTask /\ task'[Handler(c)].party = p /\ task'[Handler(c)].last
    BY <1>t, <2>1, <2>3, Begun
  <2> QED BY <2>1, <2>4 DEF Pending
<1> QED BY <1>1, <1>2, <1>3, HubTrackerSteps

(* What is owed stays owed until a grace task finds the organizer back or  *)
(* the grace period over.                                                  *)
LEMMA StaysPending ==
  ASSUME HubInv, HubNext, NEW p \in Party, Pending(p), disconnectedAt[p] = "within"
  PROVE  Pending(p)' \/ disconnectedAt'[p] # "within"
<1>t. RequestTyped /\ TasksTyped
  BY DEF HubInv, HubTypeOK, CommandsTypeOK, RequestTyped, TasksTyped
<1>1. PICK t \in Task : /\ task[t] # NoTask /\ task[t].party = p
                        /\ task[t].last \/ task[t].at = "wait"
  BY DEF Pending
<1>2. CASE UNCHANGED task
  BY <1>1, <1>2 DEF Pending
<1>3. ASSUME NEW c \in Conn, NEW stage \in {"online", "offline", "party"}, Announces(c, stage)
      PROVE  Pending(p)'
  <2>1. Handler(c) \in Task /\ req[c].party \in Party /\ Handler(c) # t
    BY <1>1, <1>3, Places
       DEF Announces, HubInv, HandlerIsFree, HubTypeOK, CommandsTypeOK, Request, Caller
  <2>2. task'[t] = task[t]
    BY <1>3, <1>t, <2>1, Begun DEF Announces
  <2> QED BY <1>1, <2>2 DEF Pending
<1>4. ASSUME NEW u \in Task, GoesOn(u) PROVE Pending(p)'
  <2>1. CASE u # t
    BY <1>1, <1>4, <2>1 DEF GoesOn, Pending
  <2>2. CASE u = t
    <3>1. task[t].at # "wait"
      BY <1>4, <2>2 DEF GoesOn, InStage
    <3> QED BY <1>1, <1>4, <2>2, <3>1 DEF GoesOn, Pending
  <2> QED BY <2>1, <2>2
<1>5. ASSUME NEW u \in Task, Ends(u) PROVE Pending(p)'
  <2>1. task[u] # NoTask /\ Finish(u) /\ (task[u].last => u[2] = "call") /\ task[u].at # "wait"
    BY <1>5 DEF Ends, InStage, HubInv, AnnouncementsFit
  <2>2. CASE u = t
    <3>1. /\ task'[GraceTask(t[1])] # NoTask /\ task'[GraceTask(t[1])].party = p
          /\ task'[GraceTask(t[1])].at = "wait"
      BY <1>1, <1>t, <2>1, <2>2, Finished
    <3> QED BY <3>1, Places DEF Pending
  <2>3. CASE u # t
    <3>1. task[u].last => task[GraceTask(u[1])] = NoTask
      BY <2>1, Places DEF HubInv, GraceSlotIsFree, LastLeft
    <3>2. task'[t] = task[t]
      BY <1>1, <1>t, <2>1, <2>3, <3>1, Finished
    <3> QED BY <1>1, <3>2 DEF Pending
  <2> QED BY <2>2, <2>3
<1>6. ASSUME NEW u \in Task, Wakes(u) PROVE Pending(p)'
  <2>1. CASE u # t
    <3>1. task'[t] = task[t]
      BY <1>6, <1>t, <2>1 DEF Wakes, Step, End, TasksTyped
    <3> QED BY <1>1, <3>1 DEF Pending
  <2>2. CASE u = t
    <3>1. partyToConnections[p] = {}
      BY DEF HubInv, IInv, MarkMeansOffline
    <3> QED BY <1>1, <1>6, <2>2, <3>1 DEF Wakes, IsOrganizerConnected
  <2> QED BY <2>1, <2>2
<1>7. CASE HubRestart
  BY <1>7 DEF HubRestart, Restart
<1> QED BY <1>2, <1>3, <1>4, <1>5, <1>6, <1>7, TaskSteps DEF HubInv

(* No step but a move of a party's last connection leaves the party in its *)
(* grace period with nobody to tell its viewers when it is over.           *)
LEMMA PendingStep ==
  ASSUME NEW p \in Party, HubInv, PendingWithin(p), [HubNext]_hubVars,
         \A c \in Conn : ~MovesAway(c, p)
  PROVE  PendingWithin(p)'
<1>1. CASE UNCHANGED hubVars
  BY <1>1 DEF hubVars, commandVars, trackerVars, PendingWithin, Pending
<1>2. CASE HubNext
  BY <1>2, GraceBegins, StaysPending DEF PendingWithin
<1> QED BY <1>1, <1>2

(* As long as no connection that was a party's last is moved to another    *)
(* party, a party in its grace period is always owed the announcement that *)
(* ends it: reconnects, overlapping grace tasks and restarts never drop it. *)
THEOREM OfflineStaysPending ==
  ASSUME NEW p \in Party
  PROVE  HubSpec /\ [][\A c \in Conn : ~MovesAway(c, p)]_hubVars => []PendingWithin(p)
<1>1. HubInit => PendingWithin(p)
  BY DEF HubInit, CommandsInit, TrackerInit, PendingWithin
<1>2. /\ HubInv /\ PendingWithin(p) /\ [HubNext]_hubVars
      /\ [\A c \in Conn : ~MovesAway(c, p)]_hubVars
      => PendingWithin(p)'
  <2> SUFFICES ASSUME HubInv, PendingWithin(p), [HubNext]_hubVars,
                      [\A c \in Conn : ~MovesAway(c, p)]_hubVars
               PROVE  PendingWithin(p)'
    OBVIOUS
  <2>1. CASE UNCHANGED hubVars
    BY <2>1 DEF hubVars, commandVars, trackerVars, PendingWithin, Pending
  <2> QED BY <2>1, PendingStep
<1> QED BY <1>1, <1>2, HubInvariantHolds, PTL DEF HubSpec

(* With a single party there is nowhere to move to, and the invariant      *)
(* holds as it stands.                                                     *)
THEOREM OfflineIsAlwaysPending ==
  ASSUME \A p, q \in Party : p = q
  PROVE  HubSpec => []OfflineIsPending
<1>1. HubInit => \A p \in Party : PendingWithin(p)
  BY DEF HubInit, CommandsInit, TrackerInit, PendingWithin
<1>2. HubInv /\ (\A p \in Party : PendingWithin(p)) /\ [HubNext]_hubVars
        => (\A p \in Party : PendingWithin(p))'
  <2> SUFFICES ASSUME HubInv, \A p \in Party : PendingWithin(p), [HubNext]_hubVars, NEW p \in Party
               PROVE  PendingWithin(p)'
    OBVIOUS
  <2>1. \A c \in Conn : ~MovesAway(c, p)
    BY DEF MovesAway, HubJoin, Join, At, HubInv, HubTypeOK, CommandsTypeOK, Request, Caller
  <2> QED BY <2>1, PendingStep
<1>3. (\A p \in Party : PendingWithin(p)) => OfflineIsPending
  BY DEF OfflineIsPending, PendingWithin, Pending
<1> QED BY <1>1, <1>2, <1>3, HubInvariantHolds, PTL DEF HubSpec
=============================================================================
