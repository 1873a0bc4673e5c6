---------------------------- MODULE SessionObject ----------------------------
(***************************************************************************)
(* What the coordinated calls promise together, without calls, awaits or   *)
(* semaphores: a party's session is an object on which every operation     *)
(* happens in one step, and an administrator's operation only while the    *)
(* party is not on air.  Once a party is doomed (its deletion has begun)   *)
(* nothing is promised about its session any more.                         *)
(***************************************************************************)
EXTENDS PartySession

CONSTANTS Party, Snapshots

VARIABLES session, lifecycle, online, doomed

objectVars == <<session, lifecycle, online, doomed>>

LifecycleState == {"Draft", "Ready", "Completed"}

Live(p) == session[p] # NoSession /\ session[p].active /\ online[p]

Init ==
  /\ session = [p \in Party |-> NoSession]
  /\ lifecycle = [p \in Party |-> "Ready"]
  /\ online = [p \in Party |-> FALSE]
  /\ doomed = [p \in Party |-> FALSE]

Becomes(p, s) ==
  /\ session' = [session EXCEPT ![p] = s]
  /\ UNCHANGED <<lifecycle, online, doomed>>

Start(p) == \E kept \in BOOLEAN : Becomes(p, Started(session[p], kept))
End(p) == session[p] # NoSession /\ Becomes(p, Ended(session[p]))
Reset(p) == Becomes(p, Cleared(session[p]))
Move(p) == session[p] # NoSession /\ Becomes(p, Positioned(session[p]))
Publish(p) == \E dto \in Snapshots : Becomes(p, Published(session[p], dto))

AdminReset(p) == session[p] # NoSession /\ ~Live(p) /\ Becomes(p, Blank)
AdminLifecycle(p) ==
  /\ ~Live(p)
  /\ \E state \in LifecycleState : lifecycle' = [lifecycle EXCEPT ![p] = state]
  /\ UNCHANGED <<session, online, doomed>>

(* The organizer may change the lifecycle while on air.                    *)
OrganizerLifecycle(p) ==
  /\ \E state \in {"Ready", "Completed"} : lifecycle' = [lifecycle EXCEPT ![p] = state]
  /\ UNCHANGED <<session, online, doomed>>

(* Organizer connections come and go.                                      *)
Presence ==
  /\ online' \in [Party -> BOOLEAN]
  /\ UNCHANGED <<session, lifecycle, doomed>>

Doom(p) ==
  /\ doomed' = [doomed EXCEPT ![p] = TRUE]
  /\ \/ session' = [session EXCEPT ![p] = NoSession]
     \/ UNCHANGED session
  /\ UNCHANGED <<lifecycle, online>>

Orphan(p) == doomed[p] /\ \E s \in Session : Becomes(p, s)

(* A crash forgets the connections and a deletion that was under way.      *)
Crash ==
  /\ online' = [p \in Party |-> FALSE]
  /\ doomed' \in [Party -> BOOLEAN]
  /\ \A p \in Party : doomed'[p] => doomed[p]
  /\ UNCHANGED <<session, lifecycle>>

Next ==
  \/ \E p \in Party :
       \/ Start(p) \/ End(p) \/ Reset(p) \/ Move(p) \/ Publish(p)
       \/ AdminReset(p) \/ AdminLifecycle(p) \/ OrganizerLifecycle(p)
       \/ Doom(p) \/ Orphan(p)
  \/ Presence
  \/ Crash

Spec == Init /\ [][Next]_objectVars
=============================================================================
