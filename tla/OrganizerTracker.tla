-------------------------- MODULE OrganizerTracker --------------------------
(***************************************************************************)
(* OrganizerConnectionTracker: which SignalR connections are organizers of *)
(* which party.  Every method runs under the private lock _gate, so each   *)
(* is one step.  A party without an entry in _partyToConnections has the   *)
(* empty set here: the code removes the key with the last connection.      *)
(*                                                                         *)
(* disconnectedAt abstracts the time stamp by the one question asked of    *)
(* it: "never" (no entry), "within" the grace period, or "past" it.        *)
(***************************************************************************)
CONSTANTS Conn,       \* connection ids
          Party,      \* party ids
          NoParty     \* GetPartyId found no entry

ASSUME NoPartyAssumption == NoParty \notin Party

VARIABLES connectionToParty, partyToConnections, disconnectedAt

trackerVars == <<connectionToParty, partyToConnections, disconnectedAt>>

Mark == {"never", "within", "past"}

IsOrganizerConnected(p) == partyToConnections[p] # {}

TrackerInit ==
  /\ connectionToParty = [c \in Conn |-> NoParty]
  /\ partyToConnections = [p \in Party |-> {}]
  /\ disconnectedAt = [p \in Party |-> "never"]

(* RemoveConnectionFromParty: the party that loses its last connection is  *)
(* marked.                                                                 *)
Without(c) == [q \in Party |-> partyToConnections[q] \ {c}]
Abandoned(c, q) == connectionToParty[c] = q /\ Without(c)[q] = {}
MarkedWithout(c) ==
  [q \in Party |-> IF Abandoned(c, q) THEN "within" ELSE disconnectedAt[q]]

(* Mutant: the connection stays in the party it is moved from.             *)
RegisterWithoutMoving(c, p) ==
  /\ connectionToParty' = [connectionToParty EXCEPT ![c] = p]
  /\ partyToConnections' = [partyToConnections EXCEPT ![p] = @ \cup {c}]
  /\ disconnectedAt' = [disconnectedAt EXCEPT ![p] = "never"]

(* Mutant: a reconnect leaves the offline mark behind.                     *)
RegisterKeepingMark(c, p) ==
  /\ connectionToParty' = [connectionToParty EXCEPT ![c] = p]
  /\ partyToConnections' = [Without(c) EXCEPT ![p] = @ \cup {c}]
  /\ disconnectedAt' = MarkedWithout(c)

(* RegisterOrganizer moves the connection to p, whatever party it was in.  *)
RegisterOrganizer(c, p) ==
  /\ connectionToParty' = [connectionToParty EXCEPT ![c] = p]
  /\ partyToConnections' = [Without(c) EXCEPT ![p] = @ \cup {c}]
  /\ disconnectedAt' = [MarkedWithout(c) EXCEPT ![p] = "never"]

(* TryRemoveOrganizerCore: a connection that meanwhile belongs to another  *)
(* party than the expected one is left alone.                              *)
TryRemoveOrganizer(c, expected) ==
  IF connectionToParty[c] # expected
  THEN UNCHANGED trackerVars
  ELSE /\ connectionToParty' = [connectionToParty EXCEPT ![c] = NoParty]
       /\ partyToConnections' = Without(c)
       /\ disconnectedAt' = MarkedWithout(c)

(* Time: OrganizerOfflineGraceSeconds have passed since the mark was set.  *)
GraceElapses(p) ==
  /\ disconnectedAt[p] = "within"
  /\ disconnectedAt' = [disconnectedAt EXCEPT ![p] = "past"]
  /\ UNCHANGED <<connectionToParty, partyToConnections>>

TrackerTypeOK ==
  /\ connectionToParty \in [Conn -> Party \cup {NoParty}]
  /\ partyToConnections \in [Party -> SUBSET Conn]
  /\ disconnectedAt \in [Party -> Mark]

(* The two dictionaries are inverse to each other: a connection counts for *)
(* a party exactly when it is registered for it, through every re-join,    *)
(* move to another party and removal.                                      *)
MapsAgree ==
  \A c \in Conn, p \in Party :
    c \in partyToConnections[p] <=> connectionToParty[c] = p

(* A party with a connected organizer never carries an offline mark, so    *)
(* the grace period of an earlier disconnect cannot outlive a reconnect.   *)
MarkMeansOffline ==
  \A p \in Party : disconnectedAt[p] # "never" => partyToConnections[p] = {}
=============================================================================
