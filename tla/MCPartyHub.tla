----------------------------- MODULE MCPartyHub -----------------------------
(* Instances of PartyHub for TLC. *)
EXTENDS PartyHub, TLC

CONSTANTS theLock

MCLockOf == [p \in Party |-> theLock]

Playing == [mode |-> "Session", status |-> "Playing", started |-> FALSE, marks |-> TRUE]
MCSnapshots == {Playing}
=============================================================================
