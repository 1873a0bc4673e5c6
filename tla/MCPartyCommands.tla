--------------------------- MODULE MCPartyCommands ---------------------------
(* Instances of PartyCommands for TLC. *)
EXTENDS PartyCommandsRefinement, TLC

CONSTANTS theLock

MCLockOf == [p \in Party |-> theLock]

Playing == [mode |-> "Session", status |-> "Playing", started |-> FALSE, marks |-> TRUE]
MCSnapshots == {Playing}

Symmetry == Permutations(Conn)
==============================================================================
