----------------------- MODULE PartyCommandsRefinement -----------------------
(* PartyCommands implements SessionObject: the coordinator makes every     *)
(* multi-step call look like one step on the party's session.              *)
EXTENDS PartyCommands

Object == INSTANCE SessionObject WITH
  online <- [p \in Party |-> IsOrganizerConnected(p)],
  doomed <- [p \in Party |-> Doomed(p)]

(* Coordinated operations are atomic: whatever calls of organizer          *)
(* connections, administrators and REST clients interleave, the stored     *)
(* session evolves as if each operation happened at once, and an           *)
(* administrator's never happens while the party is on air.                *)
SessionsAreAtomic == Object!Spec
==============================================================================
