---------------------------- MODULE DisplayStatus ----------------------------
(***************************************************************************)
(* PartyDisplayStatusService.Compute: what viewers are told about a party. *)
(***************************************************************************)
EXTENDS PartySession

DisplayStatuses ==
  {"Draft", "Scheduled", "StartingSoon", "Live", "OrganizerOffline", "PartyEnded"}

HasEffectiveActiveSession(s) == s # NoSession /\ s.active /\ s.mode = "Session"

(* old is IsPlaybackStale, connected and mark are what the tracker says.   *)
Compute(life, s, old, connected, mark) ==
  LET onAir == HasEffectiveActiveSession(s) IN
  CASE life = "Completed" -> "PartyEnded"
    [] life = "Draft" -> "Draft"
    [] life = "Ready" /\ onAir /\ ~connected /\ mark # "within" -> "OrganizerOffline"
    [] life = "Ready" /\ onAir /\ ~connected /\ mark = "within" -> "Live"
    [] life = "Ready" /\ onAir /\ connected /\ ~old -> "Live"
    [] life = "Ready" /\ onAir /\ connected /\ old -> "OrganizerOffline"
    [] life = "Ready" /\ ~onAir /\ connected -> "StartingSoon"
    [] life = "Ready" /\ ~onAir /\ ~connected -> "Scheduled"
=============================================================================
