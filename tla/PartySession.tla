---------------------------- MODULE PartySession ----------------------------
(***************************************************************************)
(* The playback session a party stores on the server (PlaybackState) and   *)
(* the outcome of every operation that rewrites it: the Core methods of    *)
(* StreamingService and PlaybackState.ResetForAdministration.              *)
(*                                                                         *)
(* Data abstraction: "marks" says whether any playback marker (current     *)
(* track, position, duration, played and disabled ids) is set, "started"   *)
(* whether SessionStartedAt is.  Volume is in no decision and is left out; *)
(* LastUpdatedAt belongs to the display status and is kept in PartyHub.    *)
(***************************************************************************)
CONSTANT NoSession    \* GetSessionStateAsync returned null

Mode   == {"Preparation", "Session"}
Status == {"Idle", "Playing", "Paused", "Ended"}

Session == [active : BOOLEAN, mode : Mode, status : Status,
            started : BOOLEAN, marks : BOOLEAN]

(* What the desktop publishes with UpdateFullState: a PlaybackStateDto has  *)
(* no IsActive.                                                            *)
Snapshot == [mode : Mode, status : Status, started : BOOLEAN, marks : BOOLEAN]

ASSUME NoSessionAssumption == NoSession \notin Session

(* StartSessionCoreAsync: a stored session is resumed with its markers,    *)
(* unless SanitizeRestoredState finds that the playlist no longer has them *)
(* (kept = FALSE).                                                         *)
Started(s, kept) ==
  IF s = NoSession
  THEN [active |-> TRUE, mode |-> "Session", status |-> "Idle",
        started |-> TRUE, marks |-> FALSE]
  ELSE [s EXCEPT !.active = TRUE, !.mode = "Session", !.started = TRUE,
                 !.marks = s.marks /\ kept]

(* EndSessionCoreAsync freezes the markers.                                *)
Ended(s) == [s EXCEPT !.active = FALSE, !.mode = "Preparation", !.status = "Ended"]

(* ResetPlaybackStateCoreAsync clears them, but not SessionStartedAt.      *)
Cleared(s) ==
  [active |-> FALSE, mode |-> "Preparation", status |-> "Idle",
   started |-> s # NoSession /\ s.started, marks |-> FALSE]

(* UpdatePlaybackPositionCoreAsync names a current track.                  *)
Positioned(s) == [s EXCEPT !.marks = TRUE]

(* Mutant: publishing playback turns the session on.                       *)
PublishedActive(s, dto) ==
  [active |-> TRUE, mode |-> dto.mode, status |-> dto.status,
   started |-> dto.started \/ dto.mode = "Session", marks |-> dto.marks]

(* UpdateFullStateCoreAsync takes all but IsActive from the snapshot; with *)
(* no stored session the entity's default, IsActive = true, stays.         *)
Published(s, dto) ==
  [active  |-> s = NoSession \/ s.active,
   mode    |-> dto.mode,
   status  |-> dto.status,
   started |-> dto.started \/ dto.mode = "Session",
   marks   |-> dto.marks]

(* PlaybackState.ResetForAdministration and what makes it report a change. *)
Blank ==
  [active |-> FALSE, mode |-> "Preparation", status |-> "Idle",
   started |-> FALSE, marks |-> FALSE]

ChangedByReset(s) == s # Blank
=============================================================================
