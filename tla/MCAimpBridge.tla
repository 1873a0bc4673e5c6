---------------------------- MODULE MCAimpBridge ----------------------------
\* Instances of AimpBridge for TLC: two playlists with a track each.
EXTENDS AimpBridge, TLC

CONSTANTS l1, l2, t1, t2

MCContents == l1 :> {t1} @@ l2 :> {t2}

With(compatible, onMain, playing, c, f) ==
  [compatible |-> compatible, onMain |-> onMain, playing |-> playing,
   changes |-> c, faults |-> f]
MCSetups ==
  {With(TRUE, TRUE, FALSE, 0, 2), With(TRUE, TRUE, TRUE, 1, 1),
   With(TRUE, FALSE, TRUE, 1, 0), With(TRUE, FALSE, FALSE, 0, 1),
   With(FALSE, TRUE, FALSE, 0, 1)}
=============================================================================
