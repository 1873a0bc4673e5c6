SPECIFICATION Spec
CONSTANTS
  Party = {p1}
  Request = {r1, r2}
  Code = {k1, k2}
  Playlist = {l1, l2, l3}
  MaxFuture = 1
  Enforce = FALSE
  NoRow = NoRow
  NoRequest = NoRequest
  Idle = Idle
CHECK_DEADLOCK FALSE
SYMMETRY Symmetry
PROPERTIES
  PlaylistSurvivesEdits
