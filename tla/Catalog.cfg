SPECIFICATION Spec
CONSTANTS
  Party = {p1, p2}
  Request = {r1, r2}
  Code = {k1, k2}
  Playlist = {l1}
  MaxFuture = 1
  Enforce = TRUE
  NoRow = NoRow
  NoRequest = NoRequest
  Idle = Idle
CHECK_DEADLOCK FALSE
SYMMETRY Symmetry
INVARIANTS
  UniqueCodes
  LimitHolds
PROPERTIES
  VisibilityAsAsked
  AnsweredIsShown
