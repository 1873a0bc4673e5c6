SPECIFICATION Spec
CONSTANTS
  Song = {s1, s2}
  Cherry = {p, q}
  Package = p
  None = None
  Torn = Torn
  Scenarios <- Scenes
  MaxCopies = 4
  MaxSaves = 1
  MaxEdits = 4
  MaxFaults = 1
CHECK_DEADLOCK FALSE
SYMMETRY Symmetry
INVARIANTS
  CopiesExist
  CopiesMatch
  CleanMeansSaved
