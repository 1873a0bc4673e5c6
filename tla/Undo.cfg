SPECIFICATION Spec
CONSTANTS
  Project = main
  Collection = {c1}
  Track = {t1, t2, t3, t4}
  Group = {g1}
  Root = Root
  MaxDepth = 3
  MaxLength = 4
  MaxSelected = 2
  MaxEdits = 4
CHECK_DEADLOCK FALSE
SYMMETRY Symmetry
INVARIANTS
  UndoTypeOK
  UndoRestores
  NoItemTwice
