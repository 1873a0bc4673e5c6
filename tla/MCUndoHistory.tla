--------------------------- MODULE MCUndoHistory ---------------------------
\* Instances of UndoHistory for TLC.
EXTENDS UndoHistory

Symmetry == Permutations(Track) \cup Permutations(Group)
=============================================================================
