--------------------------- MODULE MCPartyCatalog ---------------------------
\* Instances of PartyCatalog for TLC.
EXTENDS PartyCatalog, TLC

Symmetry == Permutations(Party) \cup Permutations(Request)
            \cup Permutations(Code) \cup Permutations(Playlist)
=============================================================================
