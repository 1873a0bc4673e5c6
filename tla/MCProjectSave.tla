--------------------------- MODULE MCProjectSave ---------------------------
\* Instances of ProjectSave for TLC.
EXTENDS ProjectSave, TLC

Symmetry == Permutations(Song)
Scenes == {{"fault"}, {"undo"}, {"fault", "undo"}, {"undo", "shared"}}
Busy == {{"busy"}}
=============================================================================
