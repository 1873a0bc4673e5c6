--------------------------- MODULE MCPartyViewer ---------------------------
\* Instances of PartyViewer for TLC: the races of a behaviour.
EXTENDS PartyViewer

EachRace == {{}, {"state", "throttle"}, {"http"}, {"refused", "deaf"}}
=============================================================================
