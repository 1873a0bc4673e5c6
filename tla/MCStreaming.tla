----------------------------- MODULE MCStreaming -----------------------------
(* Scenarios of StreamingOrchestrator for TLC. *)
EXTENDS StreamingOrchestrator

Scenario(kinds, times, parties) == [kinds |-> kinds, times |-> times, parties |-> parties]
aParty == CHOOSE p \in Party : TRUE

(* Anything happens to two parties.  To one party: no source stops; no     *)
(* failure; teardowns overlap starts.                                      *)
All == {Scenario(Users \cup Network, 4, Party),
        Scenario({"Start", "Stop", "Reconnect", "GoLive", "Loss", "Timeout"}, 5, {aParty}),
        Scenario(Users, 4, {aParty}),
        Scenario({"Start", "Stop", "GoLive"}, 6, {aParty})}

StartThenLive == {Scenario({"Start", "GoLive"}, 2, Party)}
StartThenStop == {Scenario({"Start", "Stop"}, 3, Party)}
=============================================================================
