SPECIFICATION Spec
CONSTANTS
  Party = {p1}
  NoParty = NoParty
  NoConfig = NoConfig
  NoSession = NoSession
  Scenarios <- StartThenLive
CHECK_DEADLOCK FALSE
INVARIANTS
  LiveIsStarted
