SPECIFICATION FairSpec
CONSTANTS
  Party = {p1, p2}
  NoParty = NoParty
  NoConfig = NoConfig
  NoSession = NoSession
  Scenarios <- All
CHECK_DEADLOCK FALSE
INVARIANTS
  NeverStuck
  ConnectWaits
  ReadyMeansJoined
  PublishedIsLatest
  LiveSessionIsReal
  StoppedMeansEnded
PROPERTIES
  ReadyWithLatest
  Recovers
  TeardownEnd
