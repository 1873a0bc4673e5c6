SPECIFICATION FairSpec
CONSTANTS
  NoSession = NoSession
  None = None
  Scenarios <- EachRace
  MaxOps = 2
  MaxDrops = 2
  MaxRacyDrops = 1
CHECK_DEADLOCK FALSE
INVARIANTS
  ConnectedMeansJoined
  QuietPageIsRight
  LiveHasPlayback
  NoPlayerOffAir
PROPERTY
  ComesBack
