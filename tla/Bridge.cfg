SPECIFICATION FairSpec
CONSTANTS
  l1 = l1
  l2 = l2
  t1 = t1
  t2 = t2
  Playlist = {l1, l2}
  Track = {t1, t2}
  None = None
  Contents <- MCContents
  Slots = 2
  Buffer = 2
  Setups <- MCSetups
CHECK_DEADLOCK FALSE
INVARIANTS
  PluginIsAccepted
  StreamIsWhole
PROPERTIES
  CopyCatchesUp
  FinalizeReturns
