SPECIFICATION FairCommandsSpec
CONSTANTS
  Conn = {c1, c2}
  Party = {p1, p2}
  Admin = {a1}
  Web = {}
  Lock = {k1}
  theLock = k1
  LockOf <- MCLockOf
  Ops = {"Join", "Leave", "StartSession", "SetLifecycle", "ResetSession", "Restart"}
  Targets = {"Ready"}
  Snapshots <- MCSnapshots
  NoSession = NoSession
  NoParty = NoParty
  NoCaller = NoCaller
  NoRequest = NoRequest
  NoArg = NoArg
INVARIANTS
  MapsAgree
  MarkMeansOffline
PROPERTIES
  EveryCallReturns
