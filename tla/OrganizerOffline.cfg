SPECIFICATION FairHubSpec
CONSTANTS
  Conn = {c1, c2}
  Party = {p1}
  Admin = {a1}
  Web = {w1}
  Lock = {k1}
  theLock = k1
  LockOf <- MCLockOf
  Ops = {"Join", "Leave", "StartSession", "ResetSession", "Transition", "Restart", "Stale"}
  Targets = {"Completed"}
  Snapshots <- MCSnapshots
  NoSession = NoSession
  NoParty = NoParty
  NoCaller = NoCaller
  NoRequest = NoRequest
  NoArg = NoArg
  NoTask = NoTask
INVARIANTS
  OfflineIsPending
PROPERTIES
  OfflineReachesViewers
