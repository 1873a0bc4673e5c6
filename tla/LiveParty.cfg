SPECIFICATION CommandsSpec
CONSTANTS
  Conn = {c1, c2}
  Party = {p1}
  Admin = {a1}
  Web = {w1}
  Lock = {k1}
  theLock = k1
  LockOf <- MCLockOf
  Ops = {"Join", "Leave", "StartSession", "EndSession", "ResetPlayback", "UpdateFullState", "UpdatePosition", "SetLifecycle", "ResetSession", "Transition", "Delete", "Restart"}
  Targets = {"Draft", "Completed"}
  Snapshots <- MCSnapshots
  NoSession = NoSession
  NoParty = NoParty
  NoCaller = NoCaller
  NoRequest = NoRequest
  NoArg = NoArg
SYMMETRY Symmetry
INVARIANTS
  CommandsTypeOK
  AdminSparesLiveParty
  NoLostUpdate
  NoGhostOrganizer
PROPERTIES
  OnlyStartActivates
  SessionsAreAtomic
