SPECIFICATION FairSpec
CONSTANTS
  verify = verify
  hygiene = hygiene
  audit = audit
  NoCheck = NoCheck
  Checks = {verify, hygiene, audit}
  Parent <- VerifyParent
  Timeout = 1
  Stale = 2
  LastTick = 4
INVARIANTS
  OverlapIsProvoked
  ChildPassesItsParent
PROPERTIES
  ImplementsMutex
  DeadLockIsCleared
  ContenderSettles
CHECK_DEADLOCK FALSE
