SPECIFICATION Spec
CONSTANTS
  verify = verify
  hygiene = hygiene
  audit = audit
  NoCheck = NoCheck
  Checks = {verify, audit}
  Parent <- VerifyParent
  Timeout = 1
  Stale = 2
  LastTick = 3
INVARIANT
  ChecksDoNotOverlap
CHECK_DEADLOCK FALSE
