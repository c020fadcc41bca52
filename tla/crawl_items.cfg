SPECIFICATION FairSpec
CONSTANTS
  c1 = c1
  c2 = c2
  NoRun = NoRun
  NoTime = NoTime
  Runs = {c1, c2}
  MaxAttempts = 3
  InitialBackoff = 1
  Multiplier = 4
  MaxBackoff = 3
  AttemptBound = 4
INVARIANTS
  TypeOK
  OncePerRun
  OfferedIsRetryable
PROPERTY
  WaitingEnds
