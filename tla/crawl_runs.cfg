SPECIFICATION FairSpec
CONSTANTS
  c1 = c1
  c2 = c2
  cli = cli
  job = job
  NoRun = NoRun
  NoOwner = NoOwner
  Runs = {c1, c2}
  Owners = {cli, job}
  Forces = {FALSE, TRUE}
  Seeds = {"open"}
  Budget = 1
  KillDelay = 1
  StartSlack = 1
  LeaseTime = 4
  StaleTime = 3
  CleanRunThreshold = 1
INVARIANTS
  OverlapNeedsLostLease
  EachRunCountsOnce
PROPERTIES
  ClosedRunsStayClosed
  RunsAreClosed
