SPECIFICATION FairSpec
CONSTANTS
  j1 = j1
  j2 = j2
  r1 = r1
  r2 = r2
  r3 = r3
  worker = worker
  cli = cli
  Jobs = {j1, j2}
  RunIds = {r1, r3}
  JobOf <- TwoJobs
  DefaultMode <- AllScheduled
  DefaultEnabled <- AllEnabled
  Runners = {worker}
  Worker = worker
  NoRun = NoRun
  FollowUps <- Synthesis
  MaxRuntime <- Budget
  KillDelay = 1
  StartSlack = 1
  Grace = 2
  MaxJobs = 2
  Handlers = {}
  ControlInputs <- NoInputs
PROPERTIES
  LockReleased
  WorkerKeepsReaping
