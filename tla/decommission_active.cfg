SPECIFICATION Spec
CONSTANTS
  j1 = j1
  j2 = j2
  r1 = r1
  r2 = r2
  r3 = r3
  worker = worker
  cli = cli
  Jobs = {j1}
  RunIds = {r1}
  JobOf <- OneJob
  DefaultMode <- AllScheduled
  DefaultEnabled <- AllEnabled
  Runners = {worker, cli}
  Worker = worker
  NoRun = NoRun
  FollowUps <- NoFollowUps
  MaxRuntime <- Budget
  KillDelay = 1
  StartSlack = 1
  Grace = 2
  MaxJobs = 1
  Handlers = {h1}
  ControlInputs <- NoInputs
PROPERTY
  DecommissionBlockedWhileActive
