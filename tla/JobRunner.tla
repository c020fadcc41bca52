----------------------------- MODULE JobRunner -----------------------------
(***************************************************************************)
(* The processes that execute Foundation jobs (src/scripts/                *)
(* run-foundation-job.mjs): each runner checks permission, inserts the run *)
(* row, spawns a detached child, records its pid in the row, supervises it *)
(* with a timeout and writes the outcome back.  The runner and its child   *)
(* are two processes: the runner may die and leave the child behind.       *)
(*                                                                         *)
(* Time is counted in ticks.  A runner that is alive is taken to act in    *)
(* time: its timers fire when they are due and its create write, with the  *)
(* retries it allows, ends within StartSlack ticks.  A suspended host      *)
(* (timers stopped, wall clock running) is outside the model.              *)
(***************************************************************************)
EXTENDS JobLedger, Naturals

CONSTANTS
  Runners,      \* processes that may run runFoundationJob
  Worker,       \* the one that is scripts/foundation-worker.mjs
  NoRun,        \* not a run id
  FollowUps,    \* jobs the freshness trigger may run after a job
  MaxRuntime,   \* maxRuntimeSeconds of each job, in ticks
  KillDelay,    \* from SIGTERM to SIGKILL
  StartSlack,   \* from startedAt to the child's spawn, at most
  Grace         \* added to the budget before a run counts as stale

\* Every definition has a positive budget, and the reaper's grace (300 s)
\* covers the start of the run and the kill escalation (5 s).
ASSUME RunnerAssumption ==
  /\ Worker \in Runners
  /\ NoRun \notin RunIds
  /\ FollowUps \in [Jobs -> SUBSET Jobs]
  /\ MaxRuntime \in [Jobs -> Nat \ {0}]
  /\ KillDelay \in Nat /\ StartSlack \in Nat /\ Grace \in Nat
  /\ StartSlack + KillDelay <= Grace

VARIABLES
  pc,         \* where each runner is in runFoundationJob / runCommand
  cur,        \* the run it works on
  child,      \* the run's child process: its life and its exit code
  orphans,    \* runs whose live child has lost its runner
  timer,      \* ticks since the child was spawned under a live runner
  timedOut,   \* the runner's timeout fired for this run
  outcome,    \* what the close event resolved to
  age         \* ticks since the run's startedAt, 0 once nobody reads it

runnerVars == <<pc, cur, child, orphans, timer, timedOut, outcome, age>>

RunnerPcs == {"idle", "creating", "inserting", "created", "spawned", "supervising",
              "terminating", "finishing", "failfinish", "finished",
              "reaping", "reaped", "pass"}
\* From the spawn to the close event the run's timeout is armed.
Armed == {"spawned", "supervising", "terminating"}

ChildStates == {"none", "alive", "ok", "bad"}

KillAt(r) == MaxRuntime[JobOf[r]] + KillDelay
\* Mutant: the reaper allows the budget and no grace.
StaleAfter_NoGrace(r) == MaxRuntime[JobOf[r]]
StaleAfter(r) == MaxRuntime[JobOf[r]] + Grace

RunnerTypeOK ==
  /\ pc \in [Runners -> RunnerPcs]
  /\ cur \in [Runners -> RunIds \union {NoRun}]
  /\ child \in [RunIds -> ChildStates]
  /\ orphans \subseteq RunIds
  /\ timer \in [RunIds -> Nat]
  /\ timedOut \in [RunIds -> BOOLEAN]
  /\ outcome \in [RunIds -> {"none", "succeeded", "failed"}]
  /\ age \in [RunIds -> Nat]

RunnerInit ==
  /\ pc = [p \in Runners |-> "idle"]
  /\ cur = [p \in Runners |-> NoRun]
  /\ child = [r \in RunIds |-> "none"]
  /\ orphans = {}
  /\ timer = [r \in RunIds |-> 0]
  /\ timedOut = [r \in RunIds |-> FALSE]
  /\ outcome = [r \in RunIds |-> "none"]
  /\ age = [r \in RunIds |-> 0]

\* The run's timeout is armed in some live runner.
Supervised(r) == \E p \in Runners : cur[p] = r /\ pc[p] \in Armed

Goto(p, at) == pc' = [pc EXCEPT ![p] = at]
\* The worker goes back to its pass, a command-line runner to rest.
Leave(p) ==
  /\ Goto(p, IF p = Worker THEN "pass" ELSE "idle")
  /\ cur' = [cur EXCEPT ![p] = NoRun]

-----------------------------------------------------------------------------
(* runFoundationJob: one read of the control row, then the run is on       *)

\* makeRunId never returns an id that is in use.
Fresh(r) == status[r] = "absent" /\ \A p \in Runners : cur[p] # r

Permit(p, j, force) ==
  /\ GetJobRunPermission(j, force)
  /\ \E r \in RunIds :
       /\ JobOf[r] = j /\ Fresh(r)
       /\ cur' = [cur EXCEPT ![p] = r]
  /\ Goto(p, "creating")
  /\ UNCHANGED <<ledgerVars, child, orphans, timer, timedOut, outcome, age>>

-----------------------------------------------------------------------------
(* runCommand: the create write *)

\* The transaction of the last attempt begins.
RunnerBegin(p) ==
  /\ pc[p] = "creating"
  /\ BeginCreate(cur[p])
  /\ Goto(p, "inserting")
  /\ UNCHANGED <<cur, child, orphans, timer, timedOut, outcome, age>>

RunnerCreate(p) ==
  /\ pc[p] = "inserting"
  /\ CreateFoundationJobRun(cur[p])
  /\ Goto(p, "created")
  /\ UNCHANGED <<cur, child, orphans, timer, timedOut, outcome, age>>

\* The unique index refuses the row, or the retries run out: nothing is
\* written and runFoundationJob throws.
RunnerCreateFails(p) ==
  /\ pc[p] \in {"creating", "inserting"}
  /\ Leave(p)
  /\ age' = [age EXCEPT ![cur[p]] = 0]
  /\ UNCHANGED <<ledgerVars, child, orphans, timer, timedOut, outcome>>

\* The row is committed but the connection is lost before the answer: the
\* retry meets its own row and throws, and no child is ever spawned.
RunnerCreateAckLost(p) ==
  /\ pc[p] = "inserting"
  /\ CreateFoundationJobRun(cur[p])
  /\ Leave(p)
  /\ UNCHANGED <<child, orphans, timer, timedOut, outcome, age>>

RunnerSpawn(p) ==
  /\ pc[p] = "created"
  /\ child' = [child EXCEPT ![cur[p]] = "alive"]
  /\ Goto(p, "spawned")
  /\ UNCHANGED <<ledgerVars, cur, orphans, timer, timedOut, outcome, age>>

\* spawn emits 'error' and there is no pid to record.
RunnerSpawnError(p) ==
  /\ pc[p] = "created"
  /\ outcome' = [outcome EXCEPT ![cur[p]] = "failed"]
  /\ Goto(p, "finishing")
  /\ UNCHANGED <<ledgerVars, cur, child, orphans, timer, timedOut, age>>

-----------------------------------------------------------------------------
(* runCommand: process ownership, timeout, termination *)

RunnerWriteMetadata(p) ==
  /\ pc[p] = "spawned"
  /\ UpdateFoundationJobRunMetadata(cur[p])
  /\ Goto(p, "supervising")
  /\ UNCHANGED <<cur, child, orphans, timer, timedOut, outcome, age>>

\* The write fails for good: the child is told to stop.
RunnerMetadataFails(p) ==
  /\ pc[p] = "spawned"
  /\ Goto(p, "terminating")
  /\ UNCHANGED <<ledgerVars, cur, child, orphans, timer, timedOut, outcome, age>>

\* Mutant: SIGTERM only, no wait and no SIGKILL.
RunnerTerminate_NoKill(p) ==
  /\ pc[p] = "terminating"
  /\ timer' = [timer EXCEPT ![cur[p]] = 0]
  /\ Goto(p, "failfinish")
  /\ UNCHANGED <<ledgerVars, cur, child, orphans, timedOut, outcome, age>>

\* terminateChildForLedgerFailure: the child closes, or is killed.
RunnerTerminate(p) ==
  /\ pc[p] = "terminating"
  /\ child' = [child EXCEPT ![cur[p]] = IF @ = "alive" THEN "bad" ELSE @]
  /\ timer' = [timer EXCEPT ![cur[p]] = 0]
  /\ Goto(p, "failfinish")
  /\ UNCHANGED <<ledgerVars, cur, orphans, timedOut, outcome, age>>

\* The timeout fires and sends SIGTERM, which the child may ignore.
RunnerTimeout(p) ==
  /\ pc[p] \in Armed
  /\ timer[cur[p]] >= MaxRuntime[JobOf[cur[p]]]
  /\ ~timedOut[cur[p]]
  /\ timedOut' = [timedOut EXCEPT ![cur[p]] = TRUE]
  /\ UNCHANGED <<ledgerVars, pc, cur, child, orphans, timer, outcome, age>>

\* Mutant: no escalation.
RunnerKill_Never(p) == FALSE /\ pc[p] \in Armed /\ UNCHANGED <<ledgerVars, runnerVars>>

\* KillDelay later the process group gets SIGKILL.
RunnerKill(p) ==
  /\ pc[p] \in Armed
  /\ timedOut[cur[p]]
  /\ timer[cur[p]] >= KillAt(cur[p])
  /\ child[cur[p]] = "alive"
  /\ child' = [child EXCEPT ![cur[p]] = "bad"]
  /\ UNCHANGED <<ledgerVars, pc, cur, orphans, timer, timedOut, outcome, age>>

\* The child exits by itself, on a signal it handles, or on one it does not.
ChildExit(r) ==
  /\ child[r] = "alive"
  /\ \E code \in {"ok", "bad"} : child' = [child EXCEPT ![r] = code]
  /\ orphans' = orphans \ {r}
  /\ UNCHANGED <<ledgerVars, pc, cur, timer, timedOut, outcome, age>>

\* Mutant: exit code 0 is a success even after the timeout fired.
RunnerClose_ExitCodeOnly(p) ==
  /\ pc[p] = "supervising"
  /\ child[cur[p]] \in {"ok", "bad"}
  /\ outcome' = [outcome EXCEPT ![cur[p]] =
       IF child[cur[p]] = "ok" THEN "succeeded" ELSE "failed"]
  /\ timer' = [timer EXCEPT ![cur[p]] = 0]
  /\ Goto(p, "finishing")
  /\ UNCHANGED <<ledgerVars, cur, child, orphans, timedOut, age>>

\* The close event decides the outcome.
RunnerClose(p) ==
  /\ pc[p] = "supervising"
  /\ child[cur[p]] \in {"ok", "bad"}
  /\ outcome' = [outcome EXCEPT ![cur[p]] =
       IF child[cur[p]] = "ok" /\ ~timedOut[cur[p]] THEN "succeeded" ELSE "failed"]
  /\ timer' = [timer EXCEPT ![cur[p]] = 0]
  /\ Goto(p, "finishing")
  /\ UNCHANGED <<ledgerVars, cur, child, orphans, timedOut, age>>

-----------------------------------------------------------------------------
(* runCommand: the outcome goes to the ledger *)

RunnerFinish(p) ==
  /\ pc[p] = "finishing"
  /\ FinishFoundationJobRun(cur[p], outcome[cur[p]])
  /\ age' = [age EXCEPT ![cur[p]] = 0]
  /\ Goto(p, "finished")
  /\ UNCHANGED <<cur, child, orphans, timer, timedOut, outcome>>

\* Fail-closed finish after the metadata write failed; no freshness trigger.
RunnerFailFinish(p) ==
  /\ pc[p] = "failfinish"
  /\ FinishFoundationJobRun(cur[p], "failed")
  /\ age' = [age EXCEPT ![cur[p]] = 0]
  /\ Leave(p)
  /\ UNCHANGED <<child, orphans, timer, timedOut, outcome>>

\* The finish write fails after its retries: the row keeps its status.
RunnerFinishFails(p) ==
  /\ pc[p] \in {"finishing", "failfinish"}
  /\ Leave(p)
  /\ UNCHANGED <<ledgerVars, child, orphans, timer, timedOut, outcome, age>>

\* The freshness trigger has nothing to run, or fails; its errors are
\* swallowed and the run's exit code is returned.
RunnerReturn(p) ==
  /\ pc[p] = "finished"
  /\ Leave(p)
  /\ UNCHANGED <<ledgerVars, child, orphans, timer, timedOut, outcome, age>>

\* It runs a follow-up job inside this process, with force.
RunnerFollowUp(p) ==
  /\ pc[p] = "finished"
  /\ \E j \in FollowUps[JobOf[cur[p]]] : Permit(p, j, TRUE)

\* One of the steps a live runner always gets to.
RunnerStep(p) ==
  \/ RunnerBegin(p) \/ RunnerCreate(p) \/ RunnerCreateFails(p) \/ RunnerCreateAckLost(p)
  \/ RunnerSpawn(p) \/ RunnerSpawnError(p)
  \/ RunnerWriteMetadata(p) \/ RunnerMetadataFails(p) \/ RunnerTerminate(p)
  \/ RunnerTimeout(p) \/ RunnerKill(p) \/ RunnerClose(p)
  \/ RunnerFinish(p) \/ RunnerFailFinish(p) \/ RunnerFinishFails(p)
  \/ RunnerReturn(p) \/ RunnerFollowUp(p)

-----------------------------------------------------------------------------
(* Time *)

\* startedAt is taken before the create write.
Starting(p) == pc[p] \in {"creating", "inserting", "created"}
Aging(r) ==
  \/ status[r] \in Active
  \/ \E p \in Runners : cur[p] = r /\ Starting(p)

InTime(p) ==
  /\ Starting(p) => age[cur[p]] < StartSlack
  /\ pc[p] \in Armed =>
       /\ timer[cur[p]] >= MaxRuntime[JobOf[cur[p]]] => timedOut[cur[p]]
       /\ child[cur[p]] = "alive" => timer[cur[p]] < KillAt(cur[p])

\* Ages and timers stop one tick past the last value anything compares to.
Tick ==
  /\ \A p \in Runners : InTime(p)
  /\ age' = [r \in RunIds |->
       IF Aging(r) /\ age[r] <= StaleAfter(r) THEN age[r] + 1 ELSE age[r]]
  /\ timer' = [r \in RunIds |->
       IF Supervised(r) /\ timer[r] < KillAt(r) THEN timer[r] + 1 ELSE timer[r]]
  /\ UNCHANGED <<ledgerVars, pc, cur, child, orphans, timedOut, outcome>>
=============================================================================
