------------------------- MODULE FoundationRuntime -------------------------
(***************************************************************************)
(* The Foundation job runtime as a whole: the supervised worker            *)
(* (src/scripts/foundation-worker.mjs), operators who run jobs from the    *)
(* command line, the dashboard's control, stop and decommission routes     *)
(* (src/lib/foundation-write-routes.js) and crashes, all over one ledger.  *)
(*                                                                         *)
(* Which jobs are due, and whether a ship pause is in force, is left to    *)
(* nondeterminism: the worker may select any enabled scheduled job whose   *)
(* latest run is not active, or none.                                      *)
(***************************************************************************)
EXTENDS JobRunner, FiniteSets

CONSTANTS
  MaxJobs,        \* jobs one worker pass may run (1..5)
  Handlers,       \* dashboard requests that can be in progress at once
  ControlInputs   \* bodies operators post to the control route

ASSUME RuntimeAssumption ==
  /\ MaxJobs \in Nat \ {0}
  /\ ControlInputs \subseteq
       [mode : ControlModes \ {"decommissioned"}, enabled : ControlFlags]

VARIABLES
  doomed,     \* runs the worker's reaper statement has selected
  todo,       \* jobs the worker's pass has selected and not yet run
  reqPc,      \* what each dashboard request is waiting for
  reqRun,     \* the run a stop request read
  reqJob      \* the job a decommission request read

passVars == <<doomed, todo>>
requestVars == <<reqPc, reqRun, reqJob>>
vars == <<ledgerVars, runnerVars, passVars, requestVars>>

RequestPcs == {"none", "stopping", "signalled", "decommissioning"}

RuntimeTypeOK ==
  /\ doomed \subseteq RunIds
  /\ todo \subseteq Jobs
  /\ reqPc \in [Handlers -> RequestPcs]
  /\ reqRun \in [Handlers -> RunIds \union {NoRun}]
  /\ reqJob \in [Handlers -> Jobs \union {NoRun}]

TypeOK == LedgerTypeOK /\ RunnerTypeOK /\ RuntimeTypeOK

Init ==
  /\ LedgerInit
  /\ RunnerInit
  /\ doomed = {}
  /\ todo = {}
  /\ reqPc = [h \in Handlers |-> "none"]
  /\ reqRun = [h \in Handlers |-> NoRun]
  /\ reqJob = [h \in Handlers |-> NoRun]

-----------------------------------------------------------------------------
(* The worker's pass *)

\* Mutant: only runs that recorded their child are looked at.
Stale_OwnedOnly(r) == status[r] \in Active /\ owned[r] /\ age[r] > StaleAfter(r)

\* Active rows whose startedAt is older than budget plus grace.
Stale(r) == status[r] \in Active /\ age[r] > StaleAfter(r)

\* Before anything else a pass reaps: the statement selects the stale runs ...
WorkerScan ==
  /\ pc[Worker] = "idle"
  /\ doomed' = {r \in RunIds : Stale(r)}
  /\ Goto(Worker, "reaping")
  /\ UNCHANGED <<ledgerVars, cur, child, orphans, timer, timedOut, outcome, age, todo, requestVars>>

\* ... and fails them.
WorkerReap ==
  /\ pc[Worker] = "reaping"
  /\ MarkStaleFoundationJobRuns(doomed)
  /\ age' = [r \in RunIds |-> IF r \in doomed THEN 0 ELSE age[r]]
  /\ doomed' = {}
  /\ Goto(Worker, "reaped")
  /\ UNCHANGED <<cur, child, orphans, timer, timedOut, outcome, todo, requestVars>>

\* The transaction fails, and with it the pass; the worker sleeps.
WorkerReapFails ==
  /\ pc[Worker] = "reaping"
  /\ doomed' = {}
  /\ Goto(Worker, "idle")
  /\ UNCHANGED <<ledgerVars, cur, child, orphans, timer, timedOut, outcome, age, todo, requestVars>>

\* selectDueJobs over the snapshot.
Selectable(j) ==
  /\ EffectiveEnabled(j)
  /\ EffectiveMode(j) = "scheduled"
  /\ ~LatestRunActive(j)

WorkerSelect ==
  /\ pc[Worker] = "reaped"
  /\ \E S \in SUBSET {j \in Jobs : Selectable(j)} :
       /\ Cardinality(S) <= MaxJobs
       /\ todo' = S
  /\ Goto(Worker, "pass")
  /\ UNCHANGED <<ledgerVars, cur, child, orphans, timer, timedOut, outcome, age, doomed, requestVars>>

\* The next selected job; permission is read again, without force.
WorkerRun ==
  /\ pc[Worker] = "pass"
  /\ \E j \in todo : Permit(Worker, j, FALSE) /\ todo' = todo \ {j}
  /\ UNCHANGED <<doomed, requestVars>>

WorkerSkip ==
  /\ pc[Worker] = "pass"
  /\ \E j \in todo : ~GetJobRunPermission(j, FALSE) /\ todo' = todo \ {j}
  /\ UNCHANGED <<ledgerVars, runnerVars, doomed, requestVars>>

\* Nothing left to run: the pass ends and the worker sleeps.
WorkerSleep ==
  /\ pc[Worker] = "pass"
  /\ \/ todo = {}
     \/ \A j \in todo, r \in RunIds : JobOf[r] = j => ~Fresh(r)  \* RunIds is a bound
  /\ todo' = {}
  /\ Goto(Worker, "idle")
  /\ UNCHANGED <<ledgerVars, cur, child, orphans, timer, timedOut, outcome, age, doomed, requestVars>>

-----------------------------------------------------------------------------
(* Operators at the command line, and crashes *)

OperatorRun(p) ==
  /\ p # Worker
  /\ pc[p] = "idle"
  /\ \E j \in Jobs, force \in BOOLEAN : Permit(p, j, force)
  /\ UNCHANGED <<passVars, requestVars>>

\* The process dies, or launchd restarts the worker.  A spawned child is in
\* a process group of its own and lives on without a supervisor.
RunnerCrash(p) ==
  /\ pc[p] # "idle"
  /\ Goto(p, "idle")
  /\ cur' = [cur EXCEPT ![p] = NoRun]
  /\ orphans' = orphans \union {r \in RunIds : r = cur[p] /\ child[r] = "alive"}
  /\ timer' = [r \in RunIds |-> IF r = cur[p] THEN 0 ELSE timer[r]]
  /\ age' = [r \in RunIds |->
       IF r = cur[p] /\ pc[p] \in {"creating", "inserting"} THEN 0 ELSE age[r]]
  /\ doomed' = IF p = Worker THEN {} ELSE doomed
  /\ todo' = IF p = Worker THEN {} ELSE todo
  /\ UNCHANGED <<ledgerVars, child, timedOut, outcome, requestVars>>

-----------------------------------------------------------------------------
(* The dashboard's routes *)

\* POST /jobs/:jobKey/control refuses runtimeMode 'decommissioned'.
ControlRoute ==
  /\ \E j \in Jobs, c \in ControlInputs :
       UpdateFoundationJobControl(j, c.mode, c.enabled)
  /\ UNCHANGED <<runnerVars, passVars, requestVars>>

\* POST /job-runs/:runId/stop reads the row and then waits for git HEAD.
StopRead(h, r) ==
  /\ reqPc[h] = "none"
  /\ status[r] \in Active
  /\ owned[r]
  /\ reqPc' = [reqPc EXCEPT ![h] = "stopping"]
  /\ reqRun' = [reqRun EXCEPT ![h] = r]
  /\ UNCHANGED <<ledgerVars, runnerVars, passVars, reqJob>>

\* The decision on that row holds: its child is signalled.  A child that
\* has already exited (ESRCH) counts as terminated.
StopSignal(h) ==
  /\ reqPc[h] = "stopping"
  /\ \E fate \in {"alive", "ok", "bad"} :
       /\ child' = [child EXCEPT ![reqRun[h]] = IF @ = "alive" THEN fate ELSE @]
       /\ orphans' = IF fate = "alive" THEN orphans ELSE orphans \ {reqRun[h]}
  /\ reqPc' = [reqPc EXCEPT ![h] = "signalled"]
  /\ UNCHANGED <<ledgerVars, pc, cur, timer, timedOut, outcome, age, passVars, reqRun, reqJob>>

\* markFoundationJobRunStopped: a finish as 'cancelled'.
StopMark(h) ==
  /\ reqPc[h] = "signalled"
  /\ FinishFoundationJobRun(reqRun[h], "cancelled")
  /\ age' = [age EXCEPT ![reqRun[h]] = 0]
  /\ reqPc' = [reqPc EXCEPT ![h] = "none"]
  /\ reqRun' = [reqRun EXCEPT ![h] = NoRun]
  /\ UNCHANGED <<pc, cur, child, orphans, timer, timedOut, outcome, passVars, reqJob>>

\* POST /jobs/:jobKey/decommission reads the snapshot ...
DecommissionRead(h, j) ==
  /\ reqPc[h] = "none"
  /\ ~LatestRunActive(j)
  /\ reqPc' = [reqPc EXCEPT ![h] = "decommissioning"]
  /\ reqJob' = [reqJob EXCEPT ![h] = j]
  /\ UNCHANGED <<ledgerVars, runnerVars, passVars, reqRun>>

\* ... and writes the control decided from it.
DecommissionWrite(h) ==
  /\ reqPc[h] = "decommissioning"
  /\ UpdateFoundationJobControl(reqJob[h], "decommissioned", "false")
  /\ reqPc' = [reqPc EXCEPT ![h] = "none"]
  /\ reqJob' = [reqJob EXCEPT ![h] = NoRun]
  /\ UNCHANGED <<runnerVars, passVars, reqRun>>

\* A request ends early: served code is not live, the signal or the write
\* fails, or the dashboard restarts.
RequestAbort(h) ==
  /\ reqPc[h] # "none"
  /\ reqPc' = [reqPc EXCEPT ![h] = "none"]
  /\ reqRun' = [reqRun EXCEPT ![h] = NoRun]
  /\ reqJob' = [reqJob EXCEPT ![h] = NoRun]
  /\ UNCHANGED <<ledgerVars, runnerVars, passVars>>

-----------------------------------------------------------------------------
WorkerStep ==
  \/ WorkerScan \/ WorkerReap \/ WorkerReapFails
  \/ WorkerSelect \/ WorkerRun \/ WorkerSkip \/ WorkerSleep

Progress(p) == RunnerStep(p) /\ UNCHANGED <<passVars, requestVars>>
Clock == Tick /\ UNCHANGED <<passVars, requestVars>>
Exit(r) == ChildExit(r) /\ UNCHANGED <<passVars, requestVars>>

Request(h) ==
  \/ \E r \in RunIds : StopRead(h, r)
  \/ StopSignal(h) \/ StopMark(h)
  \/ \E j \in Jobs : DecommissionRead(h, j)
  \/ DecommissionWrite(h) \/ RequestAbort(h)

Next ==
  \/ WorkerStep
  \/ \E p \in Runners : Progress(p) \/ OperatorRun(p) \/ RunnerCrash(p)
  \/ \E r \in RunIds : Exit(r)
  \/ \E h \in Handlers : Request(h)
  \/ ControlRoute
  \/ Clock

Spec == Init /\ [][Next]_vars

\* launchd keeps the worker alive, a process that is alive runs the steps its
\* event loop owes unless it dies, time passes, and a reaper that keeps trying
\* commits now and then.  Nothing is assumed of the children, of operators or
\* of requests, nor that crashes ever stop.
FairSpec ==
  /\ Spec
  /\ WF_vars(WorkerStep)
  /\ SF_vars(WorkerReap)
  /\ \A p \in Runners : WF_vars(Progress(p))
  /\ WF_vars(Clock)

-----------------------------------------------------------------------------
(* Safety *)

\* A live child whose runner did not crash has a row that says so: it is
\* active, or an operator's stop has just closed it.  In particular the
\* reaper never fails a run whose runner is alive and may yet succeed, and
\* a fail-closed finish never reports a run whose child goes on.
LiveChildIsOnTheBooks ==
  \A r \in RunIds :
    child[r] = "alive" /\ r \notin orphans => status[r] \in Active \union {"cancelled"}

\* Two children of one job run at the same time only if one of them was
\* stopped by an operator or lost its runner to a crash.
OverlapNeedsStopOrCrash ==
  \A r, q \in RunIds :
    /\ r # q /\ JobOf[r] = JobOf[q]
    /\ child[r] = "alive" /\ child[q] = "alive"
    => \E x \in {r, q} : status[x] = "cancelled" \/ x \in orphans

\* A run is recorded as succeeded only if its child exited 0 before the
\* timeout fired, whatever stops, reaps and retries came in between.
SuccessIsEarned ==
  \A r \in RunIds : status[r] = "succeeded" => child[r] = "ok" /\ ~timedOut[r]

-----------------------------------------------------------------------------
(* What the repository's documents say of decommissioning *)

\* "Decommission is blocked while the job has an active run"
\* (docs/process/system-010-ghost-closeout.md).
DecommissionBlockedWhileActive ==
  [][\A j \in Jobs :
       ctlMode[j] # "decommissioned" /\ ctlMode'[j] = "decommissioned"
         => ~HasActiveRun(j)]_vars

-----------------------------------------------------------------------------
(* Liveness under FairSpec *)

\* No row blocks its job for ever: each active run is closed, by its runner,
\* by a stop or by the reaper.
LockReleased == Lock!Released

\* The worker always comes back to the reapers, whatever its jobs do.
WorkerKeepsReaping == []<>(pc[Worker] = "reaped")
=============================================================================
