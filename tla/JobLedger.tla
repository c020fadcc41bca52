----------------------------- MODULE JobLedger -----------------------------
(***************************************************************************)
(* The two tables of the Foundation job runtime and the transactions on    *)
(* them: foundation_job_runs (one row per run) and foundation_job_controls *)
(* (an optional override per job).  Every action is one PostgreSQL         *)
(* transaction of src/lib/foundation-runtime-job-store.js, as any caller   *)
(* may issue it; the runners, the worker and the dashboard that issue them *)
(* are modelled in JobRunner and FoundationRuntime.                        *)
(*                                                                         *)
(* Titles, output tails, error texts, durations and change events are left *)
(* out: nothing reads them back to decide anything.                        *)
(***************************************************************************)
CONSTANTS
  Jobs,            \* job keys of the definitions
  RunIds,          \* ids makeRunId can return
  JobOf,           \* a run id contains its job key
  DefaultMode,     \* runtimeMode of the job's definition
  DefaultEnabled   \* enabled of the job's definition

RuntimeModes == {"scheduled", "manual", "paused", "decommissioned"}

ASSUME LedgerAssumption ==
  /\ JobOf \in [RunIds -> Jobs]
  /\ DefaultMode \in [Jobs -> RuntimeModes \ {"decommissioned"}]
  /\ DefaultEnabled \in [Jobs -> BOOLEAN]

VARIABLES
  status,      \* status column of each run, "absent" when there is no row
  earlier,     \* the runs whose created_at is before this run's
  owned,       \* the row's metadata names the runner's child (childPid, ...)
  ctlMode,     \* runtime_mode of the job's control row, "null" when unset
  ctlEnabled   \* enabled of the job's control row, "null" when unset

runRows == <<status, earlier, owned>>
controlRows == <<ctlMode, ctlEnabled>>
ledgerVars == <<runRows, controlRows>>

Active == {"queued", "running"}
Closed == {"succeeded", "failed", "cancelled"}

ControlModes == RuntimeModes \union {"null"}
ControlFlags == {"null", "true", "false"}

LedgerTypeOK ==
  /\ status \in [RunIds -> Active \union Closed \union {"absent"}]
  /\ earlier \in [RunIds -> SUBSET RunIds]
  /\ owned \in [RunIds -> BOOLEAN]
  /\ ctlMode \in [Jobs -> ControlModes]
  /\ ctlEnabled \in [Jobs -> ControlFlags]

LedgerInit ==
  /\ status = [r \in RunIds |-> "absent"]
  /\ earlier = [r \in RunIds |-> {}]
  /\ owned = [r \in RunIds |-> FALSE]
  /\ ctlMode = [j \in Jobs |-> "null"]
  /\ ctlEnabled = [j \in Jobs |-> "null"]

-----------------------------------------------------------------------------
(* Reads *)

Rows(j) == {r \in RunIds : JobOf[r] = j /\ status[r] # "absent"}
HasActiveRun(j) == \E r \in Rows(j) : status[r] \in Active

\* SELECT DISTINCT ON (job_key) ... ORDER BY job_key, created_at DESC.
IsLatest(r) ==
  /\ status[r] # "absent"
  /\ Rows(JobOf[r]) \ {r} \subseteq earlier[r]

\* The latest run of the snapshot is queued or running.
LatestRunActive(j) ==
  \E r \in Rows(j) : IsLatest(r) /\ status[r] \in Active

\* A control row overrides the definition field by field; NULL means unset.
EffectiveMode(j) == IF ctlMode[j] = "null" THEN DefaultMode[j] ELSE ctlMode[j]
EffectiveEnabled(j) ==
  IF ctlEnabled[j] = "null" THEN DefaultEnabled[j] ELSE ctlEnabled[j] = "true"

\* Decommissioned never runs; paused or disabled runs only when forced.
GetJobRunPermission(j, force) ==
  /\ EffectiveMode(j) # "decommissioned"
  /\ EffectiveMode(j) = "paused" \/ ~EffectiveEnabled(j) => force

-----------------------------------------------------------------------------
(* Transactions *)

\* created_at is DEFAULT NOW(), the instant the create transaction begins; it
\* inserts later, when it has got the job's advisory lock.
BeginCreate(r) ==
  /\ status[r] = "absent"
  /\ earlier' = [q \in RunIds |->
       IF q = r THEN RunIds \ {r} ELSE earlier[q] \ {r}]
  /\ UNCHANGED <<status, owned, controlRows>>

\* Mutant: no unique index on the active rows of a job.
CreateFoundationJobRun_NoIndex(r) ==
  /\ status[r] = "absent"
  /\ status' = [status EXCEPT ![r] = "running"]
  /\ UNCHANGED <<earlier, owned, controlRows>>

\* INSERT guarded by the primary key and by the partial unique index on
\* job_key over the active statuses.
CreateFoundationJobRun(r) ==
  /\ status[r] = "absent"
  /\ ~HasActiveRun(JobOf[r])
  /\ status' = [status EXCEPT ![r] = "running"]
  /\ UNCHANGED <<earlier, owned, controlRows>>

\* Mutant: the write says again that the run is running.
UpdateFoundationJobRunMetadata_Reopens(r) ==
  /\ status[r] # "absent"
  /\ status' = [status EXCEPT ![r] = "running"]
  /\ owned' = [owned EXCEPT ![r] = TRUE]
  /\ UNCHANGED <<earlier, controlRows>>

\* Merges the process-ownership keys; the row's status is not looked at.
UpdateFoundationJobRunMetadata(r) ==
  /\ status[r] # "absent"
  /\ owned' = [owned EXCEPT ![r] = TRUE]
  /\ UNCHANGED <<status, earlier, controlRows>>

\* UPDATE ... WHERE run_id = $1: closes the row whatever its status was.
FinishFoundationJobRun(r, s) ==
  /\ status[r] # "absent"
  /\ status' = [status EXCEPT ![r] = s]
  /\ UNCHANGED <<earlier, owned, controlRows>>

\* UPDATE ... FROM selected, where S is what selected returned: rows that were
\* active and old in the statement's snapshot.  The target is joined by run_id
\* alone, so a row closed since then (READ COMMITTED waits for its writer and
\* re-checks the join, not the snapshot's status) is failed all the same.
MarkStaleFoundationJobRuns(S) ==
  /\ \A r \in S : status[r] # "absent"
  /\ status' = [r \in RunIds |-> IF r \in S THEN "failed" ELSE status[r]]
  /\ UNCHANGED <<earlier, owned, controlRows>>

\* Upsert that overwrites every column, unset inputs included.
UpdateFoundationJobControl(j, m, e) ==
  /\ ctlMode' = [ctlMode EXCEPT ![j] = m]
  /\ ctlEnabled' = [ctlEnabled EXCEPT ![j] = e]
  /\ UNCHANGED runRows

\* Any caller, any transaction, any order.
LedgerNext ==
  \/ \E r \in RunIds :
       \/ BeginCreate(r)
       \/ CreateFoundationJobRun(r)
       \/ UpdateFoundationJobRunMetadata(r)
       \/ \E s \in Closed : FinishFoundationJobRun(r, s)
  \/ \E S \in SUBSET RunIds : MarkStaleFoundationJobRuns(S)
  \/ \E j \in Jobs, m \in ControlModes, e \in ControlFlags :
       UpdateFoundationJobControl(j, m, e)

LedgerSpec == LedgerInit /\ [][LedgerNext]_ledgerVars

-----------------------------------------------------------------------------
(* What the tables promise under any interleaving of the transactions *)

\* Two runs of one job are never queued or running at the same time.
OneActiveRunPerJob ==
  \A r, q \in RunIds :
    /\ JobOf[r] = JobOf[q]
    /\ status[r] \in Active
    /\ status[q] \in Active
    => r = q

\* The rows implement one lock per job.
Lock == INSTANCE JobLock WITH
  held <- {r \in RunIds : status[r] \in Active},
  spent <- {r \in RunIds : status[r] # "absent"}

\* Whatever runners, reapers and routes do to the rows, each run takes its
\* job's lock at most once and no closed run ever holds it again.
ImplementsLock == Lock!Safety
=============================================================================
