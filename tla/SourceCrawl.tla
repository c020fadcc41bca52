---------------------------- MODULE SourceCrawl ----------------------------
(***************************************************************************)
(* One source-crawl target and its runs: the row of source_crawl_targets   *)
(* with its lease, counters and retirement streak, and the rows of         *)
(* source_crawl_target_runs.  Every action is one transaction of           *)
(* src/lib/foundation-source-crawl-store.js, which takes the target's      *)
(* advisory lock, or the row locks that stand for it in the reaper.        *)
(*                                                                         *)
(* Targets do not meet: no transaction but the reaper's touches two of     *)
(* them, and the reaper treats each on its own.  Titles, cursors, errors   *)
(* and metadata other than the retirement streak are left out.             *)
(***************************************************************************)
EXTENDS Naturals

CONSTANTS
  Runs,               \* ids makeSourceCrawlRunId can return
  NoRun,              \* not a run id
  Owners,             \* actors that lease
  NoOwner,            \* lease_owner is NULL
  LeaseTime,          \* leaseSeconds, in ticks
  StaleTime,          \* the reaper's age threshold, in ticks
  CleanRunThreshold   \* clean runs after which an empty target retires

ASSUME CrawlAssumption ==
  /\ NoRun \notin Runs
  /\ NoOwner \notin Owners
  /\ LeaseTime \in Nat \ {0}
  /\ StaleTime \in Nat \ {0}
  /\ CleanRunThreshold \in Nat \ {0}

VARIABLES
  targetMode,  \* "stopped": status blocked, paused, complete or mode paused
  leaseOwner,  \* lease_owner of the target
  leaseLeft,   \* ticks to lease_expires_at, 0 when NULL or past
  holder,      \* history: the run the current lease was given to
  counted,     \* the target's counters: sum of the deltas added to them
  streak,      \* metadata.extractRetire.cleanZeroWorkRunStreak
  status,      \* status of each run, "absent" when there is no row
  owner,       \* lease_owner of the run
  left,        \* ticks to the run's lease_expires_at, 0 once it is closed
  age,         \* ticks since started_at, 0 once it is closed
  delta        \* the deltas written to the run's row (0: none)

targetRow == <<targetMode, leaseOwner, leaseLeft, holder, counted, streak>>
runRows == <<status, owner, left, age, delta>>
crawlVars == <<targetRow, runRows>>

ClosedStatus == {"succeeded", "partial", "failed"}
Open(r) == status[r] = "running"

CrawlTypeOK ==
  /\ targetMode \in {"open", "stopped"}
  /\ leaseOwner \in Owners \union {NoOwner}
  /\ leaseLeft \in 0 .. LeaseTime
  /\ holder \in Runs \union {NoRun}
  /\ counted \in Nat
  /\ streak \in 0 .. CleanRunThreshold
  /\ status \in [Runs -> ClosedStatus \union {"absent", "running"}]
  /\ owner \in [Runs -> Owners \union {NoOwner}]
  /\ left \in [Runs -> 0 .. LeaseTime]
  /\ age \in [Runs -> 0 .. StaleTime]
  /\ delta \in [Runs -> {0, 1}]

CrawlInit ==
  /\ targetMode = "open"
  /\ leaseOwner = NoOwner
  /\ leaseLeft = 0
  /\ holder = NoRun
  /\ counted = 0
  /\ streak = 0
  /\ status = [r \in Runs |-> "absent"]
  /\ owner = [r \in Runs |-> NoOwner]
  /\ left = [r \in Runs |-> 0]
  /\ age = [r \in Runs |-> 0]
  /\ delta = [r \in Runs |-> 0]

-----------------------------------------------------------------------------
(* Lease *)

\* An expired lease counts as free whoever is its owner.
Leaseable == targetMode = "open" /\ leaseLeft = 0

\* force skips the status, the mode and the lease of another run.
LeaseSourceCrawlTarget(r, o, force) ==
  /\ status[r] = "absent"
  /\ Leaseable \/ force
  /\ leaseOwner' = o
  /\ leaseLeft' = LeaseTime
  /\ holder' = r
  /\ status' = [status EXCEPT ![r] = "running"]
  /\ owner' = [owner EXCEPT ![r] = o]
  /\ left' = [left EXCEPT ![r] = LeaseTime]
  /\ UNCHANGED <<targetMode, counted, streak, age, delta>>

ReleaseLease ==
  /\ leaseOwner' = NoOwner
  /\ leaseLeft' = 0
  /\ holder' = NoRun

-----------------------------------------------------------------------------
(* Finish *)

\* Rows of S are closed with status s and deltas d.
CloseRuns(S, s, d) ==
  /\ status' = [r \in Runs |-> IF r \in S THEN s ELSE status[r]]
  /\ left' = [r \in Runs |-> IF r \in S THEN 0 ELSE left[r]]
  /\ age' = [r \in Runs |-> IF r \in S THEN 0 ELSE age[r]]
  /\ delta' = [r \in Runs |-> IF r \in S THEN d ELSE delta[r]]
  /\ UNCHANGED owner

\* Only a success without work continues the streak; it stops counting at the
\* threshold, the one value it is compared with.
StreakAfter(s, d) ==
  IF s # "succeeded" \/ d # 0 THEN 0
  ELSE IF streak < CleanRunThreshold THEN streak + 1 ELSE streak

Retires(s, d, eligible) ==
  /\ eligible
  /\ s = "succeeded" /\ d = 0
  /\ StreakAfter(s, d) >= CleanRunThreshold

\* Mutant: the run is not required to be running.
ActiveRun_AnyStatus(r) == status[r] # "absent"
\* SELECT run_id ... WHERE lease_owner = $2 AND status = 'running' AND run_id.
ActiveRun(r) == Open(r)

\* The target is updated where lease_owner is the caller, whichever run of
\* that owner the lease was given to; then the run's row.
FinishSourceCrawlTargetRun(r, s, d, eligible) ==
  /\ ActiveRun(r)
  /\ leaseOwner = owner[r]
  /\ CloseRuns({r}, s, d)
  /\ ReleaseLease
  /\ counted' = counted + d
  /\ streak' = StreakAfter(s, d)
  /\ targetMode' = IF Retires(s, d, eligible) THEN "stopped" ELSE targetMode

\* "is not leased by": the exception rolls the transaction back.
FinishIsBlocked(r) == ActiveRun(r) /\ leaseOwner # owner[r]

\* A run that is closed already is returned as it is.
FinishIsRepeated(r) == ~ActiveRun(r) /\ status[r] \in ClosedStatus

-----------------------------------------------------------------------------
(* Reaper, seeding, time *)

\* Mutant: a row is stale when the target's lease is its owner's and over.
StaleRun_ByTarget(r) == Open(r) /\ leaseOwner = owner[r] /\ leaseLeft = 0
\* Mutant: closed rows are not left out.
StaleRun_AnyStatus(r) == status[r] # "absent" /\ (left[r] = 0 \/ age[r] >= StaleTime)
StaleRun(r) == Open(r) /\ (left[r] = 0 \/ age[r] >= StaleTime)

\* Mutant: the lease goes with the run, expired or not.
ReapedLease_Any(S) == \E r \in S : leaseOwner = owner[r]
\* The target's lease is cleared if it is the reaped run's owner's and over.
ReapedLease(S) == \E r \in S : leaseOwner = owner[r] /\ leaseLeft = 0

\* FOR UPDATE in the CTE checks the status again, so the statement is atomic.
MarkStaleSourceCrawlTargetRuns ==
  LET S == {r \in Runs : StaleRun(r)} IN
  /\ S # {}
  /\ CloseRuns(S, "failed", 0)
  /\ IF ReapedLease(S) THEN ReleaseLease
     ELSE UNCHANGED <<leaseOwner, leaseLeft, holder>>
  /\ UNCHANGED <<targetMode, counted, streak>>

\* No caller passes a lease, so the upsert sets it to NULL; the counters are
\* the GREATEST of old and given, the metadata is merged.
UpsertSourceCrawlTarget(m) ==
  /\ targetMode' = m
  /\ ReleaseLease
  /\ UNCHANGED <<counted, streak, runRows>>

\* Ages stop at the threshold.
CrawlTick ==
  /\ leaseLeft' = IF leaseLeft > 0 THEN leaseLeft - 1 ELSE 0
  /\ left' = [r \in Runs |-> IF left[r] > 0 THEN left[r] - 1 ELSE 0]
  /\ age' = [r \in Runs |-> IF Open(r) /\ age[r] < StaleTime THEN age[r] + 1 ELSE age[r]]
  /\ UNCHANGED <<targetMode, leaseOwner, holder, counted, streak, status, owner, delta>>
=============================================================================
