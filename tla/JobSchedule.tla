---------------------------- MODULE JobSchedule ----------------------------
(***************************************************************************)
(* When the Foundation worker runs which scheduled job: the due rule of    *)
(* src/lib/foundation-jobs.js (getFoundationJobRuntime), the selection and *)
(* the pass of src/scripts/foundation-worker.mjs, the follow-ups that the  *)
(* freshness trigger runs when a run ends, runs that operators start by    *)
(* hand, control posts, and crashes of the worker.                         *)
(*                                                                         *)
(* The clock is the local hour, so that behaviours do not end.  A tick is  *)
(* one sleep of the worker.  A job's latest run is known by how long ago   *)
(* it ended, which is counted no further than the due rule can tell apart. *)
(***************************************************************************)
EXTENDS Integers, Sequences, FiniteSets

CONSTANTS
  Order,       \* the jobs in the order of their definitions
  Every,       \* scheduleEveryMinutes of a job's definition, in ticks
  At,          \* scheduleLocalTime of a job, in ticks, or NoTime
  NoTime,      \* a job without a local time runs by its interval
  Dur,         \* maxRuntimeSeconds of a job, in ticks
  Grace,       \* graceSeconds of the worker's reaper, in ticks
  Day,         \* ticks in a local day
  MaxJobs,     \* jobs one pass may run
  FollowUps,   \* jobs the freshness trigger may run after a job
  Posts,       \* <<mode, interval>>: what operators write to a job's control
  ByHand,      \* jobs operators run
  MaxCrashes   \* bound: the worker dies at most so often

Jobs == {Order[i] : i \in DOMAIN Order}
Modes == {"scheduled", "manual", "paused", "decommissioned"}
Intervals == [j \in Jobs |-> {Every[j]} \union {c[2] : c \in Posts[j]}]

ASSUME ScheduleAssumption ==
  /\ Order \in Seq(Jobs)
  /\ \A i, k \in DOMAIN Order : Order[i] = Order[k] => i = k
  /\ Day \in Nat \ {0} /\ MaxJobs \in Nat \ {0}
  /\ Grace \in Nat /\ MaxCrashes \in Nat
  /\ Every \in [Jobs -> Nat \ {0}] /\ Dur \in [Jobs -> Nat \ {0}]
  /\ At \in [Jobs -> 0 .. Day - 1 \union {NoTime}] /\ NoTime \notin Nat
  /\ Posts \in [Jobs -> SUBSET (Modes \X (Nat \ {0}))]
  /\ \A j \in Jobs : \E most \in Intervals[j] : \A e \in Intervals[j] : e <= most
  /\ FollowUps \in [Jobs -> SUBSET Jobs]
  /\ \A j \in Jobs : \A k \in FollowUps[j] : At[k] = NoTime
  /\ ByHand \subseteq Jobs

VARIABLES
  hour,       \* the local time
  run,        \* a job's latest row: "none", "active" or "ended"
  since,      \* ticks since the latest row of a job ended
  elapsed,    \* ticks since its active row was started
  runner,     \* who supervises a job's active run
  worker,     \* the worker's next step
  queue,      \* jobs its pass has selected and not reached, by definition order
  finishing,  \* <<j, p>>: runner p has closed a run of j, not yet followed up
  mode,       \* a job's runtimeMode; "paused" stands for disabled, too
  every,      \* its scheduleEveryMinutes
  crashes,    \* how often the worker has died
  served,     \* history: daily jobs the worker has started since their slot
  overtaken,  \* history: selected jobs somebody has run since the snapshot
  rewritten   \* history: selected jobs whose control was written since then

rows == <<run, since, elapsed, runner>>
controls == <<mode, every>>
history == <<served, overtaken, rewritten>>
vars == <<hour, rows, worker, queue, finishing, controls, crashes, history>>

Daily(j) == At[j] # NoTime
DailyJobs == {j \in Jobs : Daily(j)}
Longest == [j \in Jobs |-> CHOOSE most \in Intervals[j] : \A e \in Intervals[j] : e <= most]
Enough(j) == IF Daily(j) THEN Day ELSE Longest[j]
StaleAfter(j) == Dur[j] + Grace

TypeOK ==
  /\ hour \in 0 .. Day - 1
  /\ run \in [Jobs -> {"none", "active", "ended"}]
  /\ since \in [Jobs -> Nat] /\ elapsed \in [Jobs -> Nat]
  /\ \A j \in Jobs : since[j] <= Enough(j) /\ elapsed[j] <= StaleAfter(j) + 1
  /\ runner \in [Jobs -> {"worker", "operator", "nobody"}]
  /\ worker \in {"polling", "reaped", "pass", "job", "following", "sleeping", "down"}
  /\ queue \subseteq Jobs /\ Cardinality(queue) <= MaxJobs
  /\ finishing \subseteq Jobs \X {"worker", "operator"}
  /\ mode \in [Jobs -> Modes]
  /\ every \in [Jobs -> Nat \ {0}] /\ \A j \in Jobs : every[j] \in Intervals[j]
  /\ crashes \in 0 .. MaxCrashes
  /\ served \subseteq Jobs /\ overtaken \subseteq Jobs /\ rewritten \subseteq Jobs

Init ==
  /\ hour = 0
  /\ run = [j \in Jobs |-> "none"]
  /\ since = [j \in Jobs |-> 0] /\ elapsed = [j \in Jobs |-> 0]
  /\ runner = [j \in Jobs |-> "nobody"]
  /\ worker = "polling" /\ queue = {}
  /\ finishing = {}
  /\ mode = [j \in Jobs |-> "scheduled"] /\ every = Every
  /\ crashes = 0
  /\ served = {} /\ overtaken = {} /\ rewritten = {}

-----------------------------------------------------------------------------
(* getFoundationJobRuntime                                                 *)

\* Ticks since the last instant of the job's local time.
SinceSlot(j) == (hour - At[j]) % Day

\* Mutant: an end at the very instant of the local time leaves it due.
DailyDue_Inclusive(j) ==
  IF run[j] = "none" THEN hour >= At[j] ELSE since[j] >= SinceSlot(j)
\* Mutant: the next run is computed from now, the day is skipped.
DailyDue_FromNow(j) == hour = At[j]

\* nextDailyLocalRun(latestAt) <= now, an instant of the local time having
\* come after the latest run; a job that has never run is due for the rest
\* of the day (dailyLocalRunForReferenceDate).
DailyDue(j) == IF run[j] = "none" THEN hour >= At[j] ELSE since[j] > SinceSlot(j)

IntervalDue(j) == run[j] = "none" \/ since[j] >= every[j]

Due(j) ==
  /\ mode[j] = "scheduled"
  /\ run[j] # "active"
  /\ IF Daily(j) THEN DailyDue(j) ELSE IntervalDue(j)

-----------------------------------------------------------------------------
(* Rows                                                                    *)

StartRun(j, by) ==
  /\ run' = [run EXCEPT ![j] = "active"]
  /\ elapsed' = [elapsed EXCEPT ![j] = 0]
  /\ since' = [since EXCEPT ![j] = 0]
  /\ runner' = [runner EXCEPT ![j] = by]

\* finished_at is the time of the write, whether the run succeeded, failed
\* or was reaped.
CloseRows(S) ==
  /\ run' = [j \in Jobs |-> IF j \in S THEN "ended" ELSE run[j]]
  /\ since' = [j \in Jobs |-> IF j \in S THEN 0 ELSE since[j]]
  /\ elapsed' = [j \in Jobs |-> IF j \in S THEN 0 ELSE elapsed[j]]
  /\ runner' = [j \in Jobs |-> IF j \in S THEN "nobody" ELSE runner[j]]

Stale(j) == run[j] = "active" /\ elapsed[j] > StaleAfter(j)

-----------------------------------------------------------------------------
(* The worker's pass                                                       *)

WorkerReap ==
  /\ worker = "polling"
  /\ worker' = "reaped"
  /\ CloseRows({j \in Jobs : Stale(j)})
  /\ UNCHANGED <<hour, queue, finishing, controls, crashes, history>>

Before(j, k) == \E a, b \in DOMAIN Order : a < b /\ Order[a] = j /\ Order[b] = k

\* Mutant: the limit of a pass is off by one.
FirstDue_OneMore ==
  {j \in Jobs : Due(j) /\ Cardinality({k \in Jobs : Due(k) /\ Before(k, j)}) <= MaxJobs}
\* Mutant: every scheduled job without an active run is taken for due.
FirstDue_AnyScheduled ==
  LET Idle == {j \in Jobs : mode[j] = "scheduled" /\ run[j] # "active"}
  IN {j \in Idle : Cardinality({k \in Idle : Before(k, j)}) < MaxJobs}

\* The first of the due jobs in definition order.
FirstDue ==
  {j \in Jobs : Due(j) /\ Cardinality({k \in Jobs : Due(k) /\ Before(k, j)}) < MaxJobs}

WorkerSelect ==
  /\ worker = "reaped"
  /\ worker' = "pass"
  /\ queue' = FirstDue
  /\ overtaken' = {} /\ rewritten' = {}
  /\ UNCHANGED <<hour, rows, finishing, controls, crashes, served>>

\* Mutant: the control row is not read again.
Runnable_NoControl(j) == run[j] # "active"

\* runFoundationJob reads the control row again and inserts the run, which
\* an active row of the job refuses; it does not ask again whether it is due,
\* nor whether it is still on the schedule: a manual job is permitted.
Runnable(j) == mode[j] \in {"scheduled", "manual"} /\ run[j] # "active"
\* The pass goes through its jobs in definition order.
Foremost(j) == j \in queue /\ \A k \in queue \ {j} : Before(j, k)
\* What happened to a selected job since the snapshot matters until its turn.
Reached(S) ==
  /\ queue' = queue \ S
  /\ overtaken' = overtaken \ S /\ rewritten' = rewritten \ S

WorkerRun(j) ==
  /\ worker = "pass" /\ Foremost(j) /\ Runnable(j)
  /\ StartRun(j, "worker")
  /\ Reached({j})
  /\ worker' = "job"
  /\ served' = served \union ({j} \intersect DailyJobs)
  /\ UNCHANGED <<hour, finishing, controls, crashes>>

WorkerSkip(j) ==
  /\ worker = "pass" /\ Foremost(j) /\ ~ Runnable(j)
  /\ Reached({j})
  /\ UNCHANGED <<hour, rows, worker, finishing, controls, crashes, served>>

WorkerSleep ==
  /\ worker = "pass" /\ queue = {}
  /\ worker' = "sleeping"
  /\ UNCHANGED <<hour, rows, queue, finishing, controls, crashes, history>>

\* Killed, it leaves its run active; launchd starts it again some time later.
WorkerCrash ==
  /\ worker # "down" /\ crashes < MaxCrashes
  /\ worker' = "down" /\ Reached(queue)
  /\ crashes' = crashes + 1
  /\ finishing' = {f \in finishing : f[2] # "worker"}
  /\ runner' = [j \in Jobs |-> IF runner[j] = "worker" THEN "nobody" ELSE runner[j]]
  /\ UNCHANGED <<hour, run, since, elapsed, controls, served>>

WorkerRestart ==
  /\ worker = "down"
  /\ worker' = "polling"
  /\ UNCHANGED <<hour, rows, queue, finishing, controls, crashes, history>>

-----------------------------------------------------------------------------
(* Runs end, operators act, time passes                                    *)

\* The run's child has closed, at the latest when its timeout has killed it.
\* The end of a job that the freshness trigger tracks may be followed up.
EndRun(j) ==
  /\ runner[j] # "nobody"
  /\ CloseRows({j})
  /\ finishing' = IF FollowUps[j] = {} THEN finishing ELSE finishing \union {<<j, runner[j]>>}
  /\ worker' = CASE runner[j] # "worker" -> worker
                 [] runner[j] = "worker" /\ FollowUps[j] = {} -> "pass"
                 [] OTHER -> "following"
  /\ UNCHANGED <<hour, queue, controls, crashes, history>>

\* handleSynthesisFreshnessAfterFoundationJobRun: the runner that has closed
\* the run runs the follow-up itself, with force, which permits a paused job:
\* due or not, and whether or not a pass has selected it.
FollowUp(j, p, k) ==
  /\ <<j, p>> \in finishing /\ k \in FollowUps[j]
  /\ mode[k] # "decommissioned" /\ run[k] # "active"
  /\ StartRun(k, p)
  /\ finishing' = finishing \ {<<j, p>>}
  /\ worker' = IF p = "worker" THEN "job" ELSE worker
  /\ overtaken' = overtaken \union (queue \intersect {k})
  /\ UNCHANGED <<hour, queue, controls, crashes, served, rewritten>>

\* The run failed, nothing is ahead of the synthesis, the trigger is off or
\* has fired a moment ago, or the follow-up is refused.
NoFollowUp(j, p) ==
  /\ <<j, p>> \in finishing
  /\ finishing' = finishing \ {<<j, p>>}
  /\ worker' = IF p = "worker" THEN "pass" ELSE worker
  /\ UNCHANGED <<hour, rows, queue, controls, crashes, history>>

\* By hand a job is run on whatever schedule, a paused one with --force.
OperatorRun(j) ==
  /\ j \in ByHand
  /\ mode[j] # "decommissioned" /\ run[j] # "active"
  /\ StartRun(j, "operator")
  /\ overtaken' = overtaken \union (queue \intersect {j})
  /\ UNCHANGED <<hour, worker, queue, finishing, controls, crashes, served, rewritten>>

\* A control post, or a decommission, whose look at the runs comes earlier.
Control(j, c) ==
  /\ c \in Posts[j]
  /\ mode' = [mode EXCEPT ![j] = c[1]] /\ every' = [every EXCEPT ![j] = c[2]]
  /\ rewritten' = rewritten \union (queue \intersect {j})
  /\ UNCHANGED <<hour, rows, worker, queue, finishing, crashes, served, overtaken>>

CountUp(n, most) == IF n < most THEN n + 1 ELSE n

\* A worker that is not running a job takes no time between two sleeps, and
\* no supervised run outlives its timeout.
Tick ==
  /\ worker \in {"job", "sleeping", "down"}
  /\ \A j \in Jobs : runner[j] # "nobody" => elapsed[j] < Dur[j]
  /\ hour' = (hour + 1) % Day
  /\ since' = [j \in Jobs |->
                 IF run[j] = "ended" THEN CountUp(since[j], Enough(j)) ELSE since[j]]
  /\ elapsed' = [j \in Jobs |->
                 IF run[j] = "active" THEN CountUp(elapsed[j], StaleAfter(j) + 1) ELSE 0]
  /\ worker' = IF worker = "sleeping" THEN "polling" ELSE worker
  /\ served' = {j \in served : At[j] # hour'}
  /\ UNCHANGED <<run, runner, queue, finishing, controls, crashes, overtaken, rewritten>>

-----------------------------------------------------------------------------
WorkerStep ==
  \/ WorkerReap \/ WorkerSelect \/ WorkerSleep
  \/ \E j \in Jobs : WorkerRun(j) \/ WorkerSkip(j)
  \/ \E j, k \in Jobs : FollowUp(j, "worker", k)
  \/ \E j \in Jobs : NoFollowUp(j, "worker")

Next ==
  \/ WorkerStep \/ WorkerCrash \/ WorkerRestart
  \/ \E j \in Jobs : EndRun(j) \/ OperatorRun(j) \/ NoFollowUp(j, "operator")
  \/ \E j, k \in Jobs : FollowUp(j, "operator", k)
  \/ \E j \in Jobs : \E c \in Posts[j] : Control(j, c)
  \/ Tick

Spec == Init /\ [][Next]_vars
\* The worker is scheduled and restarted, runs end, time passes; operators
\* owe nothing.
FairSpec ==
  /\ Spec
  /\ WF_vars(WorkerStep) /\ WF_vars(WorkerRestart) /\ WF_vars(Tick)
  /\ \A j \in Jobs : WF_vars(EndRun(j))

-----------------------------------------------------------------------------
WorkerStarts(j) == runner[j] # "worker" /\ runner'[j] = "worker"

\* The worker starts a daily job at most once for each instant of its local
\* time, whatever crashes, reaped rows and runs by hand come between.
OncePerSlot ==
  [][\A j \in Jobs : WorkerStarts(j) /\ Daily(j) => j \notin served]_vars

\* What the worker starts is the follow-up of a run it has just closed, or is
\* neither paused nor decommissioned and due at that moment, however long the
\* jobs and follow-ups before it in the pass have taken.  It is no longer due
\* only if since the snapshot somebody has run it, an operator or a follow-up
\* of this very pass, or its control was written, or if it has never run and
\* midnight has passed.
StaleOnlyIfOvertaken ==
  [][\A j \in Jobs : WorkerStarts(j) =>
       \/ \E k \in Jobs : <<k, "worker">> \in finishing /\ j \in FollowUps[k]
       \/ /\ mode[j] \in {"scheduled", "manual"}
          /\ Due(j) \/ j \in overtaken \union rewritten \/ run[j] = "none"]_vars

\* A job that is due stays due until it runs, leaves the schedule or gets a
\* longer interval.  A daily job that has never run is the exception: at
\* midnight its day is lost.
DueIsKept ==
  [][\A j \in Jobs : Due(j) /\ ~ Due(j)' =>
       \/ run'[j] = "active" \/ mode'[j] # "scheduled" \/ every'[j] > every[j]
       \/ run[j] = "none" /\ hour' = 0]_vars

\* No job starves behind the jobs defined before it, although every pass
\* begins at the head of the list: as long as those need less time than
\* there is, follow-ups included, their intervals, counted from the end of
\* a run, let it in.
DueJobRuns == \A j \in Jobs : Due(j) ~> ~ Due(j)
=============================================================================
