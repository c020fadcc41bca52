# Foundation runtime: TLA+ models, checks and proofs

This directory specifies the parts of the repository that decide *what runs, once, and what is recorded of
it*: the Foundation job runtime with its schedule and its pause, the source-crawl runtime that its jobs drive, the lock
around the heavy gate checks, the mails of the agent feedback, and the life of an action route. Models are written in
TLA+, checked with TLC on small instances, and the main safety properties are proved with TLAPS for every value of the
constants. Every definition is a
translation of source code; `PROJECT.json` gives the file and lines of each ("map").

## 1. Inventory

The repository is a Node.js system around one PostgreSQL database (`lib/foundation-db.js` and the
`lib/foundation-*-store.js` files), a dashboard (`server.js`, `lib/foundation-write-routes.js`), a supervised
background worker (`scripts/foundation-worker.mjs`, kept alive by launchd) and several hundred scripts that the
worker or an operator runs as jobs.

| Component | State it keeps | Operations | Interacts with | What is hard | What makes it correct |
|---|---|---|---|---|---|
| Job ledger (`lib/foundation-runtime-job-store.js`, tables in `lib/foundation-db-schema-seed-store.js`) | `foundation_job_runs`, `foundation_job_controls`, unique index on active rows | create, metadata, finish, mark stopped, mark stale, control upsert, snapshot | runners, worker, dashboard | every caller writes at any time; `finish` and the reaper look at no status; `created_at` is the start of the transaction | one active run per job; no closed row becomes active again; no unearned success |
| Job runner (`scripts/run-foundation-job.mjs`) | one detached child, its timers, the ledger row | permission, create with retries, spawn, record pid, time out, kill, close, finish, follow-up | ledger, child, freshness trigger | partial failures between row and child, lost answers, crash of the runner with a live child, timeout against exit | a live child is on the books; a run fails or succeeds as its child did |
| Worker (`scripts/foundation-worker.mjs`) | serial pass | reap (jobs, LLM calls, source crawls), select due jobs, run them in turn | ledger, runner, ship pause | one pass runs everything, reapers included | never reaps a supervised run; always reaps again |
| Dashboard job controls (`lib/foundation-write-routes.js`, `lib/runtime-process-control.js`) | none of its own | control, stop, decommission | ledger, child's process group | read, await, then act on what was read | decommission and stop mean what the docs say |
| Job schedule (`lib/foundation-jobs.js`, the pass of `scripts/foundation-worker.mjs`) | none of its own: the job's latest run and its control | next due time of interval and daily jobs, the first `maxJobs` of the due ones | worker, ledger, freshness trigger, operators | runs that fail, are reaped or are started by hand around the instant of the local time; due decisions as old as the pass, while follow-ups, operators and control posts go on; the head of the list comes first | one start per slot; what is due stays due and runs |
| Ship gate and worker pause (`scripts/process-foundation-ship.mjs`, `lib/ship-gate-worker-live-job-pause.js`) | marker file with a pause id and an expiry | write, restart the worker, prove, clear; the worker reads it | worker, launchd, other ship gates | a marker read while it is written, overwritten by another ship, expiring under the proof, left by a killed ship | no job starts under a live pause; a ship clears its own marker only; the worker resumes |
| Crawl targets and runs (`lib/foundation-source-crawl-store.js`, `lib/extract-retire.js`, `scripts/run-extraction-target.mjs`, `scripts/seed-extraction-control.mjs`) | targets with a lease, counters and a retirement streak; target runs; one detached child per process | lease, finish, reap, upsert | worker, operators, seeding scripts | leases that are forced, cleared or reaped under a live run; a finish that is repeated after a later failure; a run failed by age that then reports | crawls of a target overlap only when a lease was taken away or a process died; a run is closed, and counted, once |
| Crawl items (same store, `lib/extraction-run-hardening.js`, crawl scripts) | items, attempt rows, retry state | write with classification, reclassify, offer for retry | crawl scripts, retry script | runs that interleave on an item; a classification that reads what earlier writes stored | one attempt per run; no retry beyond the cap; what waits is offered |
| LLM store and router (`lib/foundation-llm-runtime-store.js`, `lib/llm-router.js`, `lib/llm-hub-capacity.js`) | call rows, capacity | begin, finish, reap, route | worker, jobs | calls that never answer, fallback order | every call row is closed; capacity is given back |
| Agent feedback (`lib/agent-feedback-auto-send.js`, `lib/agent-feedback-reminders.js`, `lib/agent-feedback-routes.js`, `lib/agent-feedback-clickup.js`, `lib/foundation-agent-feedback-store.js`) | send attempts, reminder attempts, responses; the status field in ClickUp | send the request, remind, answer, write back | Gmail, ClickUp, the feedback page | external calls whose effect and answer differ; a crash between mail and record; two runs on one row | one initial mail; reminders in their cadence; silence after the answer; an honest ledger |
| Gate check serialization (`lib/foundation-gate-check-serialization.js`) | a directory with an owner file | acquire, enter again as a child, remove when stale, release | the four heavy checks, the ship gate | two calls make the lock; age, pid and token each decide something; children outlive parents | heavy checks do not overlap; nobody waits for a dead owner, or for its own parent |
| Action router (`lib/intelligence-action-router.js`, `lib/strategy-shared-comms-routes.js`, the item transactions of `lib/intelligence-synthesis.js`) | synthesized items, routes, created records | synthesize, propose, reroute, approve, reject, apply | synthesis job, proposing runs, reviewers | reviews of several transactions; upserts that keep some columns; proposals in flight | one route an item, one record a route, what is applied is what was reviewed |
| Decision store (`lib/foundation-decision-store.js`) | decisions | propose, review, supersede | dashboard | order of reviews | legal status order |
| Sprint and backlog (`lib/foundation-current-sprint-store.js`) | cards, sprint | move, close | closeout scripts | two writers of one card | stages move legally |
| Synthesis and retrieval, connectors, verifiers and reports, HTTP server and front end | rows of the above, text | read, render, rank, call external APIs | all | data, not protocol | not modelled, see section 8 |

The hazards in `PROJECT.json` list, line by line, where this code is hard to test.

## 2. Modules

```
JobLock                 abstract: one lock per job, each run takes it at most once
   ^ Lock == INSTANCE JobLock WITH held <- active rows, spent <- rows
JobLedger               the two tables; one action per transaction, any caller
   ^ EXTENDS
JobRunner               runFoundationJob / runCommand, children, timers, ticks
   ^ EXTENDS
FoundationRuntime       worker pass, operators, crashes, dashboard routes; Spec, FairSpec, properties
   ^ EXTENDS
MCFoundationRuntime     small instances

SourceCrawl             a crawl target and its runs; one action per transaction
   ^ EXTENDS
CrawlRunner             processes of run-extraction-target.mjs, reaper, seeding; Spec, FairSpec, properties
   ^ EXTENDS
MCCrawlRunner           small instances

CrawlItems              one item, its attempt rows, retry classification; Spec, FairSpec, properties
   ^ EXTENDS
MCCrawlItems            small instances

JobSchedule             due rule, selection and pass of the worker over days; follow-ups, runs by hand, control posts
   ^ EXTENDS
MCJobSchedule           small instances

ShipGate                ship gates and their pause marker against the worker's pass
   ^ EXTENDS
MCShipGate              small instances

CheckMutex              abstract: one check at a time, with the guests its owner lets in
   ^ INSTANCE (refinement mapping)
GateLock                the lock directory of the heavy checks, call by call
   ^ EXTENDS
MCGateLock              small instances

AgentFeedbackStore      send attempts, reminder attempts, responses; one action per statement
   ^ EXTENDS
AgentFeedback           senders, reminder runs, submits, Gmail and ClickUp; Spec, properties
   ^ EXTENDS
MCAgentFeedback         small instances

RouteBook               abstract: a route is proposed, approved or rejected, applied; one step each
   ^ INSTANCE (refinement mapping)
ActionRouter            synthesis, proposals and reviews over items, routes and records
   ^ EXTENDS
MCActionRouter          small instances

FoundationRuntimeProofs theorems about LedgerSpec and FoundationRuntime's Spec
JobScheduleProofs       theorems about JobSchedule's Spec
CrawlRunnerProofs       theorems about CrawlRunner's Spec
CrawlItemsProofs        theorems about CrawlItems' Spec
GateLockProofs          theorems about GateLock's Spec
ShipGateProofs          theorems about ShipGate's Spec
AgentFeedbackProofs     theorems about AgentFeedback's Spec
ActionRouterProofs      theorems about ActionRouter's Spec
```

**JobLedger.** `status`, `earlier` and `owned` are columns of `foundation_job_runs`: `earlier[r]` is the set of
runs whose `created_at` precedes r's (`DEFAULT NOW()` is the start of the transaction, so `BeginCreate` takes it
and `CreateFoundationJobRun` inserts later); `owned[r]` says that the metadata names the child. `ctlMode` and
`ctlEnabled` are the control row, "null" for NULL or no row. Actions are the store's transactions. Two of them
matter most: `FinishFoundationJobRun` has no guard on the status because the code's UPDATE has none, and
`MarkStaleFoundationJobRuns(S)` fails rows by run id, the set S having been selected earlier by the same
statement's CTE: under READ COMMITTED the re-check after a lock wait looks at the join, not at the snapshot's status,
so it may overwrite a row that closed in between.

**JobRunner.** `pc[p]` is a runner's place between two awaits of `runCommand`; `cur[p]` its run. The child is a
process of its own (`child`, `ChildExit`): the runner's crash leaves it behind (`orphans`). `RunnerCreateAckLost` is
the commit whose answer is lost: the retry meets its own row and throws. Time is a clock in ticks; `age[r]` counts
from `startedAt` while somebody can still read it, `timer[r]` from the spawn. `Tick` waits for every live runner to
be `InTime`.

**FoundationRuntime.** The worker is one of the runners: its pass is `WorkerScan`/`WorkerReap` (the two halves of the
reaper's statement), `WorkerSelect`, then `WorkerRun` and the runner's own steps, one job after the other, until
`WorkerSleep`. Operators run jobs with or without force (`OperatorRun`); anything that runs may crash
(`RunnerCrash`; for the worker this is also `launchctl kickstart -k`). The stop route is three steps (read, signal,
mark), the decommission route two (snapshot, write), because the code awaits in between.

**SourceCrawl.** `leaseOwner`, `leaseLeft`, `counted`, `streak` and `targetMode` are the target's row, `status`, `owner`,
`left`, `age` and `delta` its runs' rows. `holder` is history: the run the lease was given to, which the row does not
say. Every transaction takes the target's advisory lock, so an action is a transaction. The reaper is one as well:
unlike the job reaper it selects `FOR UPDATE`, which checks the status again. `FinishSourceCrawlTargetRun` needs its run
to be running and the target's lease to be its *owner's*; a run that is closed is returned as it is
(`FinishIsRepeated`), and a lease that is somebody else's refuses the finish (`FinishIsBlocked`). The counters are summed to
one, and a run's deltas are 0 or 1 whatever its status, because nothing but "no work at all" is told apart.

**CrawlRunner.** `pc[r]` is the place of run r's process in `main`: `leased` before the `try` block, where a failure
finishes nothing (`RunAbandon`), `running` while it waits for its child, `closing` before the finish in the `try` block,
`failing` before the one in the `catch` block, which is reached by every failure after the spawn, also one *after* a
finish that is committed. The child is detached (`orphans`). `lost` is history: the waiting processes whose live lease
somebody took away. `SeedTarget` is an upsert of the target by `seed-extraction-control.mjs` or a watch script.

**CrawlItems.** One item. Each write (`UpsertSourceCrawlItem`) classifies the row in its own transaction (`Harden`), from the
status, the counter, the stored time of the next retry and one text, the first of the stored reason, the metadata's and the
error; a text is reduced to whether it matches `isBlockedReason`. `rows` are the attempt rows, which decide whether a run
has attempted the item already. `wait` counts down to `next_retry_at`.

**JobSchedule.** The clock is the local hour, `hour`, which wraps around, so that behaviours go on over days. A job's
latest row is `run[j]`; of its end only `since[j]`, the ticks since then, is kept, because `getFoundationJobRuntime`
compares nothing else: the next local time after the latest end has passed if and only if the end is further back than
the last instant of that time (`DailyDue`). A failed or reaped run counts like a successful one, because `finishedAt` is
written by all three. `WorkerSelect` takes the first `MaxJobs` due jobs in definition order (`FirstDue`: those with fewer
than `MaxJobs` due jobs before them), as `selectDueJobs`' filter and slice do; the pass's list is the set of jobs it has
not reached, gone through in the same order (`Foremost`). `WorkerRun` asks the control again but not whether the job is
still due, nor whether it is still scheduled: a manual job passes (`Runnable`). A control post (`Control`) writes mode and
interval; a disabled job is a paused one. When a run ends, the runner that has closed it, the worker's or an operator's, may run
the follow-up itself, with force (`finishing`, then `FollowUp` or `NoFollowUp`; the worker's place is "following"): synthesis after
the jobs of a source family, the router's proposals after synthesis. A follow-up that ends may be followed up in turn, so that
the pass goes on after the whole chain. Both targets are interval jobs, which `ScheduleAssumption` asks for. `served`, `overtaken` and
`rewritten` are history; the last two speak of jobs a pass has selected and not reached (`Reached`).

**ShipGate.** A ship's `writeFile` is `OpenMarker` (the path is emptied, "torn") and `FillMarker`, so that the worker, or
another ship's cleanup, may read it in between; a descriptor that was opened before a removal writes into a file that is no
longer there (`opened`). A marker that does not parse pauses the worker (`Paused`) and is removed by whoever cleans up next
(`ClearRead`), as in the code. `Restart` kills the worker with its pass, `Prove` ends in the `finally` block whether the checks
pass or not, `Die` is a kill. The worker looks at the marker once per pass.

**GateLock.** A check is a process; `Mkdir` and `WriteOwner` are two calls, as are the second read of the owner file (`Judge`)
and the removal (`Remove`). A token is named by the check that drew it. `Start(p)` of a check with a parent passes the
parent's token on. `pids` are the pids that answer signal 0, a killed check's possibly reused. `provoked` is history: the
four things after which the code admits two checks at once. `CheckMutex` is what is left of the lock without directories, files,
clocks and pids: owners, the guests they have let in, and whether the promise has been broken (`provoked`).

**AgentFeedbackStore, AgentFeedback.** One agent, one milestone. A run's `pc` is its place between two awaits. Gmail delivers and
answers, does not deliver, or delivers and fails (`SendGmailMessage`); a write that throws may have taken effect (`Fails`). The
sender's `catch` block asks `gmailSendSucceeded`, hence its two ends (`repairing`, `failing`). The ClickUp field is overwritten
by the sender, by the answer's writeback and by people. The plan of a run is the part of `buildEligibility` and
`classifyReminderCandidate` that looks at rows.

**ActionRouter.** A route's id is item and variant, since the code hashes item, type, destination and owner. A transaction is two
steps where others may commit in between (`ProposeSelect`/`ProposeCommit`, `SynthesisArchive`/`SynthesisCommit`,
`ApplyLock`/`ApplyCommit`) and one where it locks what it reads. `Locked` is the row lock of an open apply, `archiving` that of an
open archive. A review request is the rest of its plan (`todo`), decided on the route as it was read first. `RouteBook` has
neither transactions nor requests: a route's status and place, and the pairs of routes and tables of the records made.

### Plan for the remaining modules

1. `LlmCalls`: the call ledger, its reaper and capacity (`lib/foundation-llm-runtime-store.js`, `lib/llm-router.js`).
2. The decision and the sprint life cycles.
3. `ShipPause`, composing `ShipGate` with `FoundationRuntime`, so that orphaned children of the restarted worker meet the proof.
4. Proofs: an abstract mail history for `AgentFeedback`, with its failures and days, and the refinement.

## 3. Runs

| Run | Question | Instance |
|---|---|---|
| `runtime_safety` | Is one run per job active, is every live child on the books, does overlap need a stop or a crash, is every success earned, do the rows implement the lock? | worker, one operator, 2 runs of one job, one request, a pause and a post that resets the control |
| `runtime_liveness` | Is every active row closed in the end, and does the worker come back to its reapers? | the worker alone, 2 runs of 2 jobs of which one triggers the other, `FairSpec` |
| `decommission_active` | Doc: decommission is blocked while a run is active. Violated. | 1 run |
| `crawl_runs` | Do crawls of a target overlap only for a reason, is every run closed, and counted, once, and closed in the end? | 2 runs, 2 owners, force, crashes, seeding, `FairSpec` |
| `crawl_items` | Does a run count one attempt, do retries stop at the cap, is what waits offered? | 2 runs and one script without a run id, 4 attempts, `FairSpec` |
| `job_schedule` | Is a slot served once, what does a pass start that is no longer due, does what is due stay due and run? | a daily job and 2 interval jobs of which one follows it up, 2 a pass, days of 4 ticks, runs by hand, control posts, one crash, `FairSpec` |
| `ship_pause` | Is the proof quiet, is a marker cleared by its own ship, does the worker resume? | 2 ships, 2 jobs a pass, 4 ticks, `FairSpec` |
| `gate_lock` | What does an overlap need, does a child wait for its parent, does every contender settle? Is it a mutex with guests until then? | 3 checks, one a child of another, 4 ticks, `FairSpec` |
| `gate_overlap` | Doc: heavy proof attempts do not overlap. Violated. | 2 checks that nobody kills |
| `feedback` | Who may be mailed twice, and when? Does the ledger say what happened? | 1 job run, 1 approved send, 2 reminder runs, 2 answers, 3 days, 2 slots |
| `reminder_slot` | Doc: no duplicate reminders for a slot. Violated. | as above, 2 days |
| `action_router` | One route an item, one record a route, applied as reviewed? Do the transactions amount to a book of routes? | 1 item, 2 variants, 2 proposing runs, 2 reviewers |

What the passing runs show. The unique index is what keeps two runs of one job apart, and it does so under any order
of transactions. `LiveChildIsOnTheBooks` is the reaper's contract: although it goes by age alone, it never fails a run
whose runner lives, because the budget's grace covers the start and the kill escalation. `SuccessIsEarned` survives
every order of stop, reap, timeout and exit. Each property has a mutant of the code that breaks it in the same run (no
unique index, a reaper without grace, a terminate without kill, a success by exit code alone, a metadata write that
reopens the row, a reaper that looks only at owned rows, a timeout without escalation).

The schedule serves each slot once although `finished_at` is set by failed and reaped runs and the pass acts on old
decisions. A pass may start a job that is no longer due: if since the selection an operator has run it, if the forced follow-up of
an earlier job of the same pass has, or if a control post has made it manual or its interval longer. `StaleOnlyIfOvertaken` says
that nothing else does it, that every other start of the worker's is the follow-up of a run it has just closed, and that a pass
starts nothing that is paused or decommissioned by then. A daily job that has never run is the exception in two properties: its slot is taken from the day of
the check, so it loses that day when the worker is down from the slot to midnight. `DueJobRuns` shows that the head of the
list starves nobody in an instance where the jobs, follow-ups included, need less time than there is; with more work than time it does not hold,
which is why it is about the instance and not a theorem.

The ship pause keeps its proof quiet by the order of its steps: marker first, restart second, so that a pass that had read
"no marker" is gone; the mutant without the restart breaks it. Where nothing is restarted, on hosts other than macOS, the promise is not made. Two ships at once break the quiet of the first (`overlapped`), and a
ship between another one's read and removal may lose its marker (`raced`); nothing in the code serializes ship gates.

The gate lock withstands every order of calls in which no contender meets a directory without its owner file, no check is
killed, no lock grows older than `staleMs` and no owner leaves before the check it let in. Each of the four is reachable
(`gate_overlap` shows the first). Whatever happened, a dead owner's lock is cleared and every contender comes to an end.

Agent feedback mails the initial request twice only if Gmail fails a message it delivers, whatever crashes and whichever write
fails; a slot is reminded twice only by a run that took over a pending row. After the day of the answer the job is silent,
although the sender's late write may set ClickUp back to Requested.

A route is reviewed by several transactions and stays consistent because each one asks for the status it needs under a row
lock: one record a route, no reopening, and what a request applies goes where its reviewer saw it go unless somebody
changed it in between (`crossed`). `OneRoutePerItem` and `RoutedItemsStay` need that proposals and synthesis do not run side
by side (`overlapped`): the worker's serial pass gives that to scheduled runs, nothing gives it to runs by hand. An answer is final for a
route's status, destination and payload; a late proposal still merges its metadata into the answered row and sets `updated_at`.

In the crawl runtime, the lease time (budget plus 60 s) keeps the crawls of a target apart although the reaper also fails
runs by age, because it leaves a live lease alone; and the two finishes of a process, a late one after the reaper, and
forced leases under one owner never count a run twice. Its mutants: a reaper that
clears live leases or does not look at the status, a finish that does not, and a reaper that goes by the target's lease
instead of the run's (which never closes a run whose target somebody else has leased). `WaitingEnds` guards the retry time
that is *kept* by classifications: its mutant computes it anew, and an item that is classified often enough waits for ever.

What the violations show.

* *decommission_active*: the route's check uses a snapshot and its write is a separate transaction.
  The mirror image, a runner that reads the control row (`run-foundation-job.mjs:135`) before a decommission is written and
  inserts its row (`:169`) after it, is a behaviour of the same model.
* *gate_overlap*: a contender whose `mkdir` fails between the owner's `mkdir` and its owner file takes the directory for one
  with a dead owner of age `staleMs + 1`, removes it, and both run. The same happens to a contender that reads the owner file
  while a release is removing the directory.
* *reminder_slot*: both runs insert, one row results, and the run that did not insert it goes on because the row it gets is
  still pending.

Further divergences, met while modelling and described here without a run of their own:

* `finishFoundationJobRun` (`foundation-runtime-job-store.js:943`) looks at no status, so the runner's own finish follows the
  stop's `cancelled` and overwrites it with `failed`, or with `succeeded` when the child handled SIGTERM and exited 0
  (`docs/process/system-010-ghost-closeout-001-plan.md:142`: "Stop attempts to terminate one active run/process safely and
  records the result.").
* `upsertSourceCrawlTarget` (`foundation-source-crawl-store.js:876`) writes the lease columns with the NULLs of its input. A
  running crawl's finish is then refused, and its target can be leased to a second run without force
  (`docs/process/extract-run-hardening-001-plan.md:51`: "Target run: one leased execution").
* The crawl reaper (`foundation-source-crawl-store.js:808`) fails a run without the retirement update that a finish makes, so
  the streak goes on (`docs/process/extract-retire-001-plan.md:21`: "Failed or partial runs reset the clean-run streak").
* A stored time of the next retry is kept (`extraction-run-hardening.js:224`), so that after a failed retry it is past and the item
  is eligible at once (`docs/process/extract-run-hardening-001-plan.md:217`: "On second failed attempt, set
  `next_retry_at = failed_at + 60 minutes`.").
* The error is the last text the classification looks at (`extraction-run-hardening.js:104`): an item written before keeps its
  first reason, and the meeting sync sends one failure class with every error, so an access failure is retried
  (`docs/process/extract-run-hardening.md:34` lists access failures among the blocked).
* A marker of which only a part was written has no expiry and pauses the worker until somebody removes it
  (`ship-gate-worker-live-job-pause.js:107`; `docs/process/ship-gate-worker-live-job-pause-001-plan.md:41`: "The marker clears in
  `finally` and expires automatically if interrupted."). `WorkerResumes` therefore asks for a marker that parses.
* A reroute writes type, destination and payload of a route together (`intelligence-action-router.js:1095`), the upsert of a proposal
  refreshes the payload alone (`:791`). Of two proposals that have both selected an item, the second one's upsert therefore puts the payload of
  the proposed destination back into a route that was rerouted after the first one's, and the route is applied to one destination with the
  payload made for another. No document says what should happen; `AppliedAsReviewed` exempts the payload after such an overlap.
* With `--maxJobs` above 1 the worker runs `intelligence-synthesis-spine-refresh` twice in one pass if a job before it in the pass triggers it
  (`synthesis-router-freshness-trigger.js:495`) and the pass has selected it, too. No document excludes that;
  `StaleOnlyIfOvertaken` counts the job as overtaken.

Hazards without a property: the stop route's pid may have been reused (`runtime-process-control.js:626`); a grandchild that keeps
the pipes holds the runner for ever (`run-foundation-job.mjs:248`); a control post that names only some columns sets the others to
NULL (`foundation-runtime-job-store.js:799`), and no document says what it should keep; changes to and from summer time
(`foundation-jobs.js:100`); the ClickUp writeback of an answer sets three fields in three calls (`agent-feedback-clickup.js:130`); a
route whose apply fails stays approved and cannot be rerouted (`strategy-shared-comms-routes.js:764`); nothing wakes a snoozed
item (`intelligence-action-router.js:1259`); two proposals may lock rows in opposite orders, and the database then ends one
(`ProposeFails`).

### Bounds

* Two runs of one job suffice for every pairwise property (one active, overlap, lock). Run ids are used up: a row is never deleted by this code, so an id is used once, and
  the second run is the retry, the follow-up or the competitor of the first.
* `MaxRuntime = 1`, `KillDelay = 1`, `StartSlack = 1`, `Grace = 2`: the smallest values under which start,
  budget, kill and staleness are different instants and the assumption `StartSlack + KillDelay <= Grace` is tight. The
  real ones are 300 s of grace against 5 s of kill delay and a create write of at most a few retries.
* Ages and timers stop one tick after the last value anything compares to; nothing else is cut.
* One dashboard request at a time in `runtime_safety`: two stops of a run differ only in a second `cancelled`. The
  theorems have no such bound.
* `WorkerSleep` lets the worker drop a selected job when the instance has no run id left; the code has no such case.
* `RunSymmetry` is used in `runtime_safety` only, which checks no liveness; nothing distinguishes run ids there.
* `decommission_active` needs one run.
* `crawl_runs`: two runs, the lease's holder and one that lost it or takes it.
  `LeaseTime = 4` is the smallest that exceeds `StartSlack + Budget + KillDelay = 3`, which `CrawlRunnerAssumption` asks for
  (60 s against 5 s and a start); `StaleTime = 3` lets the age threshold come before the end of a lease, and above `StartSlack`,
  as five minutes are above a start. Ages stop at the
  threshold and the streak at `CleanRunThreshold = 1`, the values they are compared with. Each run has one process and is
  leased once. The theorems have any number of runs.
* `crawl_items`: `AttemptBound = 4` is one more than the cap, `MaxBackoff = 3` is below the uncapped second backoff, so that
  each limit is met. Two runs interleave; a third could not raise or write anything the first two cannot.
* `job_schedule`: `Day = 4` leaves room for a slot, a run, a reaped run (`Dur + Grace`) and a slot that is missed; intervals of 2 and 3
  make both interval jobs come due together with the daily one while a pass takes two. The daily job comes between them, so that its
  follow-up, the last job, may be in the same pass behind it, and that job's control is posted in every mode and with a shorter
  interval. In the code the chain has two links (source family, synthesis, proposals); the instance has one, the theorems any. The
  daily job alone is run by hand, since that is the one whose slots are counted. `Grace = 0` reaps a run the tick after its budget. `MaxCrashes`
  bounds the worker's deaths, since under unbounded crashes nothing has to run. `since` and `elapsed` stop at the last value the due rule,
  under the longest interval posted, and the reaper can tell apart. Two runners of operators that have yet to follow up runs of one job
  count as one in `finishing`, which loses the second one's follow-up only.
* `ship_pause`: two ships are every pairwise interference; `Ttl = 1` lets the marker expire under the proof, `LastTick = 4` leaves both
  ships time to write (`now + Ttl < LastTick`) and every marker time to expire. `MaxJobs = 2` has a job selected and not started.
* `gate_lock`: three checks are an owner, its child and a rival. `Timeout = 1 < Stale = 2 < LastTick = 4`: waiting can end before a
  lock is old, and a lock can get old. A check starts only while its timeout fits (`Start`).
* `feedback`: two slots on consecutive days, `MaxAge = 2` and `LastDay = 2`: a slot missed, due and too old. Runs do not last over
  midnight (`NextDay`), as the send window asks.
* `action_router`: one item, because items meet only in the computed id, which two routes of one item share as well; two variants of
  which one goes to a table and one to the shelf. Reviews repeat without bound; records do not, since a route is applied once.
* Deadlock is checked everywhere but in `gate_lock` and `gate_overlap`, where all checks end and the clock stops.

### Fairness

`FairSpec` assumes what the deployment gives. `WF(WorkerStep)`: launchd keeps the worker alive and its loop goes on.
`WF(Progress(p))`: a live runner takes the steps its event loop owes, unless it dies first. `WF(Clock)`: time passes.
`SF(WorkerReap)`: the reaper's transaction may fail any number of times, and with it the pass, but not for ever.
Nothing is assumed of children (they may never exit by themselves or ignore SIGTERM), of operators, of requests, nor
that crashes stop. The crawl runtime's `FairSpec` has `WF(WorkerReap)`, `WF(Tick)` and `WF(RunStep(r))` for the same reasons, and
nothing about leases, seeding, children or crashes; `CrawlItems`' has `WF(Tick)` alone. `JobSchedule` assumes that the worker goes on and is
restarted, that runs end (their runner kills them) and that time passes; `ShipGate` that the worker, the clock and a ship that
is not killed go on; `GateLock` that a check that is not killed is scheduled and its operation ends. Where a clock is bounded, `WF`
of its tick carries it to the bound, and starts are allowed only while their deadlines lie before it.
`LockReleased` is thus the promise that no crash, lost answer or failed write blocks a job for ever.

## 4. Abstractions

* Titles, output tails, error text, durations and change events: nothing reads them to decide.
* In `FoundationRuntime`, due-ness (`JobSchedule`), the ship pause (`ShipGate`) and the worker's `--job` option: the worker may select any enabled scheduled job whose latest
  run is not active, or none; so every selection the code makes is among the model's.
* The create write's retries: a retried transaction that failed leaves nothing, so the model has the attempt that counts
  (`RunnerBegin`), failure for good, and a commit whose answer is lost.
* Crawl targets do not meet: each transaction but the reaper's touches one, and the reaper treats each on its own. Cursors,
  metadata (but for the streak) and `next_run_at` are left out; a run's deltas are its own, although the code falls back on the
  artifact counts of the whole source, which two targets of one source would share.
* The scripts that lease a target of their own and finish it without a child (`run-youtube-creator-daily-watch.mjs` and
  the approval-bound proofs) use the same transactions and are not processes of the model.
* Items are never leased: `leaseRetryableSourceCrawlItems`, `markSourceCrawlItemAttemptStarted` and `...Finished` have no
  caller in the repository, and the item reaper finds nothing to do.
* A target's own `maxAttempts` would be ignored, since the row's column default comes first; no target sets one, and the
  model has the row's cap only.
* A live runner acts in time (`InTime`). A suspended host, whose timers stop while the wall clock runs, is outside the
  model; it would let the reaper fail a run that then goes on.
* A recorded pid is taken to be the run's own child: reuse of process ids is outside the model, and so is a grandchild
  that keeps the pipes open after the child has gone.
* In `JobSchedule`, whether a follow-up is called for is nondeterministic: the run's success, the environment variable that turns the trigger
  on, the watermarks of the source families and the debounce are left out. `Jobs` are those that the posture guard lets on the
  schedule and that have an interval; runners of operators do not die, as the worker's death leaves the same row to the reaper.
* `ShipGate` is about macOS, where `launchctl` restarts the worker. Elsewhere the restart is skipped and the proof goes on under the marker alone
  (`process-foundation-ship.mjs:170`); with `--skipRuntimeRestart` no marker is written (`:341`) and nothing is paused.
* `ShipGate` takes the proof's checks as one step, and jobs as steps without effect; children that outlive the restart are
  `FoundationRuntime`'s orphans and are not paused by the code either. The marker's content is one write of a file, torn or whole.
* `GateLock` has no re-entry within one process (an AsyncLocalStorage token), which takes no step on the lock, and takes the
  recursive removal of the directory as one step; a release seen half-way is the "gap" of a directory without its owner file.
* `AgentFeedback` has one agent and milestone; candidates are independent rows. Internal notifications, the per-run cap and the
  repair functions, which only people call, are left out. The links of all delivered mails are usable, as the code checks a
  signature and the response only.
* `ActionRouter` leaves out owners, texts, confidence and the check of verified facts, which only refuses; ids are per table,
  and the records that other writers insert into the destination tables are left out. So are the metadata and `updated_at` that the upsert of a
  proposal writes into every row, an answered one included (`intelligence-action-router.js:795`), which no modelled decision reads.
* `ActionRouter`'s items are clustered ones. Synthesis's first statement (`intelligence-synthesis.js:1299`) archives items of before clustering, or marks
  them routed where they have a guarded route; no proposal selects such an item. One synthesis transaction is open at a time: the
  job's row keeps two runs of the refresh apart, and a synthesis script started directly beside it is left out.
* Transactions that fail at once leave nothing; a transaction's failure is a step where something was held in between.
* The snapshot a route reads is one query; the routes' checks that look at code versions only refuse (`RequestAbort`).

## 5. Proofs

The first part of `FoundationRuntimeProofs` is about the ledger alone and needs no more than that a run id belongs to one
job: `LedgerTypeOK /\ OneActiveRunPerJob` is inductive over any set of jobs and runs. `LedgerImplementsLock` maps each
transaction to an `Acquire`, a `Release` of the runs it closes, or a stutter of `JobLock`.

The second part proves that `RuntimeInv` is inductive, action by action (one lemma per action, one step per
group of conjuncts). `LiveChildIsOnTheBooks` is not inductive: the reaper's step preserves it only if what it has selected
is unsupervised (`DoomedOK`), which at the time of the selection follows from time: a supervised live child implies
`age <= StartSlack + timer` (`ArmedOK`), `timer <= MaxRuntime + KillDelay` (`ClockOK`, from the kill), and the grace
covers the rest (`RunnerAssumption`). After the selection it stays so, because no runner picks up a run that has a row
(`StartOK`, `CurOK`). From the invariant follow:

| Theorem | States |
|---|---|
| `LedgerTypeCorrect`, `OneActiveRun`, `LedgerImplementsLock` | the ledger keeps its types, one active run per job, and implements the lock, whoever calls it |
| `TypeCorrect` | `Spec => []TypeOK` |
| `RefinesLedger` | `Spec => LedgerSpec`: the runtime is a client of the ledger |
| `RuntimeImplementsLock` | `Spec => ImplementsLock` |
| `ChildOnTheBooks` | `Spec => []LiveChildIsOnTheBooks` |
| `NoOverlap` | `Spec => []OverlapNeedsStopOrCrash`, from the previous one and `OneActiveRun` through the refinement |
| `SuccessEarned` | `Spec => []SuccessIsEarned` |
| `ChildrenEndInTime` | a child that has not lost its runner is supervised and no older than `StartSlack + MaxRuntime + KillDelay` |

`CrawlRunnerProofs` first proves one lemma per transaction: `StoreInv` (types, no deltas on open rows, and the counters equal
to the cardinality of the runs with work, with the streak below that of the clean ones) is kept, and closed rows are left
alone, whoever issues it; a finish adds exactly its run to one of the two sets. The processes' steps are then transactions or
leave the store alone. `OverlapNeedsLostLease` rests on `CoverOK`: a process that waits for its child and has not lost its lease still holds it,
because before the spawn `leaseLeft + age = LeaseTime` and after it `leaseLeft + StartSlack + timer >= LeaseTime`, which the child's
death at `Budget + KillDelay` leaves above zero; and the reaper's threshold (`StartSlack < StaleTime`) does not reach a process
that has yet to spawn. `CrawlItemsProofs` strengthens `OncePerRun` by "a run that has raised the counter has an attempt row"
and `OfferedIsRetryable` by "what is classified retryable is a failure below the cap". Its `TypeOK` bounds the wait by
`MaxBackoff`, which needs that a power of the multiplier is a number: `Power` is a function defined by recursion, and what it
returns is proved by taking the least number for which it fails (`Induction`, from the well-foundedness of the naturals and a
set instead of a predicate). The function itself exists because it is the union of its finite tables (`TablesAgree`,
`TablesExist`).

| Theorem | States |
|---|---|
| `CrawlTypeCorrect` | `Spec => []TypeOK` of `CrawlRunner` |
| `RunsCountOnce` | `Spec => []EachRunCountsOnce` |
| `ClosedForGood` | `Spec => ClosedRunsStayClosed` |
| `CrawlsOverlap` | `Spec => []OverlapNeedsLostLease` |
| `RetirementsAreEarned` | a finish stops the target only when its runs include as many clean ones as the threshold asks for, itself among them |
| `ItemTypeCorrect` | `Spec => []TypeOK` of `CrawlItems` |
| `BackoffIsBounded` | the backoff of every attempt is in `1 .. MaxBackoff`; what a row waits may be less, since a stored time is kept |
| `AttemptsCountOnce` | `Spec => []OncePerRun` |
| `OffersAreRetryable` | `Spec => []OfferedIsRetryable` |

`JobScheduleProofs` proves `ScheduleInv`. That a pass takes at most `MaxJobs` jobs (`SelectionIsLimited`) is a fact about the
operator `FirstDue`: the last of the selected jobs in definition order (`Greatest`) has all others before it. A slot is served
once because of `ServedOK`: a daily job that the worker has started since its slot has a run that is active, or ended after the
slot, so it is not due (`SlotFacts`); the modular arithmetic of the local day is in `NextHour`, `SlotAge` and `SlotMoves`.
`QueueOK` says what the rest of a pass may be: each of its jobs is on the schedule and has never run, or ended its last run before its slot or an
interval ago, unless somebody has run it since or its control was written. A run that ends meanwhile is not a run of one of
these, unless somebody has started it since, because an active job is not selected (`RunnerOK`). The worker's other starts are follow-ups (`WhatTheWorkerStarts`), which concern no daily job. That a due job stays due
is `RipensByTime`: time alone does not take that away, but for midnight from a daily job that has never run, as no interval exceeds what is
counted of a job's age (`LongestIsLongest`).

| Theorem | States |
|---|---|
| `ScheduleTypeCorrect` | `Spec => []TypeOK` of `JobSchedule`, with the limit of a pass |
| `SlotServedOnce` | `Spec => OncePerSlot` |
| `StaleIfOvertakenOnly` | `Spec => StaleOnlyIfOvertaken` |
| `DueStaysDue` | `Spec => DueIsKept` |

`GateLockProofs` first proves what holds however the lock was provoked (`ProcessStep`: which places in the code hold a token, and
which token a child inherits), then, while nothing is provoked, that the owner file names the one check that holds the lock
(`LockOK`). A contender's `Judge` then finds the owner alive and young (`UnprovokedJudge`), so nobody removes. `GateImplementsMutex` maps `holding` to `Enter` and `Exit`, re-entry to
`Admit` and `Leave`, and any step that provokes, or that follows one that did, to `Break`; that nobody enters a taken lock is
`LockOK`, that no guest is left behind is the fourth provocation.

`ShipGateProofs` has one invariant per question. `MarkerOK`: what a ship in its window can find at the path. `WholeOK`: without an
overlap a whole marker is that of a ship which has yet to clear it, or was killed. `QuietOK`: during a proof whose marker is in
force and which nobody overlapped the worker is in no pass. The last holds from the restart
on, which ends every pass that had read "no marker"; before it the marker alone promises nothing.

`ActionRouterProofs` proves `RouterInv`, which relates each request's plan to the route it was read from (`ReviewOK`, `LockedOK`,
`LookOK`), the records to the applied routes (`RecordsOK`), and open transactions to each other (`SerialOK`, `ItemOK`,
`SynthesisOK`, `SelectedOK`, `PayloadOK`). The steps fall into a few kinds, each with a lemma: those that change a route's status
(`RouteStep`), those that make a route (`RouteMade`), and those that change an item (`ItemStep`, `OpenStep`). `RouterImplementsBook` uses the same invariant: an apply's insert maps to
`Apply` because its route is still approved and in its place when the row lock is held (`LockedOK`), a proposal to `Propose` of
the routes that did not exist (`BookProposes`), and all other steps, the refreshed payloads of pending routes included, to nothing.

`AgentFeedbackProofs` proves `FeedbackInv`: `SenderOK` and `ReminderOK` say at each place in the code what the run's row and its mails are,
`SlotOK` that of two runs with one slot in hand one took the other's row over, `TimeOK` and `CadenceOK` how plans, mails and rows are
ordered in days. `SenderMoves`, `ReminderMoves` and `OtherMoves` state once what a step of each kind may change, and the conjuncts are
proved from these rather than from the actions.

| Theorem | States |
|---|---|
| `GateTypeCorrect`, `ShipTypeCorrect`, `RouterTypeCorrect`, `FeedbackTypeCorrect` | `Spec => []TypeOK` of the four modules; as with `TypeCorrect` and `CrawlTypeCorrect`, their runs do not list it, since it is proved |
| `GateImplementsMutex` | `Spec => ImplementsMutex` |
| `OverlapProvoked` | `Spec => []OverlapIsProvoked` |
| `ChildPasses` | `Spec => []ChildPassesItsParent` |
| `MarkerSurvives` | `Spec => []ForeignMarkerSurvives` |
| `FinallyClears` | `Spec => []FinallyClearsMarker` |
| `ProofQuiet` | `Spec => ProofIsQuiet` |
| `RoutesPerItem`, `RoutedStay` | `Spec => []OneRoutePerItem`, `Spec => []RoutedItemsStay` |
| `RecordsPerRoute` | `Spec => []OneRecordPerRoute` |
| `AnswersFinal`, `AppliedReviewed` | `Spec => AnswersAreFinal`, `Spec => AppliedAsReviewed` |
| `RouterImplementsBook` | `Spec => ImplementsBook` |
| `OneRequest` | `Spec => []OneInitialMail` |
| `HonestLedger` | `Spec => []LedgerIsHonest` |
| `CadenceKept` | `Spec => []RemindersKeepCadence` |
| `AnswerIsTheEnd` | `Spec => []AnswerEndsMail` |
| `SecondIsAdopted` | `Spec => []SecondReminderIsAdopted` |

Liveness itself is out of the prover's reach, but each argument for it has a part that is an action property: what is waited
for stays on its way, and the helpful step leads there. These parts are theorems, so that what TLC shows of a liveness property
on a small instance rests, for any constants, on fairness alone.

| Liveness | Its part that is proved |
|---|---|
| `LockReleased` | `ActiveRunsAge`: no crash, lost answer, failed write or stop sets an active run's clock back, a tick moves it until it is stale, a reaper that selected it closes it |
| `RunsAreClosed` | `OpenRunsExpire`: nothing lengthens the lease of an open run, each tick shortens it; stale it stays, and the reaper leaves none |
| `WaitingEnds` | `WaitsNeverGrow`: no write or classification begins a retryable item's wait anew, each tick shortens it |
| `WorkerResumes` | `PausesAreShort`, `PausesRunOut`: no marker lasts longer than its time to live, and after the last ship a worker that is free stays free |
| `ContenderSettles` | `ExpiredGoOut`: a contender's time is not given back, and one whose time is over is at most four calls from giving up |
| `DueJobRuns` | `DueStaysDue` |

`JobLock`, `CheckMutex` and `RouteBook` are the three abstract specifications, each shown to be implemented by TLC and by proof.

The assumptions are `LedgerAssumption`, `RunnerAssumption`, `RuntimeAssumption`, `CrawlAssumption`, `CrawlRunnerAssumption`,
`CrawlItemsAssumption`, `ScheduleAssumption`, `GateAssumption`, `ShipAssumption`, `RouterAssumption`, `StoreAssumption` and `FeedbackAssumption`; TLC evaluates them
on every run. Most only keep names apart. Those that carry weight are about time: `StartSlack + KillDelay <= Grace` of the job
runner, `StartSlack + Budget + KillDelay < LeaseTime` and `StartSlack < StaleTime` of the crawl runtime.

## 6. Only model-checked

* The liveness properties `LockReleased`, `WorkerKeepsReaping`, `RunsAreClosed`, `WaitingEnds`, `DueJobRuns`, `WorkerResumes`,
  `DeadLockIsCleared` and `ContenderSettles`: they need fairness and ENABLED, which this prover does not handle (their action parts are proved, section 5).
  Every invariant and every action property of the runs is a theorem.
* The violations are counterexamples and need no proof.

## 7. Running

In this directory: `tlc -config runtime_safety.cfg MCFoundationRuntime` (the module of each run is in
`PROJECT.json`), `tlapm FoundationRuntimeProofs.tla` and likewise the other `*Proofs` modules.

## 8. Not modelled

* The modules that the plan has left (section 2): the LLM call ledger with its reaper in the worker's pass, the decisions and the
  sprint. The pass's source-crawl reaper is `WorkerReap` of `CrawlRunner`, a model of its own beside `FoundationRuntime`, since the
  two share no state but the worker's time.
* Synthesis, retrieval and ranking: language-model output and text. Connectors: calls to external services and the mapping
  of payloads. Verifiers, closeouts and readbacks: they read and report. The front end. None has a protocol to check.
