---------------------------- MODULE CrawlRunner ----------------------------
(***************************************************************************)
(* The processes that execute crawl runs (src/scripts/                     *)
(* run-extraction-target.mjs) on one target, with the worker's reaper and  *)
(* the scripts that upsert the target.  A process leases the target, which *)
(* gives it its run, spawns a detached child, kills it when its budget is  *)
(* over, and finishes the run; whatever fails after the spawn leads to a   *)
(* second finish as failed.  Any number of processes may be alive: the     *)
(* worker's job, an operator's command, a forced retry.                    *)
(*                                                                         *)
(* Time is counted in ticks.  A process that is alive acts in time: it     *)
(* spawns its child within StartSlack, its timers fire when due, and its   *)
(* first finish follows the child's end within the tick.                   *)
(***************************************************************************)
EXTENDS SourceCrawl, FiniteSets

CONSTANTS
  Budget,       \* maxRuntimeSeconds of the target
  KillDelay,    \* from SIGTERM to SIGKILL
  StartSlack,   \* from the lease to the spawn, at most
  Forces,       \* values --force may have
  Seeds         \* modes an upsert of the target may set

\* leaseSeconds is maxRuntimeSeconds + 60: the lease covers the start and the
\* kill escalation (5 s).  The reaper's threshold is five minutes or more.
ASSUME CrawlRunnerAssumption ==
  /\ Budget \in Nat \ {0}
  /\ KillDelay \in Nat /\ StartSlack \in Nat
  /\ StartSlack + Budget + KillDelay < LeaseTime
  /\ StartSlack < StaleTime
  /\ Forces \subseteq BOOLEAN
  /\ Seeds \subseteq {"open", "stopped"}

VARIABLES
  pc,         \* where each run's process is in main
  child,      \* its child: its life and its exit code, until the close event
  orphans,    \* runs whose live child has lost its process
  timer,      \* ticks since the spawn, while the process waits for the child
  timedOut,   \* the timeout has fired
  outcome,    \* what the close event resolved to, until the process is done
  lost        \* history: waiting processes whose live lease was taken away

procVars == <<pc, child, orphans, timer, timedOut, outcome, lost>>
vars == <<crawlVars, procVars>>

\* closing: the finish in the try block is due; failing: the one in the catch.
ProcPcs == {"idle", "leased", "running", "closing", "failing", "done"}

KillAt == Budget + KillDelay

TypeOK ==
  /\ CrawlTypeOK
  /\ pc \in [Runs -> ProcPcs]
  /\ child \in [Runs -> {"none", "alive", "ok", "bad"}]
  /\ orphans \subseteq Runs
  /\ timer \in [Runs -> 0 .. KillAt]
  /\ timedOut \in [Runs -> BOOLEAN]
  /\ outcome \in [Runs -> {"none", "succeeded", "failed"}]
  /\ lost \subseteq Runs

Init ==
  /\ CrawlInit
  /\ pc = [r \in Runs |-> "idle"]
  /\ child = [r \in Runs |-> "none"]
  /\ orphans = {}
  /\ timer = [r \in Runs |-> 0]
  /\ timedOut = [r \in Runs |-> FALSE]
  /\ outcome = [r \in Runs |-> "none"]
  /\ lost = {}

-----------------------------------------------------------------------------
(* History *)

\* Whoever holds a live lease, other than r, loses it to r's transaction.
LeaseLostTo(r) ==
  lost' = lost \union
    {q \in {holder} \ {r} : leaseLeft > 0 /\ q # NoRun /\ pc[q] \in {"leased", "running"}}

-----------------------------------------------------------------------------
(* A run's process *)

Go(r, p) == pc' = [pc EXCEPT ![r] = p]

RunLease(r, o, force) ==
  /\ pc[r] = "idle"
  /\ LeaseSourceCrawlTarget(r, o, force)
  /\ Go(r, "leased")
  /\ LeaseLostTo(r)
  /\ UNCHANGED <<child, orphans, timer, timedOut, outcome>>

\* The process is over; what it knew is gone.
Forget(r) ==
  /\ Go(r, "done")
  /\ outcome' = [outcome EXCEPT ![r] = "none"]

\* The lease's answer is lost, or a read or the job record before the try
\* block fails: the process ends without finishing its run.
RunAbandon(r) ==
  /\ pc[r] = "leased"
  /\ Forget(r)
  /\ lost' = lost \ {r}
  /\ UNCHANGED <<crawlVars, child, orphans, timer, timedOut>>

RunSpawn(r) ==
  /\ pc[r] = "leased"
  /\ child' = [child EXCEPT ![r] = "alive"]
  /\ Go(r, "running")
  /\ UNCHANGED <<crawlVars, orphans, timer, timedOut, outcome, lost>>

\* The child's error event.
RunSpawnError(r) ==
  /\ pc[r] = "leased"
  /\ outcome' = [outcome EXCEPT ![r] = "failed"]
  /\ Go(r, "closing")
  /\ lost' = lost \ {r}
  /\ UNCHANGED <<crawlVars, child, orphans, timer, timedOut>>

\* SIGTERM, which the child may ignore.
RunTimeout(r) ==
  /\ pc[r] = "running"
  /\ timer[r] >= Budget /\ ~timedOut[r]
  /\ timedOut' = [timedOut EXCEPT ![r] = TRUE]
  /\ UNCHANGED <<crawlVars, pc, child, orphans, timer, outcome, lost>>

RunKill(r) ==
  /\ pc[r] = "running" /\ timedOut[r]
  /\ timer[r] >= KillAt
  /\ child[r] = "alive"
  /\ child' = [child EXCEPT ![r] = "bad"]
  /\ UNCHANGED <<crawlVars, pc, orphans, timer, timedOut, outcome, lost>>

\* The timers are cleared.
StopWaiting(r) ==
  /\ timer' = [timer EXCEPT ![r] = 0]
  /\ timedOut' = [timedOut EXCEPT ![r] = FALSE]
  /\ lost' = lost \ {r}

RunClose(r) ==
  /\ pc[r] = "running"
  /\ child[r] \in {"ok", "bad"}
  /\ outcome' = [outcome EXCEPT ![r] =
       IF child[r] = "ok" /\ ~timedOut[r] THEN "succeeded" ELSE "failed"]
  /\ child' = [child EXCEPT ![r] = "none"]
  /\ Go(r, "closing")
  /\ StopWaiting(r)
  /\ UNCHANGED <<crawlVars, orphans>>

\* Item failures make a success partial.
Reported(r) == IF outcome[r] = "succeeded" THEN {"succeeded", "partial"} ELSE {"failed"}

\* A finish by run r with status s: done, repeated, or refused.
Finish(r, s, eligible) ==
  \/ /\ \E d \in {0, 1} : FinishSourceCrawlTargetRun(r, s, d, eligible)
     /\ LeaseLostTo(r)
  \/ (FinishIsBlocked(r) \/ FinishIsRepeated(r)) /\ UNCHANGED <<crawlVars, lost>>

ToCatch(r) == Go(r, "failing") /\ UNCHANGED outcome

\* The item classification and the job record that follow may fail, and so
\* may the answer of a finish that is committed: both lead to the catch block,
\* as a refused finish does.  Only exact-item runs may not retire the target.
RunFinish(r) ==
  /\ pc[r] = "closing"
  /\ \E s \in Reported(r), eligible \in BOOLEAN : Finish(r, s, eligible)
  /\ ToCatch(r) \/ (~FinishIsBlocked(r) /\ Forget(r))
  /\ UNCHANGED <<child, orphans, timer, timedOut>>

\* The catch block; its own failure is only logged.
RunFailFinish(r) ==
  /\ pc[r] = "failing"
  /\ Finish(r, "failed", TRUE)
  /\ Forget(r)
  /\ UNCHANGED <<child, orphans, timer, timedOut>>

\* The statistics read or the finish itself fails.
RunFinishFails(r) ==
  /\ (pc[r] = "closing" /\ ToCatch(r)) \/ (pc[r] = "failing" /\ Forget(r))
  /\ UNCHANGED <<crawlVars, child, orphans, timer, timedOut, lost>>

\* The child is detached and survives its process.
RunCrash(r) ==
  /\ pc[r] \notin {"idle", "done"}
  /\ Forget(r)
  /\ orphans' = IF child[r] = "alive" THEN orphans \union {r} ELSE orphans
  /\ child' = [child EXCEPT ![r] = IF @ = "alive" THEN @ ELSE "none"]
  /\ StopWaiting(r)
  /\ UNCHANGED crawlVars

RunStep(r) ==
  \/ RunAbandon(r) \/ RunSpawn(r) \/ RunSpawnError(r)
  \/ RunTimeout(r) \/ RunKill(r) \/ RunClose(r)
  \/ RunFinish(r) \/ RunFailFinish(r) \/ RunFinishFails(r)

\* Nobody sees how an orphan ends.
ChildExit(r) ==
  /\ child[r] = "alive"
  /\ \E s \in (IF r \in orphans THEN {"none"} ELSE {"ok", "bad"}) :
       child' = [child EXCEPT ![r] = s]
  /\ orphans' = orphans \ {r}
  /\ UNCHANGED <<crawlVars, pc, timer, timedOut, outcome, lost>>

-----------------------------------------------------------------------------
(* The worker, the seeding scripts, time *)

\* Reaped leases are over, so nobody loses one that is live.
WorkerReap ==
  /\ MarkStaleSourceCrawlTargetRuns
  /\ UNCHANGED procVars

SeedTarget ==
  /\ \E m \in Seeds : UpsertSourceCrawlTarget(m)
  /\ LeaseLostTo(NoRun)
  /\ UNCHANGED <<pc, child, orphans, timer, timedOut, outcome>>

InTime(r) ==
  /\ pc[r] = "leased" => age[r] < StartSlack
  /\ pc[r] = "running" =>
       /\ child[r] = "alive" /\ timer[r] < KillAt
       /\ timer[r] >= Budget => timedOut[r]
  /\ pc[r] # "closing"

Tick ==
  /\ \A r \in Runs : InTime(r)
  /\ CrawlTick
  /\ timer' = [r \in Runs |-> IF pc[r] = "running" THEN timer[r] + 1 ELSE timer[r]]
  /\ UNCHANGED <<pc, child, orphans, timedOut, outcome, lost>>

Next ==
  \/ \E r \in Runs : \/ \E o \in Owners, force \in Forces : RunLease(r, o, force)
                     \/ RunStep(r) \/ RunCrash(r) \/ ChildExit(r)
  \/ WorkerReap
  \/ SeedTarget
  \/ Tick

Spec == Init /\ [][Next]_vars

\* The worker's reaper comes round again, live processes go on and time
\* passes.  Nothing is assumed of children, seeds, leases or crashes.
FairSpec ==
  /\ Spec
  /\ WF_vars(WorkerReap)
  /\ WF_vars(Tick)
  /\ \A r \in Runs : WF_vars(RunStep(r))

-----------------------------------------------------------------------------
(* Properties *)

Crawling(r) == child[r] = "alive"

\* Two crawls of the target at once need a lease that was taken away while it
\* ran (force, an upsert, another run's finish), or a process that died.  The
\* lease outlasts the child, and the reaper leaves a live lease alone even
\* when it fails the run.
OverlapNeedsLostLease ==
  \A p, q \in Runs :
    p # q /\ Crawling(p) /\ Crawling(q) => {p, q} \intersect (lost \union orphans) # {}

\* The target's counters are the sum of its runs' deltas and its streak is no
\* longer than its clean runs, although runs are finished twice, late, after
\* a reaper, or under a lease that is somebody else's.
EachRunCountsOnce ==
  /\ counted = Cardinality({r \in Runs : delta[r] = 1})
  /\ streak <= Cardinality({r \in Runs : status[r] = "succeeded" /\ delta[r] = 0})

\* A closed run keeps its status and its deltas: neither a second finish nor
\* the reaper rewrites it.
ClosedRunsStayClosed ==
  [][\A r \in Runs : status[r] \in ClosedStatus =>
       status'[r] = status[r] /\ delta'[r] = delta[r]]_vars

\* Every run is closed in the end: processes may crash, give up before their
\* try block or lose their lease to another owner, whose finish refuses theirs.
RunsAreClosed == \A r \in Runs : Open(r) ~> ~Open(r)
=============================================================================
