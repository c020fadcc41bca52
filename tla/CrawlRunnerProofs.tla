------------------------- MODULE CrawlRunnerProofs -------------------------
(***************************************************************************)
(* Theorems about CrawlRunner.  The store's invariant is kept by each of   *)
(* its transactions, whoever issues it; the processes add only types.      *)
(***************************************************************************)
EXTENDS CrawlRunner, FiniteSetTheorems, TLAPS

WithWork == {r \in Runs : delta[r] = 1}
Clean == {r \in Runs : status[r] = "succeeded" /\ delta[r] = 0}

\* Deltas belong to closed runs.
OpenHasNoDelta == \A r \in Runs : status[r] \notin ClosedStatus => delta[r] = 0

CountsOK ==
  /\ IsFiniteSet(WithWork) /\ counted = Cardinality(WithWork)
  /\ IsFiniteSet(Clean) /\ streak <= Cardinality(Clean)

StoreInv == CrawlTypeOK /\ OpenHasNoDelta /\ CountsOK

ProcTypeOK ==
  /\ pc \in [Runs -> ProcPcs]
  /\ child \in [Runs -> {"none", "alive", "ok", "bad"}]
  /\ orphans \subseteq Runs
  /\ timer \in [Runs -> 0 .. KillAt]
  /\ timedOut \in [Runs -> BOOLEAN]
  /\ outcome \in [Runs -> {"none", "succeeded", "failed"}]
  /\ lost \subseteq Runs

\* What a step does to closed rows.
KeepsClosed ==
  \A r \in Runs : status[r] \in ClosedStatus => status'[r] = status[r] /\ delta'[r] = delta[r]

-----------------------------------------------------------------------------
(* Transactions *)

LEMMA StoreInit == CrawlInit => StoreInv
  <1> SUFFICES ASSUME CrawlInit PROVE StoreInv
    OBVIOUS
  <1>1. CrawlTypeOK /\ OpenHasNoDelta
    BY CrawlAssumption DEF CrawlInit, CrawlTypeOK, OpenHasNoDelta
  <1>2. WithWork = {} /\ Clean = {}
    BY DEF CrawlInit, WithWork, Clean
  <1>3. CountsOK
    BY <1>2, FS_EmptySet DEF CountsOK, CrawlInit
  <1> QED
    BY <1>1, <1>3 DEF StoreInv

\* Transactions that leave statuses (but for absent and running ones) and
\* deltas alone keep the counts, if they do not touch the counters either.
LEMMA SameCounts ==
  ASSUME StoreInv, CrawlTypeOK', OpenHasNoDelta',
         WithWork' = WithWork, Clean' = Clean,
         counted' = counted, streak' = streak
  PROVE  StoreInv'
  BY DEF StoreInv, CountsOK

LEMMA LeaseKeeps ==
  ASSUME StoreInv, NEW r \in Runs, NEW o \in Owners, NEW force,
         LeaseSourceCrawlTarget(r, o, force)
  PROVE  StoreInv' /\ KeepsClosed
  <1> USE DEF LeaseSourceCrawlTarget, StoreInv
  <1>1. CrawlTypeOK'
    BY CrawlAssumption DEF CrawlTypeOK
  <1>2. KeepsClosed
    BY DEF KeepsClosed, ClosedStatus, CrawlTypeOK
  <1>3. OpenHasNoDelta'
    BY DEF OpenHasNoDelta, CrawlTypeOK, ClosedStatus
  <1>4. WithWork' = WithWork /\ Clean' = Clean
    BY DEF WithWork, Clean, CrawlTypeOK
  <1> QED
    BY <1>1, <1>2, <1>3, <1>4, SameCounts

\* A finish adds its run to one of the two sets, or to none.
LEMMA FinishKeeps ==
  ASSUME StoreInv, NEW r \in Runs, NEW s \in ClosedStatus, NEW d \in {0, 1},
         NEW eligible \in BOOLEAN,
         FinishSourceCrawlTargetRun(r, s, d, eligible)
  PROVE  StoreInv' /\ KeepsClosed
  <1>1. /\ status[r] = "running" /\ delta[r] = 0
        /\ status' = [q \in Runs |-> IF q \in {r} THEN s ELSE status[q]]
        /\ delta' = [q \in Runs |-> IF q \in {r} THEN d ELSE delta[q]]
        /\ left' = [q \in Runs |-> IF q \in {r} THEN 0 ELSE left[q]]
        /\ age' = [q \in Runs |-> IF q \in {r} THEN 0 ELSE age[q]]
        /\ owner' = owner
        /\ leaseOwner' = NoOwner /\ leaseLeft' = 0 /\ holder' = NoRun
        /\ counted' = counted + d
        /\ streak' = StreakAfter(s, d)
        /\ targetMode' \in {targetMode, "stopped"}
    BY DEF FinishSourceCrawlTargetRun, ActiveRun, Open, CloseRuns, ReleaseLease,
           StoreInv, OpenHasNoDelta, ClosedStatus
  <1>2. CrawlTypeOK'
    BY <1>1, CrawlAssumption DEF StoreInv, CrawlTypeOK, StreakAfter, ClosedStatus
  <1>3. KeepsClosed /\ OpenHasNoDelta'
    BY <1>1 DEF KeepsClosed, OpenHasNoDelta, StoreInv, ClosedStatus
  <1>4. r \notin WithWork /\ r \notin Clean
    BY <1>1 DEF WithWork, Clean
  <1>5. WithWork' = IF d = 1 THEN WithWork \union {r} ELSE WithWork
    BY <1>1 DEF WithWork
  <1>6. Clean' = IF s = "succeeded" /\ d = 0 THEN Clean \union {r} ELSE Clean
    BY <1>1 DEF Clean
  <1>7. IsFiniteSet(WithWork') /\ counted' = Cardinality(WithWork')
    <2>1. IsFiniteSet(WithWork) /\ counted = Cardinality(WithWork) /\ counted \in Nat
      BY DEF StoreInv, CountsOK, CrawlTypeOK
    <2>2. CASE d = 1
      <3>1. WithWork' = WithWork \union {r}
        BY <1>5, <2>2
      <3> QED
        BY <1>1, <1>4, <2>1, <2>2, <3>1, FS_AddElement
    <2>3. CASE d = 0
      BY <1>1, <1>5, <2>1, <2>3
    <2> QED
      BY <2>2, <2>3
  <1>8. IsFiniteSet(Clean') /\ Cardinality(Clean') \in Nat
    BY <1>6, FS_AddElement, FS_CardinalityType DEF StoreInv, CountsOK
  <1>9. streak' <= Cardinality(Clean')
    <2>1. Cardinality(Clean) \in Nat /\ streak \in Nat /\ streak <= Cardinality(Clean)
      BY FS_CardinalityType, CrawlAssumption DEF StoreInv, CountsOK, CrawlTypeOK
    <2>2. CASE s = "succeeded" /\ d = 0
      <3>1. Cardinality(Clean') = Cardinality(Clean) + 1
        BY <1>4, <1>6, <2>2, FS_AddElement DEF StoreInv, CountsOK
      <3> QED
        BY <1>1, <2>1, <2>2, <3>1 DEF StreakAfter
    <2>3. CASE ~(s = "succeeded" /\ d = 0)
      BY <1>1, <1>8, <2>3 DEF StreakAfter
    <2> QED
      BY <2>2, <2>3
  <1> QED
    BY <1>2, <1>3, <1>7, <1>8, <1>9 DEF StoreInv, CountsOK

LEMMA ReapKeeps ==
  ASSUME StoreInv, MarkStaleSourceCrawlTargetRuns
  PROVE  StoreInv' /\ KeepsClosed
  <1> DEFINE S == {r \in Runs : StaleRun(r)}
  <1>1. /\ status' = [q \in Runs |-> IF q \in S THEN "failed" ELSE status[q]]
        /\ delta' = [q \in Runs |-> IF q \in S THEN 0 ELSE delta[q]]
        /\ left' = [q \in Runs |-> IF q \in S THEN 0 ELSE left[q]]
        /\ age' = [q \in Runs |-> IF q \in S THEN 0 ELSE age[q]]
        /\ UNCHANGED <<owner, targetMode, counted, streak>>
        /\ \/ leaseOwner' = NoOwner /\ leaseLeft' = 0 /\ holder' = NoRun
           \/ UNCHANGED <<leaseOwner, leaseLeft, holder>>
    BY DEF MarkStaleSourceCrawlTargetRuns, CloseRuns, ReleaseLease
  <1>2. S \subseteq Runs /\ \A q \in S : status[q] = "running" /\ delta[q] = 0
    BY DEF StaleRun, Open, StoreInv, OpenHasNoDelta, ClosedStatus
  <1> HIDE DEF S
  <1>3. CrawlTypeOK'
    BY <1>1, <1>2, CrawlAssumption DEF StoreInv, CrawlTypeOK, ClosedStatus
  <1>4. KeepsClosed /\ OpenHasNoDelta'
    BY <1>1, <1>2 DEF KeepsClosed, OpenHasNoDelta, StoreInv, ClosedStatus
  <1>5. WithWork' = WithWork /\ Clean' = Clean
    BY <1>1, <1>2 DEF WithWork, Clean
  <1> QED
    BY <1>1, <1>3, <1>4, <1>5, SameCounts

LEMMA UpsertKeeps ==
  ASSUME StoreInv, NEW m \in {"open", "stopped"}, UpsertSourceCrawlTarget(m)
  PROVE  StoreInv' /\ KeepsClosed
  <1> USE DEF UpsertSourceCrawlTarget, ReleaseLease, runRows
  <1>1. CrawlTypeOK' /\ OpenHasNoDelta' /\ KeepsClosed
    BY CrawlAssumption DEF StoreInv, CrawlTypeOK, OpenHasNoDelta, KeepsClosed
  <1>2. WithWork' = WithWork /\ Clean' = Clean
    BY DEF WithWork, Clean
  <1> QED
    BY <1>1, <1>2, SameCounts

LEMMA TickKeeps ==
  ASSUME StoreInv, CrawlTick
  PROVE  StoreInv' /\ KeepsClosed
  <1> USE DEF CrawlTick
  <1>1. leaseLeft' \in 0 .. LeaseTime
    BY CrawlAssumption DEF StoreInv, CrawlTypeOK
  <1>2. left' \in [Runs -> 0 .. LeaseTime] /\ age' \in [Runs -> 0 .. StaleTime]
    BY CrawlAssumption DEF StoreInv, CrawlTypeOK
  <1>3. CrawlTypeOK' /\ OpenHasNoDelta' /\ KeepsClosed
    BY <1>1, <1>2 DEF StoreInv, CrawlTypeOK, OpenHasNoDelta, KeepsClosed
  <1>4. WithWork' = WithWork /\ Clean' = Clean
    BY DEF WithWork, Clean
  <1> QED
    BY <1>3, <1>4, SameCounts

LEMMA SameStore ==
  ASSUME StoreInv, UNCHANGED crawlVars
  PROVE  StoreInv' /\ KeepsClosed
  <1> USE DEF crawlVars, targetRow, runRows
  <1>1. CrawlTypeOK' /\ OpenHasNoDelta' /\ KeepsClosed
    BY DEF StoreInv, CrawlTypeOK, OpenHasNoDelta, KeepsClosed
  <1>2. WithWork' = WithWork /\ Clean' = Clean
    BY DEF WithWork, Clean
  <1> QED
    BY <1>1, <1>2, SameCounts

-----------------------------------------------------------------------------
(* Steps *)

\* Every step of the processes is a transaction or leaves the store alone.
LEMMA StoreNext ==
  ASSUME StoreInv, ProcTypeOK, [Next]_vars
  PROVE  StoreInv' /\ KeepsClosed
  <1>1. CASE \E r \in Runs, o \in Owners, force \in Forces : RunLease(r, o, force)
    BY <1>1, LeaseKeeps DEF RunLease
  <1>2. CASE \E r \in Runs : RunFinish(r) \/ RunFailFinish(r)
    <2>1. PICK r \in Runs, s \in ClosedStatus, eligible \in BOOLEAN : Finish(r, s, eligible)
      BY <1>2 DEF RunFinish, RunFailFinish, Reported, ClosedStatus
    <2>2. \/ UNCHANGED crawlVars
          \/ \E d \in {0, 1} : FinishSourceCrawlTargetRun(r, s, d, eligible)
      BY <2>1 DEF Finish
    <2> QED
      BY <2>2, FinishKeeps, SameStore
  <1>3. CASE \E r \in Runs : \/ RunAbandon(r) \/ RunSpawn(r) \/ RunSpawnError(r)
                             \/ RunTimeout(r) \/ RunKill(r) \/ RunClose(r)
                             \/ RunFinishFails(r) \/ RunCrash(r) \/ ChildExit(r)
    <2>1. UNCHANGED crawlVars
      BY <1>3 DEF RunAbandon, RunSpawn, RunSpawnError, RunTimeout, RunKill, RunClose,
                  RunFinishFails, RunCrash, ChildExit
    <2> QED
      BY <2>1, SameStore
  <1>4. CASE WorkerReap
    BY <1>4, ReapKeeps DEF WorkerReap
  <1>5. CASE SeedTarget
    BY <1>5, UpsertKeeps, CrawlRunnerAssumption DEF SeedTarget
  <1>6. CASE Tick
    BY <1>6, TickKeeps DEF Tick
  <1>7. CASE UNCHANGED vars
    BY <1>7, SameStore DEF vars
  <1> QED
    BY <1>1, <1>2, <1>3, <1>4, <1>5, <1>6, <1>7 DEF Next, RunStep

\* Who loses a lease is a run.
LEMMA LostIsTyped ==
  ASSUME StoreInv, ProcTypeOK, NEW r, LeaseLostTo(r)
  PROVE  lost' \subseteq Runs
  BY DEF LeaseLostTo, StoreInv, CrawlTypeOK, ProcTypeOK

LEMMA ProcNext ==
  ASSUME StoreInv, ProcTypeOK, [Next]_vars
  PROVE  ProcTypeOK'
  <1> USE DEF ProcTypeOK, ProcPcs, Go, Forget, ToCatch, StopWaiting
  <1>1. CASE \E r \in Runs, o \in Owners, force \in Forces : RunLease(r, o, force)
    BY <1>1, LostIsTyped DEF RunLease
  <1>2. ASSUME NEW r \in Runs, RunFinish(r) \/ RunFailFinish(r)
        PROVE  ProcTypeOK'
    <2>1. UNCHANGED <<child, orphans, timer, timedOut>>
      BY <1>2 DEF RunFinish, RunFailFinish
    <2>2. pc' \in [Runs -> ProcPcs] /\ outcome' \in [Runs -> {"none", "succeeded", "failed"}]
      BY <1>2 DEF RunFinish, RunFailFinish
    <2>3. LeaseLostTo(r) \/ lost' = lost
      BY <1>2 DEF RunFinish, RunFailFinish, Finish
    <2>4. lost' \subseteq Runs
      BY <2>3, LostIsTyped
    <2> QED
      BY <2>1, <2>2, <2>4
  <1>3. CASE \E r \in Runs : RunAbandon(r) \/ RunSpawn(r) \/ RunSpawnError(r) \/ RunFinishFails(r)
    BY <1>3 DEF RunAbandon, RunSpawn, RunSpawnError, RunFinishFails
  <1>4. CASE \E r \in Runs : RunTimeout(r) \/ RunKill(r) \/ ChildExit(r)
    BY <1>4 DEF RunTimeout, RunKill, ChildExit
  <1>5. CASE \E r \in Runs : RunClose(r) \/ RunCrash(r)
    <2>1. 0 \in 0 .. KillAt
      BY CrawlRunnerAssumption DEF KillAt
    <2>2. ASSUME NEW r \in Runs, RunClose(r)
          PROVE  ProcTypeOK'
      BY <2>1, <2>2 DEF RunClose
    <2>3. ASSUME NEW r \in Runs, RunCrash(r)
          PROVE  ProcTypeOK'
      <3>1. /\ timer' \in [Runs -> 0 .. KillAt] /\ timedOut' \in [Runs -> BOOLEAN]
            /\ lost' \subseteq Runs /\ orphans' \subseteq Runs
        BY <2>1, <2>3 DEF RunCrash
      <3>2. child' \in [Runs -> {"none", "alive", "ok", "bad"}]
        BY <2>3 DEF RunCrash
      <3>3. /\ pc' \in [Runs -> ProcPcs]
            /\ outcome' \in [Runs -> {"none", "succeeded", "failed"}]
        BY <2>3 DEF RunCrash
      <3> QED
        BY <3>1, <3>2, <3>3
    <2> QED
      BY <1>5, <2>2, <2>3
  <1>6. CASE WorkerReap
    <2>1. UNCHANGED procVars
      BY <1>6 DEF WorkerReap
    <2> QED
      BY <2>1 DEF procVars
  <1>7. CASE SeedTarget
    BY <1>7, LostIsTyped DEF SeedTarget
  <1>8. CASE Tick
    <2>1. KillAt \in Nat
      BY CrawlRunnerAssumption DEF KillAt
    <2>2. /\ \A r \in Runs : pc[r] = "running" => timer[r] < KillAt
          /\ timer' = [r \in Runs |-> IF pc[r] = "running" THEN timer[r] + 1 ELSE timer[r]]
          /\ UNCHANGED <<pc, child, orphans, timedOut, outcome, lost>>
      BY <1>8 DEF Tick, InTime
    <2>3. timer' \in [Runs -> 0 .. KillAt]
      <3> SUFFICES ASSUME NEW r \in Runs
                   PROVE  (IF pc[r] = "running" THEN timer[r] + 1 ELSE timer[r]) \in 0 .. KillAt
        BY <2>2
      <3>1. timer[r] \in 0 .. KillAt
        OBVIOUS
      <3> QED
        BY <2>1, <2>2, <3>1
    <2> QED
      BY <2>2, <2>3
  <1>9. CASE UNCHANGED vars
    BY <1>9 DEF vars, procVars
  <1> QED
    BY <1>1, <1>2, <1>3, <1>4, <1>5, <1>6, <1>7, <1>8, <1>9 DEF Next, RunStep

-----------------------------------------------------------------------------
(* Overlap *)

Waits(r) == pc[r] \in {"leased", "running"} /\ r \notin lost

\* A process that waits for its child, or is about to start it, holds the
\* target's lease as long as nobody has taken it away, and has time left.
CoverOK ==
  \A r \in Runs :
    /\ status[r] = "absent" => age[r] = 0
    /\ pc[r] \in {"idle", "leased"} => timer[r] = 0
    /\ child[r] = "alive" /\ r \notin orphans => pc[r] = "running"
    /\ Waits(r) => holder = r
    /\ Waits(r) /\ pc[r] = "leased" =>
         /\ Open(r) /\ age[r] <= StartSlack
         /\ left[r] = leaseLeft /\ leaseLeft + age[r] = LeaseTime
    /\ Waits(r) /\ pc[r] = "running" => leaseLeft + StartSlack + timer[r] >= LeaseTime

LEMMA Numbers ==
  ASSUME StoreInv, ProcTypeOK
  PROVE  /\ LeaseTime \in Nat /\ StartSlack \in Nat /\ KillAt \in Nat /\ StaleTime \in Nat
         /\ StartSlack + KillAt < LeaseTime /\ StartSlack < StaleTime
         /\ leaseLeft \in Nat
         /\ \A r \in Runs : /\ left[r] \in Nat /\ age[r] \in Nat
                            /\ timer[r] \in Nat /\ timer[r] <= KillAt
BY CrawlAssumption, CrawlRunnerAssumption DEF StoreInv, CrawlTypeOK, ProcTypeOK, KillAt

\* Whoever waits has a live lease, and the reaper does not take it.
LEMMA LeaseLives ==
  ASSUME StoreInv, ProcTypeOK, CoverOK, NEW r \in Runs, Waits(r)
  PROVE  /\ leaseLeft > 0 /\ holder = r /\ r # NoRun
         /\ pc[r] = "leased" => ~ StaleRun(r)
<1>1. holder = r /\ r # NoRun
  BY CrawlAssumption DEF CoverOK
<1>2. CASE pc[r] = "leased"
  BY <1>1, <1>2, Numbers DEF CoverOK, StaleRun
<1>3. CASE pc[r] = "running"
  BY <1>1, <1>3, Numbers DEF CoverOK
<1> QED BY <1>2, <1>3 DEF Waits

\* A transaction that takes the lease away leaves nobody else waiting.
LEMMA NobodyElseWaits ==
  ASSUME StoreInv, ProcTypeOK, CoverOK, NEW r, LeaseLostTo(r), NEW q \in Runs \ {r},
         pc'[q] = pc[q]
  PROVE  ~ (Waits(q))'
<1>1. Waits(q) => q \in lost'
  BY LeaseLives DEF LeaseLostTo, Waits
<1>2. lost \subseteq lost'
  BY DEF LeaseLostTo
<1> QED BY <1>1, <1>2 DEF Waits

\* Steps of one process that leave the store alone.
LEMMA LocalCover ==
  ASSUME StoreInv, ProcTypeOK, CoverOK, UNCHANGED crawlVars, NEW r \in Runs,
         \A q \in Runs \ {r} :
           /\ pc'[q] = pc[q] /\ timer'[q] = timer[q] /\ child'[q] = child[q]
           /\ q \in orphans' <=> q \in orphans
           /\ q \in lost' <=> q \in lost,
         pc'[r] \in {"idle", "leased"} => timer'[r] = 0,
         child'[r] = "alive" /\ r \notin orphans' => pc'[r] = "running",
         (Waits(r))' => /\ Waits(r) /\ timer'[r] = timer[r]
                        /\ pc'[r] = pc[r] \/ (pc[r] = "leased" /\ pc'[r] = "running")
  PROVE  CoverOK'
<1>1. UNCHANGED <<status, age, left, holder, leaseLeft>>
  BY DEF crawlVars, targetRow, runRows
<1>2. ASSUME NEW q \in Runs \ {r}
      PROVE  /\ status'[q] = "absent" => age'[q] = 0
             /\ pc'[q] \in {"idle", "leased"} => timer'[q] = 0
             /\ child'[q] = "alive" /\ q \notin orphans' => pc'[q] = "running"
             /\ (Waits(q))' => holder' = q
             /\ (Waits(q))' /\ pc'[q] = "leased" =>
                  /\ (Open(q))' /\ age'[q] <= StartSlack
                  /\ left'[q] = leaseLeft' /\ leaseLeft' + age'[q] = LeaseTime
             /\ (Waits(q))' /\ pc'[q] = "running" => leaseLeft' + StartSlack + timer'[q] >= LeaseTime
  BY <1>1, <1>2 DEF CoverOK, Waits, Open
<1>3. /\ status'[r] = "absent" => age'[r] = 0
      /\ (Waits(r))' => holder' = r
      /\ (Waits(r))' /\ pc'[r] = "leased" =>
           /\ (Open(r))' /\ age'[r] <= StartSlack
           /\ left'[r] = leaseLeft' /\ leaseLeft' + age'[r] = LeaseTime
  BY <1>1 DEF CoverOK, Open
<1>4. (Waits(r))' /\ pc'[r] = "running" => leaseLeft' + StartSlack + timer'[r] >= LeaseTime
  <2>1. CASE pc[r] = "running"
    BY <1>1, <2>1 DEF CoverOK
  <2>2. CASE pc[r] = "leased"
    BY <1>1, <2>2, Numbers DEF CoverOK
  <2> QED BY <2>1, <2>2
<1> QED BY <1>2, <1>3, <1>4 DEF CoverOK

\* Steps that take the lease away from everybody but r.
LEMMA TakenCover ==
  ASSUME StoreInv, ProcTypeOK, CoverOK, NEW r, LeaseLostTo(r),
         UNCHANGED <<child, orphans, timer>>,
         \A q \in Runs \ {r} :
           /\ pc'[q] = pc[q]
           /\ status'[q] = status[q] /\ age'[q] = age[q],
         r \in Runs => /\ status'[r] = "absent" => age'[r] = 0
                       /\ pc'[r] \in {"idle", "leased"} => timer[r] = 0
                       /\ pc[r] # "running" /\ pc'[r] # "running"
                       /\ (Waits(r))' => /\ holder' = r /\ (Open(r))' /\ age'[r] <= StartSlack
                                         /\ left'[r] = leaseLeft' /\ leaseLeft' + age'[r] = LeaseTime
  PROVE  CoverOK'
<1>1. \A q \in Runs \ {r} : ~ (Waits(q))'
  BY NobodyElseWaits
<1>2. ASSUME NEW q \in Runs \ {r}
      PROVE  /\ status'[q] = "absent" => age'[q] = 0
             /\ pc'[q] \in {"idle", "leased"} => timer'[q] = 0
             /\ child'[q] = "alive" /\ q \notin orphans' => pc'[q] = "running"
  BY DEF CoverOK
<1>3. r \in Runs => (child'[r] = "alive" /\ r \notin orphans' => pc'[r] = "running")
  BY DEF CoverOK
<1> QED BY <1>1, <1>2, <1>3 DEF CoverOK

LEMMA TickCover ==
  ASSUME StoreInv, ProcTypeOK, CoverOK, Tick
  PROVE  CoverOK'
<1>1. /\ UNCHANGED <<pc, child, orphans, lost, status, holder>>
      /\ leaseLeft' = IF leaseLeft > 0 THEN leaseLeft - 1 ELSE 0
      /\ \A r \in Runs :
           /\ left'[r] = IF left[r] > 0 THEN left[r] - 1 ELSE 0
           /\ age'[r] = IF Open(r) /\ age[r] < StaleTime THEN age[r] + 1 ELSE age[r]
           /\ timer'[r] = IF pc[r] = "running" THEN timer[r] + 1 ELSE timer[r]
           /\ pc[r] = "leased" => age[r] < StartSlack
  BY DEF Tick, CrawlTick, InTime
<1>2. ASSUME NEW r \in Runs
      PROVE  /\ status'[r] = "absent" => age'[r] = 0
             /\ pc'[r] \in {"idle", "leased"} => timer'[r] = 0
             /\ child'[r] = "alive" /\ r \notin orphans' => pc'[r] = "running"
             /\ (Waits(r))' => holder' = r
  BY <1>1 DEF CoverOK, Waits, Open
<1>3. ASSUME NEW r \in Runs, Waits(r), pc[r] = "leased"
      PROVE  /\ (Open(r))' /\ age'[r] <= StartSlack
             /\ left'[r] = leaseLeft' /\ leaseLeft' + age'[r] = LeaseTime
  BY <1>1, <1>3, Numbers, LeaseLives DEF CoverOK, Open
<1>4. ASSUME NEW r \in Runs, Waits(r), pc[r] = "running"
      PROVE  leaseLeft' + StartSlack + timer'[r] >= LeaseTime
  BY <1>1, <1>4, Numbers, LeaseLives DEF CoverOK
<1>5. \A r \in Runs : (Waits(r))' => Waits(r)
  BY <1>1 DEF Waits
<1> QED BY <1>1, <1>2, <1>3, <1>4, <1>5 DEF CoverOK

LEMMA ReapCover ==
  ASSUME StoreInv, ProcTypeOK, CoverOK, WorkerReap
  PROVE  CoverOK'
<1>1. /\ UNCHANGED <<pc, child, orphans, timer, lost>>
      /\ \A r \in Runs : /\ StaleRun(r) => status'[r] = "failed" /\ age'[r] = 0
                         /\ ~ StaleRun(r) => /\ status'[r] = status[r] /\ age'[r] = age[r]
                                             /\ left'[r] = left[r]
      /\ leaseLeft > 0 => UNCHANGED <<leaseLeft, holder>>
  BY DEF WorkerReap, MarkStaleSourceCrawlTargetRuns, CloseRuns, ReapedLease, procVars
<1>2. \A r \in Runs : (Waits(r))' => Waits(r)
  BY <1>1 DEF Waits
<1>3. ASSUME NEW r \in Runs, Waits(r)
      PROVE  /\ holder' = r
             /\ pc[r] = "leased" => /\ (Open(r))' /\ age'[r] <= StartSlack
                                    /\ left'[r] = leaseLeft' /\ leaseLeft' + age'[r] = LeaseTime
             /\ pc[r] = "running" => leaseLeft' + StartSlack + timer'[r] >= LeaseTime
  <2>1. UNCHANGED <<leaseLeft, holder>>
    BY <1>1, <1>3, LeaseLives
  <2>2. pc[r] = "leased" => status'[r] = status[r] /\ age'[r] = age[r] /\ left'[r] = left[r]
    BY <1>1, <1>3, LeaseLives
  <2> QED BY <1>1, <1>3, <2>1, <2>2 DEF CoverOK, Open
<1> QED BY <1>1, <1>2, <1>3 DEF CoverOK

LEMMA CoverNext ==
  ASSUME StoreInv, ProcTypeOK, CoverOK, [Next]_vars
  PROVE  CoverOK'
<1>1. ASSUME NEW r \in Runs, NEW o \in Owners, NEW force \in Forces, RunLease(r, o, force)
      PROVE  CoverOK'
  <2>1. /\ pc[r] = "idle" /\ LeaseLostTo(r) /\ UNCHANGED <<child, orphans, timer>>
        /\ pc' = [pc EXCEPT ![r] = "leased"]
        /\ status[r] = "absent" /\ age' = age /\ holder' = r /\ leaseLeft' = LeaseTime
        /\ status' = [status EXCEPT ![r] = "running"]
        /\ left' = [left EXCEPT ![r] = LeaseTime]
    BY <1>1 DEF RunLease, LeaseSourceCrawlTarget, Go
  <2>2. /\ pc'[r] = "leased" /\ status'[r] = "running" /\ left'[r] = LeaseTime
        /\ \A q \in Runs \ {r} : pc'[q] = pc[q] /\ status'[q] = status[q] /\ age'[q] = age[q]
    BY <2>1 DEF ProcTypeOK, StoreInv, CrawlTypeOK
  <2>3. age[r] = 0 /\ timer[r] = 0
    BY <2>1 DEF CoverOK
  <2>4. /\ (Open(r))' /\ age'[r] <= StartSlack
        /\ left'[r] = leaseLeft' /\ leaseLeft' + age'[r] = LeaseTime
    BY <2>1, <2>2, <2>3, Numbers DEF Open
  <2> QED BY <2>1, <2>2, <2>3, <2>4, TakenCover
<1>2. ASSUME NEW r \in Runs, RunFinish(r) \/ RunFailFinish(r) PROVE CoverOK'
  <2>1. /\ pc[r] \in {"closing", "failing"} /\ UNCHANGED <<child, orphans, timer>>
        /\ pc' = [pc EXCEPT ![r] = "failing"] \/ pc' = [pc EXCEPT ![r] = "done"]
        /\ \E s \in ClosedStatus, eligible \in BOOLEAN : Finish(r, s, eligible)
    BY <1>2 DEF RunFinish, RunFailFinish, ToCatch, Forget, Go, Reported, ClosedStatus
  <2>2. /\ pc'[r] \in {"failing", "done"}
        /\ \A q \in Runs \ {r} : pc'[q] = pc[q]
    BY <2>1 DEF ProcTypeOK
  <2>3. CASE UNCHANGED crawlVars /\ UNCHANGED lost
    <3>1. child[r] = "alive" => r \in orphans
      BY <2>1 DEF CoverOK
    <3>2. ~ (Waits(r))'
      BY <2>2 DEF Waits
    <3> QED BY <2>1, <2>2, <2>3, <3>1, <3>2, LocalCover
  <2>4. ASSUME NEW s \in ClosedStatus, NEW d, NEW eligible,
               FinishSourceCrawlTargetRun(r, s, d, eligible), LeaseLostTo(r)
        PROVE  CoverOK'
    <3>1. /\ status'[r] # "absent"
          /\ \A q \in Runs \ {r} : status'[q] = status[q] /\ age'[q] = age[q]
      BY <2>4 DEF FinishSourceCrawlTargetRun, CloseRuns, ClosedStatus
    <3>2. ~ (Waits(r))'
      BY <2>2 DEF Waits
    <3> QED BY <2>1, <2>2, <2>4, <3>1, <3>2, TakenCover
  <2> QED BY <2>1, <2>3, <2>4 DEF Finish
<1>3. ASSUME NEW r \in Runs,
             \/ RunAbandon(r) \/ RunSpawn(r) \/ RunSpawnError(r) \/ RunTimeout(r) \/ RunKill(r)
             \/ RunClose(r) \/ RunFinishFails(r) \/ RunCrash(r) \/ ChildExit(r)
      PROVE  CoverOK'
  <2>1. UNCHANGED crawlVars
    BY <1>3 DEF RunAbandon, RunSpawn, RunSpawnError, RunTimeout, RunKill, RunClose, RunFinishFails,
                RunCrash, ChildExit
  <2>2. CASE RunAbandon(r) \/ RunSpawnError(r) \/ RunFinishFails(r)
    <3>1. /\ UNCHANGED <<child, orphans, timer>> /\ (lost' = lost \/ lost' = lost \ {r})
          /\ pc[r] \in {"leased", "closing", "failing"}
          /\ \E p \in {"closing", "failing", "done"} : pc' = [pc EXCEPT ![r] = p]
      BY <2>2 DEF RunAbandon, RunSpawnError, RunFinishFails, Go, Forget, ToCatch
    <3>2. /\ pc'[r] \in {"closing", "failing", "done"}
          /\ \A q \in Runs \ {r} : pc'[q] = pc[q]
      BY <3>1 DEF ProcTypeOK
    <3>3. child[r] = "alive" => r \in orphans
      BY <3>1 DEF CoverOK
    <3> QED BY <2>1, <3>1, <3>2, <3>3, LocalCover DEF Waits
  <2>3. CASE RunSpawn(r)
    <3>1. /\ pc[r] = "leased" /\ UNCHANGED <<orphans, timer, lost>>
          /\ pc'[r] = "running"
          /\ \A q \in Runs \ {r} : pc'[q] = pc[q] /\ child'[q] = child[q]
      BY <2>3 DEF RunSpawn, Go, ProcTypeOK
    <3> QED BY <2>1, <3>1, LocalCover DEF Waits
  <2>4. CASE RunTimeout(r) \/ RunKill(r) \/ ChildExit(r)
    <3>1. /\ UNCHANGED <<pc, timer, lost>>
          /\ \/ child'[r] # "alive"
             \/ child' = child /\ orphans' = orphans
      BY <2>4 DEF RunTimeout, RunKill, ChildExit, ProcTypeOK
    <3>2. /\ pc[r] \in {"idle", "leased"} => timer[r] = 0
          /\ child'[r] = "alive" /\ r \notin orphans' => pc[r] = "running"
      BY <3>1 DEF CoverOK
    <3>3. /\ pc' = pc /\ timer' = timer /\ lost' = lost
          /\ (Waits(r))' => Waits(r)
      BY <3>1 DEF Waits
    <3>4. \A q \in Runs \ {r} :
            /\ pc'[q] = pc[q] /\ timer'[q] = timer[q] /\ child'[q] = child[q]
            /\ q \in orphans' <=> q \in orphans
            /\ q \in lost' <=> q \in lost
      BY <2>4 DEF RunTimeout, RunKill, ChildExit, ProcTypeOK
    <3>5. /\ pc'[r] \in {"idle", "leased"} => timer'[r] = 0
          /\ child'[r] = "alive" /\ r \notin orphans' => pc'[r] = "running"
          /\ (Waits(r))' => /\ Waits(r) /\ timer'[r] = timer[r] /\ pc'[r] = pc[r]
      BY <3>2, <3>3
    <3> QED BY <2>1, <3>4, <3>5, LocalCover
  <2>5. CASE RunClose(r)
    <3>1. /\ pc'[r] = "closing" /\ child'[r] = "none" /\ orphans' = orphans /\ lost' = lost \ {r}
          /\ \A q \in Runs \ {r} : pc'[q] = pc[q] /\ timer'[q] = timer[q] /\ child'[q] = child[q]
      BY <2>5 DEF RunClose, StopWaiting, Go, ProcTypeOK
    <3> QED BY <2>1, <3>1, LocalCover DEF Waits
  <2>6. CASE RunCrash(r)
    <3>1. /\ pc'[r] = "done" /\ lost' = lost \ {r}
          /\ \A q \in Runs \ {r} : pc'[q] = pc[q] /\ timer'[q] = timer[q]
      BY <2>6 DEF RunCrash, Forget, StopWaiting, Go, ProcTypeOK
    <3>2. /\ \A q \in Runs \ {r} : child'[q] = child[q] /\ (q \in orphans' <=> q \in orphans)
          /\ child'[r] = "alive" => r \in orphans'
      BY <2>6 DEF RunCrash, ProcTypeOK
    <3> QED BY <2>1, <3>1, <3>2, LocalCover DEF Waits
  <2> QED BY <1>3, <2>2, <2>3, <2>4, <2>5, <2>6
<1>4. CASE WorkerReap
  BY <1>4, ReapCover
<1>5. CASE SeedTarget
  <2>1. /\ LeaseLostTo(NoRun) /\ UNCHANGED <<pc, child, orphans, timer, status, age>>
    BY <1>5 DEF SeedTarget, UpsertSourceCrawlTarget, runRows
  <2> QED BY <2>1, TakenCover, CrawlAssumption
<1>6. CASE Tick
  BY <1>6, TickCover
<1>7. CASE UNCHANGED vars
  BY <1>7 DEF vars, crawlVars, targetRow, runRows, procVars, CoverOK, Waits, Open
<1> QED
  BY <1>1, <1>2, <1>3, <1>4, <1>5, <1>6, <1>7 DEF Next, RunStep

CrawlInv == StoreInv /\ ProcTypeOK /\ CoverOK

LEMMA CrawlInvariant == Spec => []CrawlInv
  <1>1. Init => StoreInv /\ ProcTypeOK
    BY StoreInit, CrawlRunnerAssumption DEF Init, ProcTypeOK, ProcPcs, KillAt
  <1>2. ASSUME Init PROVE CoverOK
    <2>1. \A r \in Runs : /\ age[r] = 0 /\ timer[r] = 0 /\ child[r] = "none" /\ pc[r] = "idle"
      BY <1>2 DEF Init, CrawlInit
    <2> QED
      BY <2>1 DEF CoverOK, Waits
  <1>3. CrawlInv /\ [Next]_vars => CrawlInv'
    BY StoreNext, ProcNext, CoverNext DEF CrawlInv
  <1> QED
    BY <1>1, <1>2, <1>3, PTL DEF Spec, CrawlInv

\* Every variable of the crawl runtime keeps its type.
THEOREM CrawlTypeCorrect == Spec => []TypeOK
  <1>1. CrawlInv => TypeOK
    BY DEF CrawlInv, StoreInv, ProcTypeOK, TypeOK
  <1> QED
    BY <1>1, CrawlInvariant, PTL

\* For any number of runs, owners and leases, the target's counters are the sum
\* of the deltas its runs report, each once, and its clean streak is earned.
THEOREM RunsCountOnce == Spec => []EachRunCountsOnce
  <1>1. CrawlInv => EachRunCountsOnce
    BY DEF CrawlInv, StoreInv, CountsOK, WithWork, Clean, EachRunCountsOnce
  <1> QED
    BY <1>1, CrawlInvariant, PTL

\* No second finish and no reaper rewrites a closed run.
THEOREM ClosedForGood == Spec => ClosedRunsStayClosed
  <1>1. CrawlInv /\ [Next]_vars => [KeepsClosed]_vars
    BY StoreNext DEF CrawlInv
  <1>2. [KeepsClosed]_vars => [\A r \in Runs : status[r] \in ClosedStatus =>
                                 status'[r] = status[r] /\ delta'[r] = delta[r]]_vars
    BY DEF KeepsClosed
  <1> QED
    BY <1>1, <1>2, CrawlInvariant, PTL DEF Spec, ClosedRunsStayClosed

\* Two children crawl the target at once only if one of them lost its lease
\* while it ran, or its process, for any budgets whose lease covers them.
THEOREM CrawlsOverlap == Spec => []OverlapNeedsLostLease
  <1>1. CrawlInv => OverlapNeedsLostLease
    <2> SUFFICES ASSUME CrawlInv, NEW p \in Runs, NEW q \in Runs, Crawling(p), Crawling(q),
                        {p, q} \intersect (lost \union orphans) = {}
                 PROVE  p = q
      BY DEF OverlapNeedsLostLease
    <2>1. Waits(p) /\ Waits(q)
      BY DEF CrawlInv, CoverOK, Crawling, Waits
    <2> QED
      BY <2>1 DEF CrawlInv, CoverOK
  <1> QED
    BY <1>1, CrawlInvariant, PTL

-----------------------------------------------------------------------------
(* Retirement, and what the closing of every run rests on                  *)

\* The target stops by itself only after as many clean runs as the threshold
\* asks for, the last of them being the one that stops it.
RetirementIsEarned ==
  [][targetMode = "open" /\ targetMode' = "stopped" /\ ~ SeedTarget =>
       /\ CleanRunThreshold <= Cardinality(Clean')
       /\ \E r \in Clean' : Open(r)]_vars

\* A run that stays open comes nearer to the reaper: nothing lengthens its
\* lease or makes it younger, a tick shortens the lease until it is over,
\* and once stale it is stale until the reaper, which leaves none, closes it.
OpenRunExpires ==
  [][\A r \in Runs : Open(r) /\ Open(r)' =>
       /\ left'[r] <= left[r] /\ age'[r] >= age[r]
       /\ Tick => left[r] = 0 \/ left'[r] < left[r]
       /\ StaleRun(r) => StaleRun(r)' /\ ~ WorkerReap]_vars

\* A finish that stops the target has found a streak as long as the threshold.
LEMMA FinishRetires ==
  ASSUME CrawlInv, CrawlInv', NEW r \in Runs, NEW s, NEW d, NEW eligible,
         FinishSourceCrawlTargetRun(r, s, d, eligible),
         targetMode = "open", targetMode' = "stopped"
  PROVE  /\ CleanRunThreshold <= Cardinality(Clean')
         /\ r \in Clean' /\ Open(r)
<1>1. Retires(s, d, eligible) /\ streak' = StreakAfter(s, d)
  BY DEF FinishSourceCrawlTargetRun
<1>2. r \in Clean' /\ Open(r)
  BY <1>1 DEF FinishSourceCrawlTargetRun, ActiveRun, CloseRuns, Retires, Clean
<1>3. CleanRunThreshold <= streak'
  BY <1>1 DEF Retires
<1>4. streak' <= Cardinality(Clean') /\ streak' \in Nat /\ Cardinality(Clean') \in Nat
  BY FS_CardinalityType DEF CrawlInv, StoreInv, CountsOK, CrawlTypeOK
<1> QED BY <1>2, <1>3, <1>4, CrawlAssumption

\* For any threshold, a target retires on its runs' merit.
THEOREM RetirementsAreEarned == Spec => RetirementIsEarned
<1>1. ASSUME CrawlInv, CrawlInv', [Next]_vars,
             targetMode = "open", targetMode' = "stopped", ~ SeedTarget
      PROVE  CleanRunThreshold <= Cardinality(Clean') /\ \E r \in Clean' : Open(r)
  <2>1. PICK r \in Runs : RunFinish(r) \/ RunFailFinish(r)
    BY <1>1 DEF Next, RunStep, RunLease, LeaseSourceCrawlTarget, RunAbandon, RunSpawn,
                RunSpawnError, RunTimeout, RunKill, RunClose, RunFinishFails, RunCrash, ChildExit,
                WorkerReap, MarkStaleSourceCrawlTargetRuns, Tick, CrawlTick, vars, crawlVars,
                targetRow
  <2>2. PICK s, eligible : Finish(r, s, eligible)
    BY <2>1 DEF RunFinish, RunFailFinish
  <2>3. PICK d \in {0, 1} : FinishSourceCrawlTargetRun(r, s, d, eligible)
    BY <1>1, <2>2 DEF Finish, crawlVars, targetRow
  <2> QED BY <1>1, <2>3, FinishRetires
<1>2. CrawlInv /\ CrawlInv' /\ [Next]_vars =>
        [targetMode = "open" /\ targetMode' = "stopped" /\ ~ SeedTarget =>
           /\ CleanRunThreshold <= Cardinality(Clean')
           /\ \E r \in Clean' : Open(r)]_vars
  BY <1>1
<1> QED BY <1>2, CrawlInvariant, PTL DEF Spec, RetirementIsEarned

\* What a transaction may do to an open run that stays open.
LEMMA OpenRunStep ==
  ASSUME CrawlInv, [Next]_vars, NEW r \in Runs, Open(r), Open(r)'
  PROVE  \/ UNCHANGED <<left[r], age[r]>>
         \/ Tick
<1>1. CASE \E q \in Runs, o \in Owners, force \in Forces : RunLease(q, o, force)
  BY <1>1 DEF RunLease, LeaseSourceCrawlTarget, Open, CrawlInv, StoreInv, CrawlTypeOK
<1>2. CASE \E q \in Runs : RunFinish(q) \/ RunFailFinish(q)
  <2>1. PICK q \in Runs : RunFinish(q) \/ RunFailFinish(q)
    BY <1>2
  <2>2. PICK s \in ClosedStatus, eligible \in BOOLEAN : Finish(q, s, eligible)
    BY <2>1 DEF RunFinish, RunFailFinish, Reported, ClosedStatus
  <2>3. CASE UNCHANGED crawlVars
    BY <2>3 DEF crawlVars, runRows
  <2>4. ASSUME NEW d, FinishSourceCrawlTargetRun(q, s, d, eligible)
        PROVE  UNCHANGED <<left[r], age[r]>>
    BY <2>4 DEF FinishSourceCrawlTargetRun, CloseRuns, Open, ClosedStatus
  <2> QED BY <2>2, <2>3, <2>4 DEF Finish
<1>3. CASE WorkerReap
  BY <1>3 DEF WorkerReap, MarkStaleSourceCrawlTargetRuns, CloseRuns, Open
<1>4. CASE SeedTarget
  BY <1>4 DEF SeedTarget, UpsertSourceCrawlTarget, runRows
<1> QED
  BY <1>1, <1>2, <1>3, <1>4
  DEF Next, RunStep, RunAbandon, RunSpawn, RunSpawnError, RunTimeout, RunKill, RunClose,
      RunFinishFails, RunCrash, ChildExit, vars, crawlVars, runRows

\* For any leases, owners and forced runs, an open run runs out.
THEOREM OpenRunsExpire == Spec => OpenRunExpires
<1>1. ASSUME CrawlInv, [Next]_vars, NEW r \in Runs, Open(r), Open(r)'
      PROVE  /\ left'[r] <= left[r] /\ age'[r] >= age[r]
             /\ Tick => left[r] = 0 \/ left'[r] < left[r]
             /\ StaleRun(r) => StaleRun(r)' /\ ~ WorkerReap
  <2>1. /\ left[r] \in Nat /\ age[r] \in Nat /\ StaleTime \in Nat
        /\ age[r] <= StaleTime
    BY <1>1, CrawlAssumption DEF CrawlInv, StoreInv, CrawlTypeOK
  <2>2. Tick => /\ left'[r] = IF left[r] > 0 THEN left[r] - 1 ELSE 0
                /\ age'[r] = IF age[r] < StaleTime THEN age[r] + 1 ELSE age[r]
    BY <1>1 DEF Tick, CrawlTick
  <2>3. left'[r] <= left[r] /\ age'[r] >= age[r] /\ (Tick => left[r] = 0 \/ left'[r] < left[r])
    BY <1>1, <2>1, <2>2, OpenRunStep
  <2>4. StaleRun(r) => ~ WorkerReap
    BY <1>1 DEF StaleRun, WorkerReap, MarkStaleSourceCrawlTargetRuns, CloseRuns, Open
  <2>5. StaleRun(r) => StaleRun(r)'
    BY <1>1, <2>1, <2>2, OpenRunStep DEF StaleRun
  <2> QED BY <2>3, <2>4, <2>5
<1>2. CrawlInv /\ [Next]_vars =>
        [\A r \in Runs : Open(r) /\ Open(r)' =>
           /\ left'[r] <= left[r] /\ age'[r] >= age[r]
           /\ Tick => left[r] = 0 \/ left'[r] < left[r]
           /\ StaleRun(r) => StaleRun(r)' /\ ~ WorkerReap]_vars
  BY <1>1
<1> QED BY <1>2, CrawlInvariant, PTL DEF Spec, OpenRunExpires
=============================================================================
