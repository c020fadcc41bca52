---------------------- MODULE FoundationRuntimeProofs ----------------------
(***************************************************************************)
(* Proofs about the job ledger and the runtime around it, for any number   *)
(* of jobs, runs, runners and requests and any budgets that satisfy the    *)
(* assumptions.                                                            *)
(*                                                                         *)
(* The first part is about LedgerSpec, in which any caller issues any      *)
(* transaction: its results hold in every module whose steps are           *)
(* transactions of the ledger or leave it alone, and RefinesLedger carries *)
(* them over to the runtime.                                               *)
(*                                                                         *)
(* In the second part RuntimeInv is inductive.  Besides the bookkeeping    *)
(* (who works on which run) its core is time: a run with a supervised live *)
(* child is no older than StartSlack plus its timer, the timer never       *)
(* passes the kill, and StartSlack + KillDelay <= Grace, so the reaper     *)
(* finds no such run stale; and what the reaper has selected stays without *)
(* a supervised child until it writes.                                     *)
(***************************************************************************)
EXTENDS FoundationRuntime, TLAPS

-----------------------------------------------------------------------------
(* The ledger                                                              *)

\* The inductive invariant: the types are needed to update one row at a time.
LedgerInv == LedgerTypeOK /\ OneActiveRunPerJob

LEMMA LedgerInitInv == LedgerInit => LedgerInv
BY DEF LedgerInit, LedgerInv, LedgerTypeOK, OneActiveRunPerJob, Active, Closed,
       ControlModes, ControlFlags

-----------------------------------------------------------------------------
(* What each transaction may do to the rows *)

\* A transaction keeps the columns' types.
LEMMA LedgerTypeStep ==
  ASSUME LedgerTypeOK, [LedgerNext]_ledgerVars
  PROVE  LedgerTypeOK'
<1>1. CASE UNCHANGED ledgerVars
  BY <1>1 DEF LedgerTypeOK, ledgerVars, runRows, controlRows
<1>2. ASSUME NEW r \in RunIds, BeginCreate(r) PROVE LedgerTypeOK'
  BY <1>2 DEF LedgerTypeOK, BeginCreate, controlRows
<1>3. ASSUME NEW r \in RunIds, CreateFoundationJobRun(r) PROVE LedgerTypeOK'
  BY <1>3 DEF LedgerTypeOK, CreateFoundationJobRun, controlRows, Active
<1>4. ASSUME NEW r \in RunIds, UpdateFoundationJobRunMetadata(r) PROVE LedgerTypeOK'
  BY <1>4 DEF LedgerTypeOK, UpdateFoundationJobRunMetadata, controlRows
<1>5. ASSUME NEW r \in RunIds, NEW s \in Closed, FinishFoundationJobRun(r, s)
      PROVE LedgerTypeOK'
  BY <1>5 DEF LedgerTypeOK, FinishFoundationJobRun, controlRows
<1>6. ASSUME NEW S \in SUBSET RunIds, MarkStaleFoundationJobRuns(S)
      PROVE LedgerTypeOK'
  BY <1>6 DEF LedgerTypeOK, MarkStaleFoundationJobRuns, controlRows, Closed
<1>7. ASSUME NEW j \in Jobs, NEW m \in ControlModes, NEW e \in ControlFlags,
             UpdateFoundationJobControl(j, m, e)
      PROVE LedgerTypeOK'
  BY <1>7 DEF LedgerTypeOK, UpdateFoundationJobControl, runRows
<1> QED
  BY <1>1, <1>2, <1>3, <1>4, <1>5, <1>6, <1>7 DEF LedgerNext

\* The rows move in one of three ways: nothing happens to the statuses, one
\* fresh run becomes active while its job has no active run, or some existing
\* runs end up closed.
LEMMA LedgerStatusStep ==
  ASSUME LedgerTypeOK, [LedgerNext]_ledgerVars
  PROVE  \/ status' = status
         \/ \E r \in RunIds :
              /\ status[r] = "absent"
              /\ ~HasActiveRun(JobOf[r])
              /\ status' = [status EXCEPT ![r] = "running"]
         \/ \E S \in SUBSET RunIds, s \in Closed :
              /\ \A r \in S : status[r] # "absent"
              /\ status' = [r \in RunIds |-> IF r \in S THEN s ELSE status[r]]
<1> DEFINE Goal == \/ status' = status
                   \/ \E r \in RunIds :
                        /\ status[r] = "absent"
                        /\ ~HasActiveRun(JobOf[r])
                        /\ status' = [status EXCEPT ![r] = "running"]
                   \/ \E S \in SUBSET RunIds, s \in Closed :
                        /\ \A r \in S : status[r] # "absent"
                        /\ status' = [r \in RunIds |-> IF r \in S THEN s ELSE status[r]]
<1>1. CASE UNCHANGED ledgerVars
  BY <1>1 DEF ledgerVars, runRows
<1>2. ASSUME NEW r \in RunIds, BeginCreate(r) PROVE Goal
  BY <1>2 DEF BeginCreate
<1>3. ASSUME NEW r \in RunIds, CreateFoundationJobRun(r) PROVE Goal
  BY <1>3 DEF CreateFoundationJobRun
<1>4. ASSUME NEW r \in RunIds, UpdateFoundationJobRunMetadata(r) PROVE Goal
  BY <1>4 DEF UpdateFoundationJobRunMetadata
<1>5. ASSUME NEW r \in RunIds, NEW s \in Closed, FinishFoundationJobRun(r, s)
      PROVE Goal
  <2>1. {r} \in SUBSET RunIds /\ \A q \in {r} : status[q] # "absent"
    BY <1>5 DEF FinishFoundationJobRun
  <2>2. status' = [q \in RunIds |-> IF q \in {r} THEN s ELSE status[q]]
    BY <1>5 DEF FinishFoundationJobRun, LedgerTypeOK
  <2> QED BY <2>1, <2>2
<1>6. ASSUME NEW S \in SUBSET RunIds, MarkStaleFoundationJobRuns(S) PROVE Goal
  BY <1>6 DEF MarkStaleFoundationJobRuns, Closed
<1>7. ASSUME NEW j \in Jobs, NEW m \in ControlModes, NEW e \in ControlFlags,
             UpdateFoundationJobControl(j, m, e)
      PROVE Goal
  BY <1>7 DEF UpdateFoundationJobControl, runRows
<1> QED
  BY <1>1, <1>2, <1>3, <1>4, <1>5, <1>6, <1>7 DEF LedgerNext

-----------------------------------------------------------------------------
(* One active run per job *)

LEMMA LedgerInvStep ==
  ASSUME LedgerInv, [LedgerNext]_ledgerVars
  PROVE  LedgerInv'
<1>1. LedgerTypeOK'
  BY LedgerTypeStep DEF LedgerInv
<1>2. OneActiveRunPerJob'
  <2>1. CASE status' = status
    BY <2>1 DEF LedgerInv, OneActiveRunPerJob
  <2>2. ASSUME NEW r \in RunIds, status[r] = "absent", ~HasActiveRun(JobOf[r]),
               status' = [status EXCEPT ![r] = "running"]
        PROVE OneActiveRunPerJob'
    <3>1. \A q \in RunIds : q # r => status'[q] = status[q]
      BY <2>2 DEF LedgerInv, LedgerTypeOK
    <3>2. \A q \in RunIds : JobOf[q] = JobOf[r] => status[q] \notin Active
      BY <2>2 DEF HasActiveRun, Rows, Active
    <3> QED
      BY <3>1, <3>2 DEF LedgerInv, OneActiveRunPerJob
  <2>3. ASSUME NEW S \in SUBSET RunIds, NEW s \in Closed,
               status' = [r \in RunIds |-> IF r \in S THEN s ELSE status[r]]
        PROVE OneActiveRunPerJob'
    <3>1. \A q \in RunIds : status'[q] \in Active => status[q] \in Active
      BY <2>3 DEF Active, Closed
    <3> QED
      BY <3>1 DEF LedgerInv, OneActiveRunPerJob
  <2> QED
    BY <2>1, <2>2, <2>3, LedgerStatusStep DEF LedgerInv
<1> QED
  BY <1>1, <1>2 DEF LedgerInv

\* The columns keep their types: no transaction writes a status the CHECK of
\* the table does not allow.
THEOREM LedgerTypeCorrect == LedgerSpec => []LedgerTypeOK
<1>1. LedgerInv => LedgerTypeOK
  BY DEF LedgerInv
<1> QED
  BY <1>1, LedgerInitInv, LedgerInvStep, PTL DEF LedgerSpec

\* However many runs of a job anybody tries to start, close or reap, at most
\* one of them is queued or running.
THEOREM OneActiveRun == LedgerSpec => []OneActiveRunPerJob
<1>1. LedgerInv => OneActiveRunPerJob
  BY DEF LedgerInv
<1> QED
  BY <1>1, LedgerInitInv, LedgerInvStep, PTL DEF LedgerSpec

-----------------------------------------------------------------------------
(* The tables implement the lock *)

LEMMA LedgerInitLock == LedgerInit => Lock!Init
BY DEF LedgerInit, Lock!Init, Active

\* Every transaction takes one lock, releases some, or leaves them alone.
LEMMA LedgerStepLock ==
  ASSUME LedgerInv, [LedgerNext]_ledgerVars
  PROVE  [Lock!Next]_(Lock!lockVars)
<1> DEFINE held == {r \in RunIds : status[r] \in Active}
           spent == {r \in RunIds : status[r] # "absent"}
<1>1. CASE status' = status
  BY <1>1 DEF Lock!lockVars
<1>2. ASSUME NEW r \in RunIds, status[r] = "absent", ~HasActiveRun(JobOf[r]),
             status' = [status EXCEPT ![r] = "running"]
      PROVE Lock!Next
  <2>1. \A q \in RunIds : q # r => status'[q] = status[q]
    BY <1>2 DEF LedgerInv, LedgerTypeOK
  <2>2. status'[r] = "running"
    BY <1>2 DEF LedgerInv, LedgerTypeOK
  <2>3. \A q \in held : JobOf[q] # JobOf[r]
    BY <1>2 DEF HasActiveRun, Rows, Active
  <2>4. held' = held \union {r}
    BY <2>1, <2>2 DEF Active
  <2>5. spent' = spent \union {r}
    BY <2>1, <2>2
  <2>6. Lock!Acquire(r)
    BY <1>2, <2>3, <2>4, <2>5 DEF Lock!Acquire
  <2> QED
    BY <2>6 DEF Lock!Next
<1>3. ASSUME NEW S \in SUBSET RunIds, NEW s \in Closed,
             \A r \in S : status[r] # "absent",
             status' = [r \in RunIds |-> IF r \in S THEN s ELSE status[r]]
      PROVE [Lock!Next]_(Lock!lockVars)
  <2>1. spent' = spent
    BY <1>3 DEF Closed
  <2>2. held' = held \ (S \intersect held)
    BY <1>3 DEF Active, Closed
  <2>3. CASE S \intersect held = {}
    <3>1. held' = held
      BY <2>2, <2>3
    <3> QED
      BY <2>1, <3>1 DEF Lock!lockVars
  <2>4. CASE S \intersect held # {}
    <3>1. PICK T \in SUBSET RunIds : T = S \intersect held
      OBVIOUS
    <3>2. Lock!Release(T)
      BY <2>1, <2>2, <2>4, <3>1 DEF Lock!Release
    <3>3. Lock!Next
      BY <3>2 DEF Lock!Next
    <3> QED
      BY <3>3
  <2> QED
    BY <2>3, <2>4
<1> QED
  BY <1>1, <1>2, <1>3, LedgerStatusStep DEF LedgerInv

\* The run rows implement one lock per job: a run takes it at most once, never
\* while another run of the job has it, and a closed run never has it again.
THEOREM LedgerImplementsLock == LedgerSpec => ImplementsLock
BY LedgerInitInv, LedgerInvStep, LedgerInitLock, LedgerStepLock, PTL
   DEF LedgerSpec, ImplementsLock, Lock!Safety

-----------------------------------------------------------------------------
(* The runtime                                                             *)

\* Where a runner has no run in hand.
Resting == {"idle", "reaping", "reaped", "pass"}

\* Who works on what: runners at rest have no run, the others have one each.
CurOK ==
  /\ \A p \in Runners : cur[p] = NoRun <=> pc[p] \in Resting
  /\ \A p, q \in Runners : cur[p] = cur[q] /\ cur[p] # NoRun => p = q

\* A run that has no row yet has no history either, and its clock stands
\* unless a runner is about to insert it.
AbsentOK ==
  \A r \in RunIds : status[r] = "absent" =>
    /\ child[r] = "none" /\ outcome[r] = "none" /\ ~timedOut[r]
    /\ (\A p \in Runners : cur[p] # r) => age[r] = 0

\* Up to the insert there is no row, up to the spawn no child, and the start
\* has taken StartSlack ticks at most.
StartOK ==
  \A p \in Runners :
    /\ pc[p] \in {"creating", "inserting"} <=>
         cur[p] # NoRun /\ status[cur[p]] = "absent"
    /\ Starting(p) =>
         /\ child[cur[p]] = "none" /\ outcome[cur[p]] = "none"
         /\ ~timedOut[cur[p]]
         /\ age[cur[p]] <= StartSlack

\* While the timeout is armed nothing has been decided, and the run is no
\* older than its start and its timer together.
ArmedOK ==
  \A p \in Runners : pc[p] \in Armed =>
    /\ outcome[cur[p]] = "none"
    /\ child[cur[p]] # "none"
    /\ child[cur[p]] = "alive" => age[cur[p]] <= StartSlack + timer[cur[p]]

\* No timer runs past the kill.
ClockOK == \A r \in RunIds : timer[r] <= KillAt(r)

\* An orphan is alive and nobody works on it any more.
OrphanOK ==
  \A r \in orphans : child[r] = "alive" /\ \A p \in Runners : cur[p] # r

\* A live child has a runner that supervises it, or is known to have lost it.
ChildOK ==
  \A r \in RunIds : child[r] = "alive" /\ r \notin orphans => Supervised(r)

\* Until its child has ended nobody but an operator's stop closes the row.
OpenOK ==
  \A p \in Runners :
    \/ pc[p] = "created"
    \/ pc[p] \in Armed /\ child[cur[p]] = "alive"
    => status[cur[p]] \in Active \union {"cancelled"}

\* The reaper selects no run that has a supervised child or is yet to get one.
DoomedOK ==
  \A r \in doomed :
    /\ status[r] # "absent"
    /\ child[r] = "alive" => r \in orphans
    /\ \A p \in Runners : cur[p] = r => pc[p] # "created"

\* Success is decided from an exit code 0 before the timeout, and only
\* decided outcomes reach the ledger.
OutcomeOK ==
  /\ \A r \in RunIds :
       /\ outcome[r] = "succeeded" => child[r] = "ok" /\ ~timedOut[r]
       /\ status[r] = "succeeded" => outcome[r] = "succeeded"
  /\ \A p \in Runners : pc[p] = "finishing" => outcome[cur[p]] # "none"

\* A request that has read its row or job remembers it.
RequestOK ==
  \A h \in Handlers :
    /\ reqPc[h] \in {"stopping", "signalled"} =>
         reqRun[h] \in RunIds /\ status[reqRun[h]] # "absent"
    /\ reqPc[h] = "decommissioning" => reqJob[h] \in Jobs

RuntimeInv ==
  /\ TypeOK
  /\ CurOK /\ AbsentOK /\ StartOK /\ ArmedOK /\ ClockOK
  /\ OrphanOK /\ ChildOK /\ OpenOK /\ DoomedOK /\ OutcomeOK /\ RequestOK

USE DEF Resting, Armed, Starting, Goto, Leave, Active, Closed,
        ledgerVars, runRows, controlRows, passVars, requestVars

\* The time of the kill is a number.
LEMMA KillAtNat == \A r \in RunIds : KillAt(r) \in Nat
BY LedgerAssumption, RunnerAssumption DEF KillAt

\* Requests and control posts touch no run: all but the types and the
\* requests themselves stays true.
LEMMA FrameInv ==
  ASSUME RuntimeInv, UNCHANGED <<status, runnerVars, doomed>>
  PROVE  /\ CurOK' /\ AbsentOK' /\ StartOK' /\ ArmedOK' /\ ClockOK'
         /\ OrphanOK' /\ ChildOK' /\ OpenOK' /\ DoomedOK' /\ OutcomeOK'
<1>1. CurOK' /\ AbsentOK' /\ StartOK' /\ ArmedOK' /\ ClockOK'
  BY DEF RuntimeInv, runnerVars, CurOK, AbsentOK, StartOK, ArmedOK, ClockOK, KillAt
<1>2. OrphanOK' /\ ChildOK' /\ OpenOK' /\ DoomedOK' /\ OutcomeOK'
  BY DEF RuntimeInv, runnerVars, OrphanOK, ChildOK, OpenOK, DoomedOK, OutcomeOK, Supervised
<1> QED
  BY <1>1, <1>2

-----------------------------------------------------------------------------
(* Steps of a runner *)

\* The create transaction begins.
LEMMA RunnerBeginInv ==
  ASSUME RuntimeInv,
         NEW p \in Runners,
         RunnerBegin(p),
         UNCHANGED <<passVars, requestVars>>
  PROVE  RuntimeInv'
<1>1. TypeOK'
  BY DEF RunnerBegin, BeginCreate, RuntimeInv, TypeOK, LedgerTypeOK,
         RunnerTypeOK, RuntimeTypeOK, RunnerPcs
<1>2. CurOK'
  BY DEF RunnerBegin, RuntimeInv, CurOK
<1>3. AbsentOK' /\ StartOK'
  BY DEF RunnerBegin, BeginCreate, RuntimeInv, AbsentOK, StartOK
<1>4. ArmedOK'
  BY DEF RunnerBegin, RuntimeInv, ArmedOK
<1>5. ClockOK'
  BY DEF RunnerBegin, RuntimeInv, ClockOK
<1>6. OrphanOK' /\ ChildOK'
  BY DEF RunnerBegin, RuntimeInv, OrphanOK, ChildOK, Supervised
<1>7. OpenOK'
  BY DEF RunnerBegin, BeginCreate, RuntimeInv, OpenOK
<1>8. DoomedOK'
  BY DEF RunnerBegin, BeginCreate, RuntimeInv, DoomedOK
<1>9. OutcomeOK' /\ RequestOK'
  BY DEF RunnerBegin, BeginCreate, RuntimeInv, OutcomeOK, RequestOK
<1> QED
  BY <1>1, <1>2, <1>3, <1>4, <1>5, <1>6, <1>7, <1>8, <1>9 DEF RuntimeInv

\* The row is inserted.
LEMMA RunnerCreateInv ==
  ASSUME RuntimeInv,
         NEW p \in Runners,
         RunnerCreate(p),
         UNCHANGED <<passVars, requestVars>>
  PROVE  RuntimeInv'
<1>1. TypeOK'
  BY DEF RunnerCreate, CreateFoundationJobRun, RuntimeInv, TypeOK,
         LedgerTypeOK, RunnerTypeOK, RuntimeTypeOK, RunnerPcs
<1>2. CurOK'
  BY DEF RunnerCreate, RuntimeInv, CurOK
<1>3. AbsentOK' /\ StartOK'
  BY DEF RunnerCreate, CreateFoundationJobRun, RuntimeInv, CurOK, AbsentOK,
         StartOK, TypeOK, LedgerTypeOK, RunnerTypeOK
<1>4. ArmedOK'
  BY DEF RunnerCreate, RuntimeInv, ArmedOK
<1>5. ClockOK'
  BY DEF RunnerCreate, RuntimeInv, ClockOK
<1>6. OrphanOK' /\ ChildOK'
  BY DEF RunnerCreate, RuntimeInv, OrphanOK, ChildOK, Supervised
<1>7. OpenOK'
  BY DEF RunnerCreate, CreateFoundationJobRun, RuntimeInv, CurOK, OpenOK,
         TypeOK, LedgerTypeOK, RunnerTypeOK
<1>8. DoomedOK'
  BY DEF RunnerCreate, CreateFoundationJobRun, RuntimeInv, DoomedOK
<1>9. OutcomeOK' /\ RequestOK'
  BY DEF RunnerCreate, CreateFoundationJobRun, RuntimeInv, OutcomeOK,
         RequestOK
<1> QED
  BY <1>1, <1>2, <1>3, <1>4, <1>5, <1>6, <1>7, <1>8, <1>9 DEF RuntimeInv

\* The create write fails; the run id is given up.
LEMMA RunnerCreateFailsInv ==
  ASSUME RuntimeInv,
         NEW p \in Runners,
         RunnerCreateFails(p),
         UNCHANGED <<passVars, requestVars>>
  PROVE  RuntimeInv'
<1>1. TypeOK'
  BY DEF RunnerCreateFails, RuntimeInv, TypeOK, LedgerTypeOK, RunnerTypeOK,
         RuntimeTypeOK, RunnerPcs
<1>2. CurOK'
  BY DEF RunnerCreateFails, RuntimeInv, CurOK, TypeOK, RunnerTypeOK
<1>3. AbsentOK' /\ StartOK'
  BY DEF RunnerCreateFails, RuntimeInv, CurOK, AbsentOK, StartOK, TypeOK,
         RunnerTypeOK
<1>4. ArmedOK'
  BY DEF RunnerCreateFails, RuntimeInv, CurOK, ArmedOK
<1>5. ClockOK'
  BY DEF RunnerCreateFails, RuntimeInv, ClockOK
<1>6. OrphanOK' /\ ChildOK'
  BY RunnerAssumption DEF RunnerCreateFails, RuntimeInv, OrphanOK, ChildOK,
         Supervised, TypeOK, RunnerTypeOK
<1>7. OpenOK'
  BY DEF RunnerCreateFails, RuntimeInv, OpenOK
<1>8. DoomedOK'
  BY DEF RunnerCreateFails, RuntimeInv, DoomedOK
<1>9. OutcomeOK' /\ RequestOK'
  BY DEF RunnerCreateFails, RuntimeInv, OutcomeOK, RequestOK
<1> QED
  BY <1>1, <1>2, <1>3, <1>4, <1>5, <1>6, <1>7, <1>8, <1>9 DEF RuntimeInv

\* The row is there and nobody works on it.
LEMMA RunnerCreateAckLostInv ==
  ASSUME RuntimeInv,
         NEW p \in Runners,
         RunnerCreateAckLost(p),
         UNCHANGED <<passVars, requestVars>>
  PROVE  RuntimeInv'
<1>1. TypeOK'
  BY DEF RunnerCreateAckLost, CreateFoundationJobRun, RuntimeInv, TypeOK,
         LedgerTypeOK, RunnerTypeOK, RuntimeTypeOK, RunnerPcs
<1>2. CurOK'
  BY DEF RunnerCreateAckLost, RuntimeInv, CurOK, TypeOK, RunnerTypeOK
<1>3. AbsentOK' /\ StartOK'
  BY DEF RunnerCreateAckLost, CreateFoundationJobRun, RuntimeInv, CurOK,
         AbsentOK, StartOK, TypeOK, LedgerTypeOK, RunnerTypeOK
<1>4. ArmedOK'
  BY DEF RunnerCreateAckLost, RuntimeInv, ArmedOK
<1>5. ClockOK'
  BY DEF RunnerCreateAckLost, RuntimeInv, ClockOK
<1>6. OrphanOK' /\ ChildOK'
  BY RunnerAssumption DEF RunnerCreateAckLost, RuntimeInv, OrphanOK, ChildOK,
         Supervised, TypeOK, RunnerTypeOK
<1>7. OpenOK'
  BY DEF RunnerCreateAckLost, CreateFoundationJobRun, RuntimeInv, OpenOK
<1>8. DoomedOK'
  BY DEF RunnerCreateAckLost, CreateFoundationJobRun, RuntimeInv, DoomedOK
<1>9. OutcomeOK' /\ RequestOK'
  BY DEF RunnerCreateAckLost, CreateFoundationJobRun, RuntimeInv, OutcomeOK,
         RequestOK
<1> QED
  BY <1>1, <1>2, <1>3, <1>4, <1>5, <1>6, <1>7, <1>8, <1>9 DEF RuntimeInv

\* The child starts: its run has a row that is active or stopped.
LEMMA RunnerSpawnInv ==
  ASSUME RuntimeInv,
         NEW p \in Runners,
         RunnerSpawn(p),
         UNCHANGED <<passVars, requestVars>>
  PROVE  RuntimeInv'
<1>1. TypeOK'
  BY DEF RunnerSpawn, RuntimeInv, TypeOK, LedgerTypeOK, RunnerTypeOK,
         RuntimeTypeOK, RunnerPcs, ChildStates
<1>2. CurOK'
  BY DEF RunnerSpawn, RuntimeInv, CurOK
<1>3. AbsentOK' /\ StartOK'
  BY DEF RunnerSpawn, RuntimeInv, CurOK, AbsentOK, StartOK, TypeOK,
         RunnerTypeOK
<1>4. ArmedOK'
  BY RunnerAssumption DEF RunnerSpawn, RuntimeInv, CurOK, StartOK, ArmedOK,
         TypeOK, RunnerTypeOK
<1>5. ClockOK'
  BY DEF RunnerSpawn, RuntimeInv, ClockOK
<1>6. OrphanOK' /\ ChildOK'
  BY DEF RunnerSpawn, RuntimeInv, OrphanOK, ChildOK, Supervised, TypeOK,
         RunnerTypeOK
<1>7. OpenOK'
  BY DEF RunnerSpawn, RuntimeInv, OpenOK
<1>8. DoomedOK'
  BY DEF RunnerSpawn, RuntimeInv, DoomedOK
<1>9. OutcomeOK' /\ RequestOK'
  BY DEF RunnerSpawn, RuntimeInv, StartOK, OutcomeOK, RequestOK
<1> QED
  BY <1>1, <1>2, <1>3, <1>4, <1>5, <1>6, <1>7, <1>8, <1>9 DEF RuntimeInv

\* There is no child; the outcome is decided at once.
LEMMA RunnerSpawnErrorInv ==
  ASSUME RuntimeInv,
         NEW p \in Runners,
         RunnerSpawnError(p),
         UNCHANGED <<passVars, requestVars>>
  PROVE  RuntimeInv'
<1>1. TypeOK'
  BY DEF RunnerSpawnError, RuntimeInv, TypeOK, LedgerTypeOK, RunnerTypeOK,
         RuntimeTypeOK, RunnerPcs
<1>2. CurOK'
  BY DEF RunnerSpawnError, RuntimeInv, CurOK
<1>3. AbsentOK' /\ StartOK'
  BY DEF RunnerSpawnError, RuntimeInv, CurOK, AbsentOK, StartOK, TypeOK,
         RunnerTypeOK
<1>4. ArmedOK'
  BY DEF RunnerSpawnError, RuntimeInv, CurOK, ArmedOK
<1>5. ClockOK'
  BY DEF RunnerSpawnError, RuntimeInv, ClockOK
<1>6. OrphanOK' /\ ChildOK'
  BY DEF RunnerSpawnError, RuntimeInv, OrphanOK, ChildOK, Supervised
<1>7. OpenOK'
  BY DEF RunnerSpawnError, RuntimeInv, OpenOK
<1>8. DoomedOK'
  BY DEF RunnerSpawnError, RuntimeInv, DoomedOK
<1>9. OutcomeOK' /\ RequestOK'
  BY DEF RunnerSpawnError, RuntimeInv, CurOK, StartOK, OutcomeOK, RequestOK,
         TypeOK, RunnerTypeOK
<1> QED
  BY <1>1, <1>2, <1>3, <1>4, <1>5, <1>6, <1>7, <1>8, <1>9 DEF RuntimeInv

\* The pid is recorded.
LEMMA RunnerWriteMetadataInv ==
  ASSUME RuntimeInv,
         NEW p \in Runners,
         RunnerWriteMetadata(p),
         UNCHANGED <<passVars, requestVars>>
  PROVE  RuntimeInv'
<1>1. TypeOK'
  BY DEF RunnerWriteMetadata, UpdateFoundationJobRunMetadata, RuntimeInv,
         TypeOK, LedgerTypeOK, RunnerTypeOK, RuntimeTypeOK, RunnerPcs
<1>2. CurOK'
  BY DEF RunnerWriteMetadata, RuntimeInv, CurOK
<1>3. AbsentOK' /\ StartOK'
  BY DEF RunnerWriteMetadata, UpdateFoundationJobRunMetadata, RuntimeInv,
         AbsentOK, StartOK
<1>4. ArmedOK'
  BY DEF RunnerWriteMetadata, RuntimeInv, ArmedOK
<1>5. ClockOK'
  BY DEF RunnerWriteMetadata, RuntimeInv, ClockOK
<1>6. OrphanOK' /\ ChildOK'
  BY DEF RunnerWriteMetadata, RuntimeInv, OrphanOK, ChildOK, Supervised
<1>7. OpenOK'
  BY DEF RunnerWriteMetadata, UpdateFoundationJobRunMetadata, RuntimeInv,
         OpenOK
<1>8. DoomedOK'
  BY DEF RunnerWriteMetadata, UpdateFoundationJobRunMetadata, RuntimeInv,
         DoomedOK
<1>9. OutcomeOK' /\ RequestOK'
  BY DEF RunnerWriteMetadata, UpdateFoundationJobRunMetadata, RuntimeInv,
         OutcomeOK, RequestOK
<1> QED
  BY <1>1, <1>2, <1>3, <1>4, <1>5, <1>6, <1>7, <1>8, <1>9 DEF RuntimeInv

\* The pid cannot be recorded.
LEMMA RunnerMetadataFailsInv ==
  ASSUME RuntimeInv,
         NEW p \in Runners,
         RunnerMetadataFails(p),
         UNCHANGED <<passVars, requestVars>>
  PROVE  RuntimeInv'
<1>1. TypeOK'
  BY DEF RunnerMetadataFails, RuntimeInv, TypeOK, LedgerTypeOK, RunnerTypeOK,
         RuntimeTypeOK, RunnerPcs
<1>2. CurOK'
  BY DEF RunnerMetadataFails, RuntimeInv, CurOK
<1>3. AbsentOK' /\ StartOK'
  BY DEF RunnerMetadataFails, RuntimeInv, AbsentOK, StartOK
<1>4. ArmedOK'
  BY DEF RunnerMetadataFails, RuntimeInv, ArmedOK
<1>5. ClockOK'
  BY DEF RunnerMetadataFails, RuntimeInv, ClockOK
<1>6. OrphanOK' /\ ChildOK'
  BY DEF RunnerMetadataFails, RuntimeInv, OrphanOK, ChildOK, Supervised
<1>7. OpenOK'
  BY DEF RunnerMetadataFails, RuntimeInv, OpenOK
<1>8. DoomedOK'
  BY DEF RunnerMetadataFails, RuntimeInv, DoomedOK
<1>9. OutcomeOK' /\ RequestOK'
  BY DEF RunnerMetadataFails, RuntimeInv, OutcomeOK, RequestOK
<1> QED
  BY <1>1, <1>2, <1>3, <1>4, <1>5, <1>6, <1>7, <1>8, <1>9 DEF RuntimeInv

\* The child is gone before the row is closed.
LEMMA RunnerTerminateInv ==
  ASSUME RuntimeInv,
         NEW p \in Runners,
         RunnerTerminate(p),
         UNCHANGED <<passVars, requestVars>>
  PROVE  RuntimeInv'
<1>1. TypeOK'
  BY DEF RunnerTerminate, RuntimeInv, TypeOK, LedgerTypeOK, RunnerTypeOK,
         RuntimeTypeOK, RunnerPcs, ChildStates
<1>2. CurOK'
  BY DEF RunnerTerminate, RuntimeInv, CurOK
<1>3. AbsentOK' /\ StartOK'
  BY DEF RunnerTerminate, RuntimeInv, AbsentOK, StartOK
<1>4. ArmedOK'
  BY DEF RunnerTerminate, RuntimeInv, ArmedOK, TypeOK, RunnerTypeOK
<1>5. ClockOK'
  BY KillAtNat DEF RunnerTerminate, RuntimeInv, ClockOK
<1>6. OrphanOK' /\ ChildOK'
  BY DEF RunnerTerminate, RuntimeInv, OrphanOK, ChildOK, Supervised, TypeOK,
         RunnerTypeOK
<1>7. OpenOK'
  BY DEF RunnerTerminate, RuntimeInv, OpenOK
<1>8. DoomedOK'
  BY DEF RunnerTerminate, RuntimeInv, DoomedOK
<1>9. OutcomeOK' /\ RequestOK'
  BY DEF RunnerTerminate, RuntimeInv, OutcomeOK, RequestOK
<1> QED
  BY <1>1, <1>2, <1>3, <1>4, <1>5, <1>6, <1>7, <1>8, <1>9 DEF RuntimeInv

\* The timeout fires before anything is decided.
LEMMA RunnerTimeoutInv ==
  ASSUME RuntimeInv,
         NEW p \in Runners,
         RunnerTimeout(p),
         UNCHANGED <<passVars, requestVars>>
  PROVE  RuntimeInv'
<1>1. TypeOK'
  BY DEF RunnerTimeout, RuntimeInv, TypeOK, LedgerTypeOK, RunnerTypeOK,
         RuntimeTypeOK
<1>2. CurOK'
  BY DEF RunnerTimeout, RuntimeInv, CurOK
<1>3. AbsentOK' /\ StartOK'
  BY DEF RunnerTimeout, RuntimeInv, CurOK, AbsentOK, StartOK
<1>4. ArmedOK'
  BY DEF RunnerTimeout, RuntimeInv, ArmedOK
<1>5. ClockOK'
  BY DEF RunnerTimeout, RuntimeInv, ClockOK
<1>6. OrphanOK' /\ ChildOK'
  BY DEF RunnerTimeout, RuntimeInv, OrphanOK, ChildOK, Supervised
<1>7. OpenOK'
  BY DEF RunnerTimeout, RuntimeInv, OpenOK
<1>8. DoomedOK'
  BY DEF RunnerTimeout, RuntimeInv, DoomedOK
<1>9. OutcomeOK' /\ RequestOK'
  BY DEF RunnerTimeout, RuntimeInv, ArmedOK, OutcomeOK, RequestOK
<1> QED
  BY <1>1, <1>2, <1>3, <1>4, <1>5, <1>6, <1>7, <1>8, <1>9 DEF RuntimeInv

\* SIGKILL.
LEMMA RunnerKillInv ==
  ASSUME RuntimeInv,
         NEW p \in Runners,
         RunnerKill(p),
         UNCHANGED <<passVars, requestVars>>
  PROVE  RuntimeInv'
<1>1. TypeOK'
  BY DEF RunnerKill, RuntimeInv, TypeOK, LedgerTypeOK, RunnerTypeOK,
         RuntimeTypeOK, ChildStates
<1>2. CurOK'
  BY DEF RunnerKill, RuntimeInv, CurOK
<1>3. AbsentOK' /\ StartOK'
  BY DEF RunnerKill, RuntimeInv, AbsentOK, StartOK
<1>4. ArmedOK'
  BY DEF RunnerKill, RuntimeInv, ArmedOK
<1>5. ClockOK'
  BY DEF RunnerKill, RuntimeInv, ClockOK
<1>6. OrphanOK' /\ ChildOK'
  BY DEF RunnerKill, RuntimeInv, OrphanOK, ChildOK, Supervised
<1>7. OpenOK'
  BY DEF RunnerKill, RuntimeInv, OpenOK
<1>8. DoomedOK'
  BY DEF RunnerKill, RuntimeInv, DoomedOK
<1>9. OutcomeOK' /\ RequestOK'
  BY DEF RunnerKill, RuntimeInv, OutcomeOK, RequestOK
<1> QED
  BY <1>1, <1>2, <1>3, <1>4, <1>5, <1>6, <1>7, <1>8, <1>9 DEF RuntimeInv

\* The child has ended; its exit code and the timeout decide.
LEMMA RunnerCloseInv ==
  ASSUME RuntimeInv,
         NEW p \in Runners,
         RunnerClose(p),
         UNCHANGED <<passVars, requestVars>>
  PROVE  RuntimeInv'
<1>1. TypeOK'
  BY DEF RunnerClose, RuntimeInv, TypeOK, LedgerTypeOK, RunnerTypeOK,
         RuntimeTypeOK, RunnerPcs
<1>2. CurOK'
  BY DEF RunnerClose, RuntimeInv, CurOK
<1>3. AbsentOK' /\ StartOK'
  BY DEF RunnerClose, RuntimeInv, AbsentOK, StartOK
<1>4. ArmedOK'
  BY DEF RunnerClose, RuntimeInv, CurOK, ArmedOK, TypeOK, RunnerTypeOK
<1>5. ClockOK'
  BY KillAtNat DEF RunnerClose, RuntimeInv, ClockOK
<1>6. OrphanOK' /\ ChildOK'
  BY DEF RunnerClose, RuntimeInv, OrphanOK, ChildOK, Supervised
<1>7. OpenOK'
  BY DEF RunnerClose, RuntimeInv, OpenOK
<1>8. DoomedOK'
  BY DEF RunnerClose, RuntimeInv, DoomedOK
<1>9. OutcomeOK' /\ RequestOK'
  BY KillAtNat DEF RunnerClose, RuntimeInv, CurOK, OutcomeOK, RequestOK,
         TypeOK, RunnerTypeOK
<1> QED
  BY <1>1, <1>2, <1>3, <1>4, <1>5, <1>6, <1>7, <1>8, <1>9 DEF RuntimeInv

\* The decided outcome is written.
LEMMA RunnerFinishInv ==
  ASSUME RuntimeInv,
         NEW p \in Runners,
         RunnerFinish(p),
         UNCHANGED <<passVars, requestVars>>
  PROVE  RuntimeInv'
<1>1. TypeOK'
  <2>1. status' \in [RunIds -> Active \union Closed \union {"absent"}]
    <3>1. cur[p] \in RunIds
      BY DEF RunnerFinish, RuntimeInv, CurOK, TypeOK, RunnerTypeOK
    <3>2. outcome[cur[p]] \in {"succeeded", "failed"}
      BY <3>1 DEF RunnerFinish, RuntimeInv, OutcomeOK, TypeOK, RunnerTypeOK
    <3>3. /\ status \in [RunIds -> Active \union Closed \union {"absent"}]
          /\ status' = [status EXCEPT ![cur[p]] = outcome[cur[p]]]
      BY DEF RunnerFinish, FinishFoundationJobRun, RuntimeInv, TypeOK, LedgerTypeOK
    <3> QED BY <3>2, <3>3
  <2>2. pc' \in [Runners -> RunnerPcs] /\ age' \in [RunIds -> Nat]
    BY DEF RunnerFinish, RuntimeInv, TypeOK, RunnerTypeOK, RunnerPcs
  <2> QED
    BY <2>1, <2>2 DEF RunnerFinish, FinishFoundationJobRun, RuntimeInv, TypeOK,
                      LedgerTypeOK, RunnerTypeOK, RuntimeTypeOK
<1>2. CurOK'
  BY DEF RunnerFinish, RuntimeInv, CurOK
<1>3. AbsentOK' /\ StartOK'
  BY KillAtNat DEF RunnerFinish, FinishFoundationJobRun, RuntimeInv, CurOK,
         AbsentOK, StartOK, TypeOK, RunnerTypeOK
<1>4. ArmedOK'
  BY DEF RunnerFinish, RuntimeInv, CurOK, ArmedOK
<1>5. ClockOK'
  BY DEF RunnerFinish, RuntimeInv, ClockOK
<1>6. OrphanOK' /\ ChildOK'
  BY KillAtNat DEF RunnerFinish, RuntimeInv, OrphanOK, ChildOK, Supervised
<1>7. OpenOK'
  BY DEF RunnerFinish, FinishFoundationJobRun, RuntimeInv, CurOK, OpenOK
<1>8. DoomedOK'
  BY KillAtNat, RunnerAssumption DEF RunnerFinish, FinishFoundationJobRun,
         RuntimeInv, CurOK, DoomedOK, TypeOK, RunnerTypeOK
<1>9. OutcomeOK' /\ RequestOK'
  BY DEF RunnerFinish, FinishFoundationJobRun, RuntimeInv, OutcomeOK,
         RequestOK, TypeOK, RunnerTypeOK
<1> QED
  BY <1>1, <1>2, <1>3, <1>4, <1>5, <1>6, <1>7, <1>8, <1>9 DEF RuntimeInv

\* The run is failed; its child is gone.
LEMMA RunnerFailFinishInv ==
  ASSUME RuntimeInv,
         NEW p \in Runners,
         RunnerFailFinish(p),
         UNCHANGED <<passVars, requestVars>>
  PROVE  RuntimeInv'
<1>1. TypeOK'
  BY DEF RunnerFailFinish, FinishFoundationJobRun, RuntimeInv, TypeOK,
         LedgerTypeOK, RunnerTypeOK, RuntimeTypeOK, RunnerPcs
<1>2. CurOK'
  BY DEF RunnerFailFinish, RuntimeInv, CurOK, TypeOK, RunnerTypeOK
<1>3. AbsentOK' /\ StartOK'
  BY DEF RunnerFailFinish, FinishFoundationJobRun, RuntimeInv, CurOK,
         AbsentOK, StartOK
<1>4. ArmedOK'
  BY DEF RunnerFailFinish, RuntimeInv, CurOK, ArmedOK
<1>5. ClockOK'
  BY DEF RunnerFailFinish, RuntimeInv, ClockOK
<1>6. OrphanOK' /\ ChildOK'
  BY RunnerAssumption, LedgerAssumption, RuntimeAssumption DEF
         RunnerFailFinish, RuntimeInv, OrphanOK, ChildOK, Supervised, TypeOK,
         RunnerTypeOK
<1>7. OpenOK'
  BY RunnerAssumption DEF RunnerFailFinish, FinishFoundationJobRun,
         RuntimeInv, CurOK, OpenOK
<1>8. DoomedOK'
  BY DEF RunnerFailFinish, FinishFoundationJobRun, RuntimeInv, DoomedOK
<1>9. OutcomeOK' /\ RequestOK'
  BY DEF RunnerFailFinish, FinishFoundationJobRun, RuntimeInv, OutcomeOK,
         RequestOK
<1> QED
  BY <1>1, <1>2, <1>3, <1>4, <1>5, <1>6, <1>7, <1>8, <1>9 DEF RuntimeInv

\* The row stays as it is; the child is gone.
LEMMA RunnerFinishFailsInv ==
  ASSUME RuntimeInv,
         NEW p \in Runners,
         RunnerFinishFails(p),
         UNCHANGED <<passVars, requestVars>>
  PROVE  RuntimeInv'
<1>1. TypeOK'
  BY DEF RunnerFinishFails, RuntimeInv, TypeOK, LedgerTypeOK, RunnerTypeOK,
         RuntimeTypeOK, RunnerPcs
<1>2. CurOK'
  BY DEF RunnerFinishFails, RuntimeInv, CurOK, TypeOK, RunnerTypeOK
<1>3. AbsentOK' /\ StartOK'
  BY DEF RunnerFinishFails, RuntimeInv, AbsentOK, StartOK
<1>4. ArmedOK'
  BY DEF RunnerFinishFails, RuntimeInv, ArmedOK
<1>5. ClockOK'
  BY DEF RunnerFinishFails, RuntimeInv, ClockOK
<1>6. OrphanOK' /\ ChildOK'
  BY RunnerAssumption DEF RunnerFinishFails, RuntimeInv, OrphanOK, ChildOK,
         Supervised, TypeOK, RunnerTypeOK
<1>7. OpenOK'
  BY DEF RunnerFinishFails, RuntimeInv, OpenOK
<1>8. DoomedOK'
  BY DEF RunnerFinishFails, RuntimeInv, DoomedOK
<1>9. OutcomeOK' /\ RequestOK'
  BY DEF RunnerFinishFails, RuntimeInv, OutcomeOK, RequestOK, TypeOK,
         RunnerTypeOK
<1> QED
  BY <1>1, <1>2, <1>3, <1>4, <1>5, <1>6, <1>7, <1>8, <1>9 DEF RuntimeInv

\* The run is over.
LEMMA RunnerReturnInv ==
  ASSUME RuntimeInv,
         NEW p \in Runners,
         RunnerReturn(p),
         UNCHANGED <<passVars, requestVars>>
  PROVE  RuntimeInv'
<1>1. TypeOK'
  BY DEF RunnerReturn, RuntimeInv, TypeOK, LedgerTypeOK, RunnerTypeOK,
         RuntimeTypeOK, RunnerPcs
<1>2. CurOK'
  BY DEF RunnerReturn, RuntimeInv, CurOK, TypeOK, RunnerTypeOK
<1>3. AbsentOK' /\ StartOK'
  BY DEF RunnerReturn, RuntimeInv, AbsentOK, StartOK
<1>4. ArmedOK'
  BY DEF RunnerReturn, RuntimeInv, ArmedOK
<1>5. ClockOK'
  BY DEF RunnerReturn, RuntimeInv, ClockOK
<1>6. OrphanOK' /\ ChildOK'
  BY RunnerAssumption DEF RunnerReturn, RuntimeInv, OrphanOK, ChildOK,
         Supervised, TypeOK, RunnerTypeOK
<1>7. OpenOK'
  BY DEF RunnerReturn, RuntimeInv, OpenOK
<1>8. DoomedOK'
  BY DEF RunnerReturn, RuntimeInv, DoomedOK
<1>9. OutcomeOK' /\ RequestOK'
  BY DEF RunnerReturn, RuntimeInv, OutcomeOK, RequestOK
<1> QED
  BY <1>1, <1>2, <1>3, <1>4, <1>5, <1>6, <1>7, <1>8, <1>9 DEF RuntimeInv

\* A runner between two runs takes a fresh run id.
LEMMA PermitInv ==
  ASSUME RuntimeInv,
         NEW p \in Runners,
         NEW j \in Jobs,
         NEW force \in BOOLEAN,
         pc[p] \in {"idle", "pass", "finished"},
         Permit(p, j, force),
         todo' \subseteq todo,
         UNCHANGED <<doomed, requestVars>>
  PROVE  RuntimeInv'
<1>1. TypeOK'
  BY DEF Permit, RuntimeInv, TypeOK, LedgerTypeOK, RunnerTypeOK,
         RuntimeTypeOK, RunnerPcs
<1>2. CurOK'
  BY RunnerAssumption DEF Permit, Fresh, RuntimeInv, CurOK, TypeOK,
         RunnerTypeOK
<1>3. AbsentOK' /\ StartOK'
  BY RunnerAssumption DEF Permit, Fresh, RuntimeInv, AbsentOK, StartOK,
         TypeOK, RunnerTypeOK
<1>4. ArmedOK'
  BY DEF Permit, RuntimeInv, ArmedOK
<1>5. ClockOK'
  BY DEF Permit, RuntimeInv, ClockOK
<1>6. OrphanOK' /\ ChildOK'
  BY DEF Permit, Fresh, RuntimeInv, AbsentOK, OrphanOK, ChildOK, Supervised
<1>7. OpenOK'
  BY DEF Permit, RuntimeInv, OpenOK
<1>8. DoomedOK'
  BY DEF Permit, RuntimeInv, DoomedOK
<1>9. OutcomeOK' /\ RequestOK'
  BY DEF Permit, RuntimeInv, OutcomeOK, RequestOK
<1> QED
  BY <1>1, <1>2, <1>3, <1>4, <1>5, <1>6, <1>7, <1>8, <1>9 DEF RuntimeInv

-----------------------------------------------------------------------------
(* Children, time and crashes *)

\* An exited child is no orphan.
LEMMA ChildExitInv ==
  ASSUME RuntimeInv,
         NEW x \in RunIds,
         ChildExit(x),
         UNCHANGED <<passVars, requestVars>>
  PROVE  RuntimeInv'
<1>1. TypeOK'
  BY DEF ChildExit, RuntimeInv, TypeOK, LedgerTypeOK, RunnerTypeOK,
         RuntimeTypeOK, ChildStates
<1>2. CurOK'
  BY DEF ChildExit, RuntimeInv, CurOK
<1>3. AbsentOK' /\ StartOK'
  BY DEF ChildExit, RuntimeInv, AbsentOK, StartOK
<1>4. ArmedOK'
  BY DEF ChildExit, RuntimeInv, ArmedOK
<1>5. ClockOK'
  BY DEF ChildExit, RuntimeInv, ClockOK
<1>6. OrphanOK' /\ ChildOK'
  BY DEF ChildExit, RuntimeInv, OrphanOK, ChildOK, Supervised, TypeOK,
         RunnerTypeOK
<1>7. OpenOK'
  BY DEF ChildExit, RuntimeInv, OpenOK
<1>8. DoomedOK'
  BY DEF ChildExit, RuntimeInv, DoomedOK, TypeOK, RunnerTypeOK
<1>9. OutcomeOK' /\ RequestOK'
  BY DEF ChildExit, RuntimeInv, OutcomeOK, RequestOK
<1> QED
  BY <1>1, <1>2, <1>3, <1>4, <1>5, <1>6, <1>7, <1>8, <1>9 DEF RuntimeInv

\* Time passes only while every live runner is in time.
LEMMA TickInv ==
  ASSUME RuntimeInv,
         Tick,
         UNCHANGED <<passVars, requestVars>>
  PROVE  RuntimeInv'
<1>1. TypeOK'
  BY DEF Tick, RuntimeInv, TypeOK, LedgerTypeOK, RunnerTypeOK, RuntimeTypeOK
<1>2. CurOK'
  BY DEF Tick, RuntimeInv, CurOK
<1>3. AbsentOK' /\ StartOK'
  BY RunnerAssumption DEF Tick, InTime, Aging, RuntimeInv, CurOK, AbsentOK,
         StartOK, TypeOK, RunnerTypeOK
<1>4. ArmedOK'
  BY RunnerAssumption DEF Tick, InTime, Supervised, RuntimeInv, CurOK,
         ArmedOK, TypeOK, RunnerTypeOK
<1>5. ClockOK'
  BY RunnerAssumption, LedgerAssumption DEF Tick, RuntimeInv, ClockOK, KillAt,
         TypeOK, RunnerTypeOK
<1>6. OrphanOK' /\ ChildOK'
  BY DEF Tick, Supervised, RuntimeInv, OrphanOK, ChildOK
<1>7. OpenOK'
  BY DEF Tick, RuntimeInv, OpenOK
<1>8. DoomedOK'
  BY DEF Tick, RuntimeInv, DoomedOK
<1>9. OutcomeOK' /\ RequestOK'
  BY DEF Tick, RuntimeInv, OutcomeOK, RequestOK
<1> QED
  BY <1>1, <1>2, <1>3, <1>4, <1>5, <1>6, <1>7, <1>8, <1>9 DEF RuntimeInv

\* A crash turns a live child into an orphan.
LEMMA RunnerCrashInv ==
  ASSUME RuntimeInv,
         NEW p \in Runners,
         RunnerCrash(p)
  PROVE  RuntimeInv'
<1>1. TypeOK'
  BY DEF RunnerCrash, RuntimeInv, TypeOK, LedgerTypeOK, RunnerTypeOK,
         RuntimeTypeOK, RunnerPcs
<1>2. CurOK'
  BY DEF RunnerCrash, RuntimeInv, CurOK, TypeOK, RunnerTypeOK
<1>3. AbsentOK' /\ StartOK'
  BY LedgerAssumption, RuntimeAssumption DEF RunnerCrash, RuntimeInv, CurOK,
         AbsentOK, StartOK, TypeOK, RunnerTypeOK
<1>4. ArmedOK'
  BY DEF RunnerCrash, RuntimeInv, CurOK, ArmedOK, TypeOK, RunnerTypeOK
<1>5. ClockOK'
  BY RunnerAssumption, LedgerAssumption DEF RunnerCrash, RuntimeInv, ClockOK,
         KillAt
<1>6. OrphanOK' /\ ChildOK'
  BY RunnerAssumption DEF RunnerCrash, RuntimeInv, CurOK, OrphanOK, ChildOK,
         Supervised, TypeOK, RunnerTypeOK
<1>7. OpenOK'
  BY DEF RunnerCrash, RuntimeInv, OpenOK, TypeOK, RunnerTypeOK
<1>8. DoomedOK'
  BY DEF RunnerCrash, RuntimeInv, DoomedOK, TypeOK, RunnerTypeOK
<1>9. OutcomeOK' /\ RequestOK'
  BY DEF RunnerCrash, RuntimeInv, OutcomeOK, RequestOK, TypeOK, RunnerTypeOK
<1> QED
  BY <1>1, <1>2, <1>3, <1>4, <1>5, <1>6, <1>7, <1>8, <1>9 DEF RuntimeInv

-----------------------------------------------------------------------------
(* The worker's pass *)

\* A run that is stale has outlived its runner's kill: nobody supervises it.
LEMMA WorkerScanInv ==
  ASSUME RuntimeInv,
         WorkerScan
  PROVE  RuntimeInv'
<1>1. TypeOK'
  BY RunnerAssumption DEF WorkerScan, RuntimeInv, TypeOK, LedgerTypeOK,
         RunnerTypeOK, RuntimeTypeOK, RunnerPcs
<1>2. CurOK'
  BY DEF WorkerScan, RuntimeInv, CurOK
<1>3. AbsentOK' /\ StartOK'
  BY DEF WorkerScan, RuntimeInv, AbsentOK, StartOK
<1>4. ArmedOK'
  BY DEF WorkerScan, ArmedOK, RuntimeInv
<1>5. ClockOK'
  BY DEF WorkerScan, ClockOK, RuntimeInv
<1>6. OrphanOK' /\ ChildOK'
  BY DEF WorkerScan, ChildOK, Supervised, RuntimeInv, OrphanOK
<1>7. OpenOK'
  BY DEF WorkerScan, RuntimeInv, OpenOK
<1>8. DoomedOK'
  BY RunnerAssumption, LedgerAssumption DEF WorkerScan, Stale, StaleAfter,
         KillAt, ArmedOK, ClockOK, ChildOK, Supervised, RuntimeInv, StartOK,
         DoomedOK, TypeOK, RunnerTypeOK
<1>9. OutcomeOK' /\ RequestOK'
  BY DEF WorkerScan, RuntimeInv, OutcomeOK, RequestOK
<1> QED
  BY <1>1, <1>2, <1>3, <1>4, <1>5, <1>6, <1>7, <1>8, <1>9 DEF RuntimeInv

\* The doomed rows are closed.
LEMMA WorkerReapInv ==
  ASSUME RuntimeInv,
         WorkerReap
  PROVE  RuntimeInv'
<1>1. TypeOK'
  BY RunnerAssumption DEF WorkerReap, MarkStaleFoundationJobRuns, RuntimeInv,
         TypeOK, LedgerTypeOK, RunnerTypeOK, RuntimeTypeOK, RunnerPcs
<1>2. CurOK'
  BY DEF WorkerReap, RuntimeInv, CurOK
<1>3. AbsentOK' /\ StartOK'
  BY RunnerAssumption DEF WorkerReap, MarkStaleFoundationJobRuns, RuntimeInv,
         CurOK, AbsentOK, StartOK, TypeOK, RunnerTypeOK
<1>4. ArmedOK'
  BY RunnerAssumption DEF WorkerReap, RuntimeInv, CurOK, ArmedOK, TypeOK,
         RunnerTypeOK
<1>5. ClockOK'
  BY DEF WorkerReap, RuntimeInv, ClockOK
<1>6. OrphanOK' /\ ChildOK'
  BY DEF WorkerReap, RuntimeInv, OrphanOK, ChildOK, Supervised
<1>7. OpenOK'
  BY KillAtNat DEF WorkerReap, MarkStaleFoundationJobRuns, RuntimeInv, CurOK,
         OrphanOK, OpenOK, DoomedOK, TypeOK, RunnerTypeOK
<1>8. DoomedOK'
  BY DEF WorkerReap, DoomedOK
<1>9. OutcomeOK' /\ RequestOK'
  BY DEF WorkerReap, MarkStaleFoundationJobRuns, RuntimeInv, OutcomeOK,
         RequestOK
<1> QED
  BY <1>1, <1>2, <1>3, <1>4, <1>5, <1>6, <1>7, <1>8, <1>9 DEF RuntimeInv

\* The statement rolls back and selects nothing.
LEMMA WorkerReapFailsInv ==
  ASSUME RuntimeInv,
         WorkerReapFails
  PROVE  RuntimeInv'
<1>1. TypeOK'
  BY RunnerAssumption DEF WorkerReapFails, RuntimeInv, TypeOK, LedgerTypeOK,
         RunnerTypeOK, RuntimeTypeOK, RunnerPcs
<1>2. CurOK'
  BY DEF WorkerReapFails, RuntimeInv, CurOK
<1>3. AbsentOK' /\ StartOK'
  BY DEF WorkerReapFails, RuntimeInv, AbsentOK, StartOK
<1>4. ArmedOK'
  BY DEF WorkerReapFails, RuntimeInv, ArmedOK
<1>5. ClockOK'
  BY DEF WorkerReapFails, RuntimeInv, ClockOK
<1>6. OrphanOK' /\ ChildOK'
  BY DEF WorkerReapFails, RuntimeInv, OrphanOK, ChildOK, Supervised
<1>7. OpenOK'
  BY DEF WorkerReapFails, RuntimeInv, OpenOK
<1>8. DoomedOK'
  BY DEF WorkerReapFails, DoomedOK
<1>9. OutcomeOK' /\ RequestOK'
  BY DEF WorkerReapFails, RuntimeInv, OutcomeOK, RequestOK
<1> QED
  BY <1>1, <1>2, <1>3, <1>4, <1>5, <1>6, <1>7, <1>8, <1>9 DEF RuntimeInv

\* Selecting jobs touches no run.
LEMMA WorkerSelectInv ==
  ASSUME RuntimeInv,
         WorkerSelect
  PROVE  RuntimeInv'
<1>1. TypeOK'
  BY RunnerAssumption DEF WorkerSelect, RuntimeInv, TypeOK, LedgerTypeOK,
         RunnerTypeOK, RuntimeTypeOK, RunnerPcs
<1>2. CurOK'
  BY DEF WorkerSelect, RuntimeInv, CurOK
<1>3. AbsentOK' /\ StartOK'
  BY DEF WorkerSelect, RuntimeInv, AbsentOK, StartOK
<1>4. ArmedOK'
  BY DEF WorkerSelect, RuntimeInv, ArmedOK
<1>5. ClockOK'
  BY DEF WorkerSelect, RuntimeInv, ClockOK
<1>6. OrphanOK' /\ ChildOK'
  BY DEF WorkerSelect, RuntimeInv, OrphanOK, ChildOK, Supervised
<1>7. OpenOK'
  BY DEF WorkerSelect, RuntimeInv, OpenOK
<1>8. DoomedOK'
  BY DEF WorkerSelect, RuntimeInv, DoomedOK
<1>9. OutcomeOK' /\ RequestOK'
  BY DEF WorkerSelect, RuntimeInv, OutcomeOK, RequestOK
<1> QED
  BY <1>1, <1>2, <1>3, <1>4, <1>5, <1>6, <1>7, <1>8, <1>9 DEF RuntimeInv

\* Dropping a job touches no run.
LEMMA WorkerSkipInv ==
  ASSUME RuntimeInv,
         WorkerSkip
  PROVE  RuntimeInv'
<1>1. UNCHANGED <<status, runnerVars, doomed>>
  BY DEF WorkerSkip
<1>2. TypeOK'
  BY DEF WorkerSkip, runnerVars, RuntimeInv, TypeOK, LedgerTypeOK,
         RunnerTypeOK, RuntimeTypeOK
<1>3. RequestOK'
  BY DEF WorkerSkip, RuntimeInv, RequestOK
<1> QED
  BY <1>1, <1>2, <1>3, FrameInv DEF RuntimeInv

\* The worker goes to rest with no run in hand.
LEMMA WorkerSleepInv ==
  ASSUME RuntimeInv,
         WorkerSleep
  PROVE  RuntimeInv'
<1>1. TypeOK'
  BY RunnerAssumption DEF WorkerSleep, RuntimeInv, TypeOK, LedgerTypeOK,
         RunnerTypeOK, RuntimeTypeOK, RunnerPcs
<1>2. CurOK'
  BY DEF WorkerSleep, RuntimeInv, CurOK
<1>3. AbsentOK' /\ StartOK'
  BY DEF WorkerSleep, RuntimeInv, AbsentOK, StartOK
<1>4. ArmedOK'
  BY DEF WorkerSleep, RuntimeInv, ArmedOK
<1>5. ClockOK'
  BY DEF WorkerSleep, RuntimeInv, ClockOK
<1>6. OrphanOK' /\ ChildOK'
  BY DEF WorkerSleep, RuntimeInv, OrphanOK, ChildOK, Supervised
<1>7. OpenOK'
  BY DEF WorkerSleep, RuntimeInv, OpenOK
<1>8. DoomedOK'
  BY DEF WorkerSleep, RuntimeInv, DoomedOK
<1>9. OutcomeOK' /\ RequestOK'
  BY DEF WorkerSleep, RuntimeInv, OutcomeOK, RequestOK
<1> QED
  BY <1>1, <1>2, <1>3, <1>4, <1>5, <1>6, <1>7, <1>8, <1>9 DEF RuntimeInv

-----------------------------------------------------------------------------
(* The dashboard's requests *)

\* The control row is no part of the invariant but for its type.
LEMMA ControlRouteInv ==
  ASSUME RuntimeInv,
         ControlRoute
  PROVE  RuntimeInv'
<1>1. UNCHANGED <<status, runnerVars, doomed>>
  BY DEF ControlRoute, UpdateFoundationJobControl
<1>2. TypeOK'
  BY RuntimeAssumption DEF ControlRoute, UpdateFoundationJobControl,
         runnerVars, RuntimeInv, TypeOK, LedgerTypeOK, RunnerTypeOK,
         RuntimeTypeOK
<1>3. RequestOK'
  BY DEF ControlRoute, UpdateFoundationJobControl, RuntimeInv, RequestOK
<1> QED
  BY <1>1, <1>2, <1>3, FrameInv DEF RuntimeInv

\* The request remembers a run that has a row.
LEMMA StopReadInv ==
  ASSUME RuntimeInv,
         NEW h \in Handlers,
         NEW x \in RunIds,
         StopRead(h, x)
  PROVE  RuntimeInv'
<1>1. UNCHANGED <<status, runnerVars, doomed>>
  BY DEF StopRead
<1>2. TypeOK'
  BY DEF StopRead, runnerVars, RuntimeInv, TypeOK, LedgerTypeOK, RunnerTypeOK,
         RuntimeTypeOK, RequestPcs
<1>3. RequestOK'
  BY DEF StopRead, RuntimeInv, RequestOK, TypeOK, RuntimeTypeOK
<1> QED
  BY <1>1, <1>2, <1>3, FrameInv DEF RuntimeInv

\* The child may end now, or ignore the signal.
LEMMA StopSignalInv ==
  ASSUME RuntimeInv,
         NEW h \in Handlers,
         StopSignal(h)
  PROVE  RuntimeInv'
<1>1. TypeOK'
  BY DEF StopSignal, RequestOK, RuntimeInv, TypeOK, LedgerTypeOK,
         RunnerTypeOK, RuntimeTypeOK, ChildStates, RequestPcs
<1>2. CurOK'
  BY DEF StopSignal, RuntimeInv, CurOK
<1>3. AbsentOK' /\ StartOK'
  BY DEF StopSignal, RuntimeInv, AbsentOK, StartOK
<1>4. ArmedOK'
  BY DEF StopSignal, RuntimeInv, ArmedOK
<1>5. ClockOK'
  BY DEF StopSignal, RuntimeInv, ClockOK
<1>6. OrphanOK' /\ ChildOK'
  BY DEF StopSignal, RuntimeInv, OrphanOK, ChildOK, Supervised, TypeOK,
         RunnerTypeOK
<1>7. OpenOK'
  BY DEF StopSignal, RuntimeInv, OpenOK
<1>8. DoomedOK'
  BY DEF StopSignal, RuntimeInv, DoomedOK, TypeOK, RunnerTypeOK
<1>9. OutcomeOK' /\ RequestOK'
  BY DEF StopSignal, RequestOK, RuntimeInv, OutcomeOK
<1> QED
  BY <1>1, <1>2, <1>3, <1>4, <1>5, <1>6, <1>7, <1>8, <1>9 DEF RuntimeInv

\* The row is cancelled while the child may live.
LEMMA StopMarkInv ==
  ASSUME RuntimeInv,
         NEW h \in Handlers,
         StopMark(h)
  PROVE  RuntimeInv'
<1>1. TypeOK'
  BY DEF StopMark, FinishFoundationJobRun, RequestOK, RuntimeInv, TypeOK,
         LedgerTypeOK, RunnerTypeOK, RuntimeTypeOK, RequestPcs
<1>2. CurOK'
  BY DEF StopMark, RuntimeInv, CurOK
<1>3. AbsentOK' /\ StartOK'
  BY RunnerAssumption DEF StopMark, FinishFoundationJobRun, RuntimeInv,
         AbsentOK, StartOK
<1>4. ArmedOK'
  BY RunnerAssumption DEF StopMark, RuntimeInv, ArmedOK, TypeOK, RunnerTypeOK
<1>5. ClockOK'
  BY DEF StopMark, RuntimeInv, ClockOK
<1>6. OrphanOK' /\ ChildOK'
  BY DEF StopMark, RuntimeInv, OrphanOK, ChildOK, Supervised
<1>7. OpenOK'
  BY DEF StopMark, FinishFoundationJobRun, RuntimeInv, OpenOK
<1>8. DoomedOK'
  BY DEF StopMark, FinishFoundationJobRun, RuntimeInv, DoomedOK
<1>9. OutcomeOK' /\ RequestOK'
  BY DEF StopMark, FinishFoundationJobRun, RequestOK, RuntimeInv, OutcomeOK,
         TypeOK, RuntimeTypeOK
<1> QED
  BY <1>1, <1>2, <1>3, <1>4, <1>5, <1>6, <1>7, <1>8, <1>9 DEF RuntimeInv

\* The request remembers its job.
LEMMA DecommissionReadInv ==
  ASSUME RuntimeInv,
         NEW h \in Handlers,
         NEW j \in Jobs,
         DecommissionRead(h, j)
  PROVE  RuntimeInv'
<1>1. UNCHANGED <<status, runnerVars, doomed>>
  BY DEF DecommissionRead
<1>2. TypeOK'
  BY DEF DecommissionRead, runnerVars, RuntimeInv, TypeOK, LedgerTypeOK,
         RunnerTypeOK, RuntimeTypeOK, RequestPcs
<1>3. RequestOK'
  BY DEF DecommissionRead, RuntimeInv, RequestOK, TypeOK, RuntimeTypeOK
<1> QED
  BY <1>1, <1>2, <1>3, FrameInv DEF RuntimeInv

\* The control row again.
LEMMA DecommissionWriteInv ==
  ASSUME RuntimeInv,
         NEW h \in Handlers,
         DecommissionWrite(h)
  PROVE  RuntimeInv'
<1>1. UNCHANGED <<status, runnerVars, doomed>>
  BY DEF DecommissionWrite, UpdateFoundationJobControl
<1>2. TypeOK'
  BY DEF DecommissionWrite, UpdateFoundationJobControl, runnerVars, RequestOK,
         RuntimeInv, TypeOK, LedgerTypeOK, RunnerTypeOK, RuntimeTypeOK,
         ControlModes, ControlFlags, RuntimeModes, RequestPcs
<1>3. RequestOK'
  BY DEF DecommissionWrite, UpdateFoundationJobControl, RequestOK, RuntimeInv,
         TypeOK, RuntimeTypeOK
<1> QED
  BY <1>1, <1>2, <1>3, FrameInv DEF RuntimeInv

\* The request forgets.
LEMMA RequestAbortInv ==
  ASSUME RuntimeInv,
         NEW h \in Handlers,
         RequestAbort(h)
  PROVE  RuntimeInv'
<1>1. UNCHANGED <<status, runnerVars, doomed>>
  BY DEF RequestAbort
<1>2. TypeOK'
  BY DEF RequestAbort, runnerVars, RuntimeInv, TypeOK, LedgerTypeOK,
         RunnerTypeOK, RuntimeTypeOK, RequestPcs
<1>3. RequestOK'
  BY DEF RequestAbort, RuntimeInv, RequestOK, TypeOK, RuntimeTypeOK
<1> QED
  BY <1>1, <1>2, <1>3, FrameInv DEF RuntimeInv

-----------------------------------------------------------------------------
(* The invariant *)

\* Nothing has happened yet: no rows, no runners at work, no requests.
LEMMA InitInv ==
  ASSUME Init
  PROVE  RuntimeInv
<1>1. TypeOK
  BY RunnerAssumption DEF Init, LedgerInit, RunnerInit, TypeOK, LedgerTypeOK, RunnerTypeOK,
         RuntimeTypeOK, ControlModes, ControlFlags, RunnerPcs, ChildStates, RequestPcs
<1>2. CurOK /\ AbsentOK /\ StartOK /\ ArmedOK
  BY DEF Init, LedgerInit, RunnerInit, CurOK, AbsentOK, StartOK, ArmedOK
<1>3. ClockOK
  BY KillAtNat DEF Init, RunnerInit, ClockOK
<1>4. OrphanOK /\ ChildOK /\ OpenOK /\ DoomedOK
  BY DEF Init, RunnerInit, OrphanOK, ChildOK, OpenOK, DoomedOK
<1>5. OutcomeOK /\ RequestOK
  BY DEF Init, LedgerInit, RunnerInit, OutcomeOK, RequestOK
<1> QED
  BY <1>1, <1>2, <1>3, <1>4, <1>5 DEF RuntimeInv

\* Nothing happens, and everything stays as it is.
LEMMA StutterInv ==
  ASSUME RuntimeInv, UNCHANGED vars
  PROVE  RuntimeInv'
<1>1. UNCHANGED <<status, runnerVars, doomed>>
  BY DEF vars
<1>2. TypeOK'
  BY DEF RuntimeInv, TypeOK, LedgerTypeOK, RunnerTypeOK, RuntimeTypeOK, vars, runnerVars
<1>3. RequestOK'
  BY DEF RuntimeInv, RequestOK, vars
<1> QED
  BY <1>1, <1>2, <1>3, FrameInv DEF RuntimeInv

\* Every step of the worker keeps the invariant.
LEMMA WorkerStepInv ==
  ASSUME RuntimeInv, WorkerStep
  PROVE  RuntimeInv'
<1>1. CASE WorkerRun
  <2>1. PICK j \in todo : Permit(Worker, j, FALSE) /\ todo' = todo \ {j}
    BY <1>1 DEF WorkerRun
  <2>2. j \in Jobs
    BY <2>1 DEF RuntimeInv, TypeOK, RuntimeTypeOK
  <2>3. todo' \subseteq todo
    BY <2>1
  <2>4. pc[Worker] \in {"idle", "pass", "finished"} /\ UNCHANGED <<doomed, requestVars>>
    BY <1>1 DEF WorkerRun
  <2> QED
    BY <2>1, <2>2, <2>3, <2>4, PermitInv, RunnerAssumption
<1> QED
  BY <1>1, WorkerScanInv, WorkerReapInv, WorkerReapFailsInv, WorkerSelectInv,
     WorkerSkipInv, WorkerSleepInv DEF WorkerStep

\* Every step of a live runner keeps the invariant.
LEMMA ProgressInv ==
  ASSUME RuntimeInv, NEW p \in Runners, Progress(p)
  PROVE  RuntimeInv'
<1>1. CASE RunnerFollowUp(p)
  <2>1. PICK j \in FollowUps[JobOf[cur[p]]] : Permit(p, j, TRUE)
    BY <1>1 DEF RunnerFollowUp
  <2>2. pc[p] = "finished" /\ UNCHANGED <<passVars, requestVars>>
    BY <1>1 DEF RunnerFollowUp, Progress
  <2>3. JobOf[cur[p]] \in Jobs
    BY <2>2, LedgerAssumption DEF RuntimeInv, CurOK, TypeOK, RunnerTypeOK
  <2>4. j \in Jobs
    BY <2>1, <2>3, RunnerAssumption
  <2> QED
    BY <2>1, <2>2, <2>4, PermitInv
<1>2. CASE \/ RunnerBegin(p) \/ RunnerCreate(p) \/ RunnerCreateFails(p)
           \/ RunnerCreateAckLost(p) \/ RunnerSpawn(p) \/ RunnerSpawnError(p)
           \/ RunnerWriteMetadata(p) \/ RunnerMetadataFails(p)
  BY <1>2, RunnerBeginInv, RunnerCreateInv, RunnerCreateFailsInv,
     RunnerCreateAckLostInv, RunnerSpawnInv, RunnerSpawnErrorInv,
     RunnerWriteMetadataInv, RunnerMetadataFailsInv DEF Progress
<1>3. CASE \/ RunnerTerminate(p) \/ RunnerTimeout(p) \/ RunnerKill(p) \/ RunnerClose(p)
           \/ RunnerFinish(p) \/ RunnerFailFinish(p) \/ RunnerFinishFails(p)
           \/ RunnerReturn(p)
  BY <1>3, RunnerTerminateInv, RunnerTimeoutInv, RunnerKillInv, RunnerCloseInv,
     RunnerFinishInv, RunnerFailFinishInv, RunnerFinishFailsInv, RunnerReturnInv
     DEF Progress
<1> QED
  BY <1>1, <1>2, <1>3 DEF Progress, RunnerStep

\* Every step of the runtime keeps the invariant.
LEMMA NextInv ==
  ASSUME RuntimeInv, [Next]_vars
  PROVE  RuntimeInv'
<1>1. ASSUME NEW p \in Runners, OperatorRun(p)
      PROVE  RuntimeInv'
  <2>1. PICK j \in Jobs, force \in BOOLEAN : Permit(p, j, force)
    BY <1>1 DEF OperatorRun
  <2>2. pc[p] = "idle" /\ todo' \subseteq todo /\ UNCHANGED <<doomed, requestVars>>
    BY <1>1 DEF OperatorRun
  <2> QED
    BY <2>1, <2>2, PermitInv
<1>2. ASSUME NEW h \in Handlers, Request(h)
      PROVE  RuntimeInv'
  BY <1>2, StopReadInv, StopSignalInv, StopMarkInv, DecommissionReadInv,
     DecommissionWriteInv, RequestAbortInv DEF Request
<1>3. ASSUME NEW r \in RunIds, Exit(r)
      PROVE  RuntimeInv'
  BY <1>3, ChildExitInv DEF Exit
<1>4. CASE Clock
  BY <1>4, TickInv DEF Clock
<1> QED
  BY <1>1, <1>2, <1>3, <1>4, WorkerStepInv, ProgressInv, RunnerCrashInv,
     ControlRouteInv, StutterInv DEF Next

\* The invariant the theorems below rest on holds in every reachable state.
THEOREM Invariant == Spec => []RuntimeInv
<1>1. Init => RuntimeInv
  BY InitInv
<1>2. RuntimeInv /\ [Next]_vars => RuntimeInv'
  BY NextInv
<1> QED
  BY <1>1, <1>2, PTL DEF Spec

-----------------------------------------------------------------------------
(* The runtime is a client of the ledger *)

\* A runner's step is one transaction on the ledger, or none.
LEMMA ProgressIsLedgerStep ==
  ASSUME RuntimeInv, NEW p \in Runners, Progress(p)
  PROVE  LedgerNext \/ UNCHANGED ledgerVars
<1>1. cur[p] \in RunIds \/ pc[p] \in Resting
  BY DEF RuntimeInv, CurOK, TypeOK, RunnerTypeOK
<1>2. CASE RunnerBegin(p)
  BY <1>1, <1>2 DEF RunnerBegin, LedgerNext
<1>3. CASE RunnerCreate(p) \/ RunnerCreateAckLost(p)
  BY <1>1, <1>3 DEF RunnerCreate, RunnerCreateAckLost, LedgerNext
<1>4. CASE RunnerWriteMetadata(p)
  BY <1>1, <1>4 DEF RunnerWriteMetadata, LedgerNext
<1>5. CASE RunnerFinish(p)
  <2>1. outcome[cur[p]] \in Closed
    BY <1>1, <1>5 DEF RunnerFinish, RuntimeInv, OutcomeOK, TypeOK, RunnerTypeOK
  <2> QED
    BY <1>1, <1>5, <2>1 DEF RunnerFinish, LedgerNext
<1>6. CASE RunnerFailFinish(p)
  BY <1>1, <1>6 DEF RunnerFailFinish, LedgerNext
<1> QED
  BY <1>2, <1>3, <1>4, <1>5, <1>6
  DEF Progress, RunnerStep, RunnerCreateFails, RunnerSpawn, RunnerSpawnError,
      RunnerMetadataFails, RunnerTerminate, RunnerTimeout, RunnerKill, RunnerClose,
      RunnerFinishFails, RunnerReturn, RunnerFollowUp, Permit

\* So is a dashboard request's.
LEMMA RequestIsLedgerStep ==
  ASSUME RuntimeInv, NEW h \in Handlers, Request(h)
  PROVE  LedgerNext \/ UNCHANGED ledgerVars
<1>1. CASE StopMark(h)
  BY <1>1 DEF StopMark, LedgerNext, RuntimeInv, RequestOK
<1>2. CASE DecommissionWrite(h)
  BY <1>2 DEF DecommissionWrite, LedgerNext, RuntimeInv, RequestOK,
              ControlModes, ControlFlags, RuntimeModes
<1> QED
  BY <1>1, <1>2 DEF Request, StopRead, StopSignal, DecommissionRead, RequestAbort

\* Whatever the runtime does is a transaction of the ledger, or does not
\* touch the tables.
LEMMA StepIsLedgerStep ==
  ASSUME RuntimeInv, [Next]_vars
  PROVE  [LedgerNext]_ledgerVars
<1>1. CASE WorkerStep
  <2>1. CASE WorkerReap
    BY <2>1 DEF WorkerReap, LedgerNext, RuntimeInv, TypeOK, RuntimeTypeOK
  <2> QED
    BY <1>1, <2>1 DEF WorkerStep, WorkerScan, WorkerReapFails, WorkerSelect, WorkerRun,
                      WorkerSkip, WorkerSleep, Permit
<1>2. CASE ControlRoute
  BY <1>2, RuntimeAssumption DEF ControlRoute, LedgerNext
<1>3. ASSUME NEW p \in Runners, OperatorRun(p) \/ RunnerCrash(p)
      PROVE  UNCHANGED ledgerVars
  BY <1>3 DEF OperatorRun, RunnerCrash, Permit
<1>4. CASE Clock
  BY <1>4 DEF Clock, Tick
<1>5. CASE UNCHANGED vars
  BY <1>5 DEF vars
<1> QED
  BY <1>1, <1>2, <1>3, <1>4, <1>5, ProgressIsLedgerStep, RequestIsLedgerStep
  DEF Next, Exit, ChildExit

\* The runtime, with its crashes, lost answers and requests, behaves towards
\* the tables as the ledger's specification allows: what the first part
\* proves of any client holds of it.
THEOREM RefinesLedger == Spec => LedgerSpec
<1>1. Init => LedgerInit
  BY DEF Init
<1>2. RuntimeInv /\ [Next]_vars => [LedgerNext]_ledgerVars
  BY StepIsLedgerStep
<1> QED
  BY <1>1, <1>2, Invariant, PTL DEF Spec, LedgerSpec

-----------------------------------------------------------------------------
(* What follows *)

\* Every variable of the runtime keeps its type.
THEOREM TypeCorrect == Spec => []TypeOK
<1>1. RuntimeInv => TypeOK
  BY DEF RuntimeInv
<1> QED
  BY <1>1, Invariant, PTL

\* In the running system the rows of a job implement one lock, taken at most
\* once by each run and never held again by a closed one.
THEOREM RuntimeImplementsLock == Spec => ImplementsLock
BY RefinesLedger, LedgerImplementsLock, PTL

\* A live child whose runner has not crashed has an active row, or one that
\* an operator's stop has just cancelled: neither the reaper nor a failed
\* metadata write closes the row of a supervised child.
THEOREM ChildOnTheBooks == Spec => []LiveChildIsOnTheBooks
<1>1. RuntimeInv => LiveChildIsOnTheBooks
  BY DEF RuntimeInv, ChildOK, OpenOK, Supervised, LiveChildIsOnTheBooks
<1> QED
  BY <1>1, Invariant, PTL

\* Two children of one job overlap only after a stop or a crash.
THEOREM NoOverlap == Spec => []OverlapNeedsStopOrCrash
<1>1. LiveChildIsOnTheBooks /\ OneActiveRunPerJob => OverlapNeedsStopOrCrash
  BY DEF LiveChildIsOnTheBooks, OneActiveRunPerJob, OverlapNeedsStopOrCrash
<1> QED
  BY <1>1, ChildOnTheBooks, RefinesLedger, OneActiveRun, PTL

\* A run recorded as succeeded had a child that exited 0 before its timeout.
THEOREM SuccessEarned == Spec => []SuccessIsEarned
<1>1. RuntimeInv => SuccessIsEarned
  BY DEF RuntimeInv, OutcomeOK, SuccessIsEarned
<1> QED
  BY <1>1, Invariant, PTL

-----------------------------------------------------------------------------
(* What the release of the lock rests on: time works for the reaper        *)

\* A child that has not lost its runner is supervised and within its budget:
\* it is never older than its start, its timeout and its kill together.
ChildEndsInTime ==
  \A r \in RunIds : child[r] = "alive" /\ r \notin orphans =>
    /\ Supervised(r)
    /\ timer[r] <= KillAt(r) /\ age[r] <= StartSlack + KillAt(r)

\* An active run is closed or grows older: no crash, lost answer, failed write,
\* stop or follow-up sets its clock back, a tick moves it until it is stale,
\* and a reaper that has selected the run closes it.
ActiveRunAges ==
  [][\A r \in RunIds : status[r] \in Active /\ status'[r] \in Active =>
       /\ age'[r] >= age[r]
       /\ Clock /\ age[r] <= StaleAfter(r) => age'[r] = age[r] + 1
       /\ WorkerReap => r \notin doomed]_vars

\* For any budgets, a child whose runner is alive ends in time.
THEOREM ChildrenEndInTime == Spec => []ChildEndsInTime
<1>1. RuntimeInv => ChildEndsInTime
  <2> SUFFICES ASSUME RuntimeInv, NEW r \in RunIds, child[r] = "alive", r \notin orphans
               PROVE  /\ Supervised(r) /\ timer[r] <= KillAt(r)
                      /\ age[r] <= StartSlack + KillAt(r)
    BY DEF ChildEndsInTime
  <2>1. Supervised(r) /\ timer[r] <= KillAt(r)
    BY DEF RuntimeInv, ChildOK, ClockOK
  <2>2. age[r] <= StartSlack + timer[r]
    BY <2>1 DEF Supervised, RuntimeInv, ArmedOK
  <2>3. age[r] \in Nat /\ timer[r] \in Nat /\ StartSlack \in Nat /\ KillAt(r) \in Nat
    BY KillAtNat, RunnerAssumption DEF RuntimeInv, TypeOK, RunnerTypeOK
  <2> QED BY <2>1, <2>2, <2>3
<1> QED BY <1>1, Invariant, PTL

\* Ages are reset with the row's closing, or before the row is there.
LEMMA AgeKept ==
  ASSUME RuntimeInv, [Next]_vars, NEW r \in RunIds,
         status[r] \in Active, status'[r] \in Active
  PROVE  age'[r] >= age[r]
<1>1. age[r] \in Nat /\ \A p \in Runners : cur[p] \in RunIds \union {NoRun}
  BY DEF RuntimeInv, TypeOK, RunnerTypeOK
<1>2. SUFFICES age'[r] = age[r] \/ age'[r] = age[r] + 1
  BY <1>1
<1>3. CASE \E p \in Runners : Progress(p)
  <2>1. PICK p \in Runners : Progress(p)
    BY <1>3
  <2>2. CASE RunnerCreateFails(p)
    <3>1. status[cur[p]] = "absent" /\ cur[p] # r
      BY <2>2 DEF RunnerCreateFails, RuntimeInv, StartOK
    <3> QED BY <1>1, <2>2, <3>1 DEF RunnerCreateFails, RuntimeInv, TypeOK, RunnerTypeOK
  <2>3. CASE RunnerFinish(p) \/ RunnerFailFinish(p)
    <3>1. cur[p] \in RunIds /\ outcome[cur[p]] \in {"none", "succeeded", "failed"}
      BY <1>1, <2>3 DEF RunnerFinish, RunnerFailFinish, RuntimeInv, CurOK, TypeOK, RunnerTypeOK
    <3>2. cur[p] # r
      BY <2>3, <3>1 DEF RunnerFinish, RunnerFailFinish, FinishFoundationJobRun,
                        RuntimeInv, TypeOK, LedgerTypeOK, OutcomeOK
    <3> QED BY <2>3, <3>2 DEF RunnerFinish, RunnerFailFinish, RuntimeInv, TypeOK, RunnerTypeOK
  <2>4. CASE ~ (RunnerCreateFails(p) \/ RunnerFinish(p) \/ RunnerFailFinish(p))
    BY <2>1, <2>4 DEF Progress, RunnerStep, RunnerBegin, RunnerCreate, RunnerCreateAckLost,
          RunnerSpawn, RunnerSpawnError, RunnerWriteMetadata, RunnerMetadataFails,
          RunnerTerminate, RunnerTimeout, RunnerKill, RunnerClose, RunnerFinishFails,
          RunnerReturn, RunnerFollowUp, Permit
  <2> QED BY <2>2, <2>3, <2>4
<1>4. CASE \E p \in Runners : RunnerCrash(p)
  BY <1>4 DEF RunnerCrash, RuntimeInv, StartOK
<1>5. CASE WorkerReap
  <2>1. r \notin doomed
    BY <1>5 DEF WorkerReap, MarkStaleFoundationJobRuns
  <2> QED BY <1>5, <2>1 DEF WorkerReap
<1>6. CASE \E h \in Handlers : Request(h)
  <2>1. PICK h \in Handlers : Request(h)
    BY <1>6
  <2>2. CASE StopMark(h)
    <3>1. reqRun[h] # r
      BY <2>2 DEF StopMark, FinishFoundationJobRun, RuntimeInv, TypeOK, LedgerTypeOK, RequestOK
    <3> QED BY <2>2, <3>1 DEF StopMark, RuntimeInv, TypeOK, RunnerTypeOK
  <2> QED
    BY <2>1, <2>2 DEF Request, StopRead, StopSignal, DecommissionRead, DecommissionWrite,
                      RequestAbort, runnerVars
<1>7. CASE Clock
  BY <1>7 DEF Clock, Tick
<1>8. CASE ControlRoute \/ UNCHANGED vars
  BY <1>8 DEF ControlRoute, vars, runnerVars
<1>9. CASE (WorkerStep /\ ~ WorkerReap) \/ \E p \in Runners : OperatorRun(p)
  BY <1>9 DEF WorkerStep, WorkerScan, WorkerReapFails, WorkerSelect, WorkerRun, WorkerSkip,
              WorkerSleep, OperatorRun, Permit, runnerVars
<1>10. CASE \E q \in RunIds : Exit(q)
  BY <1>10 DEF Exit, ChildExit
<1> QED BY <1>3, <1>4, <1>5, <1>6, <1>7, <1>8, <1>9, <1>10 DEF Next

\* For any jobs, runners and crashes, every active run comes nearer to the
\* reaper's deadline with each tick.
THEOREM ActiveRunsAge == Spec => ActiveRunAges
<1>1. ASSUME RuntimeInv, [Next]_vars, NEW r \in RunIds,
             status[r] \in Active, status'[r] \in Active
      PROVE  /\ age'[r] >= age[r]
             /\ Clock /\ age[r] <= StaleAfter(r) => age'[r] = age[r] + 1
             /\ WorkerReap => r \notin doomed
  <2>1. age'[r] >= age[r]
    BY <1>1, AgeKept
  <2>2. Clock /\ age[r] <= StaleAfter(r) => age'[r] = age[r] + 1
    BY <1>1 DEF Clock, Tick, Aging
  <2>3. WorkerReap => r \notin doomed
    BY <1>1 DEF WorkerReap, MarkStaleFoundationJobRuns
  <2> QED BY <2>1, <2>2, <2>3
<1>2. RuntimeInv /\ [Next]_vars =>
        [\A r \in RunIds : status[r] \in Active /\ status'[r] \in Active =>
           /\ age'[r] >= age[r]
           /\ Clock /\ age[r] <= StaleAfter(r) => age'[r] = age[r] + 1
           /\ WorkerReap => r \notin doomed]_vars
  BY <1>1
<1> QED BY <1>2, Invariant, PTL DEF Spec, ActiveRunAges
=============================================================================
