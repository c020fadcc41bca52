------------------------------ MODULE JobLock ------------------------------
(***************************************************************************)
(* What the Foundation job ledger promises its callers, without saying how *)
(* rows, runners or reapers work: a run takes its job's lock at most once  *)
(* in its life, no two runs hold the lock of one job, and a held lock is   *)
(* released in the end.                                                    *)
(***************************************************************************)
CONSTANTS
  Jobs,     \* job keys
  RunIds,   \* run ids; an id is never used twice
  JobOf     \* the job a run id belongs to

VARIABLES
  held,     \* the runs that hold their job's lock
  spent     \* the runs that have ever held it

lockVars == <<held, spent>>

TypeOK ==
  /\ spent \subseteq RunIds
  /\ held \subseteq spent

Init ==
  /\ held = {}
  /\ spent = {}

\* A run that never held the lock takes it while no run of its job has it.
Acquire(r) ==
  /\ r \notin spent
  /\ \A q \in held : JobOf[q] # JobOf[r]
  /\ held' = held \union {r}
  /\ spent' = spent \union {r}

\* Several runs may let go in one step: the reaper is one transaction.
Release(S) ==
  /\ S # {}
  /\ S \subseteq held
  /\ held' = held \ S
  /\ UNCHANGED spent

Next ==
  \/ \E r \in RunIds : Acquire(r)
  \/ \E S \in SUBSET RunIds : Release(S)

Safety == Init /\ [][Next]_lockVars

\* Mutual exclusion per job.
Exclusive == \A r, q \in held : JobOf[r] = JobOf[q] => r = q

\* Whoever takes a lock gives it back.
Released == \A r \in RunIds : (r \in held) ~> (r \notin held)
=============================================================================
