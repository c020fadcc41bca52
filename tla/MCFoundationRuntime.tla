------------------------ MODULE MCFoundationRuntime ------------------------
(***************************************************************************)
(* Small instances of FoundationRuntime for TLC.                           *)
(***************************************************************************)
EXTENDS FoundationRuntime, TLC

CONSTANTS j1, j2, r1, r2, r3, worker, cli

\* One job: every run is a run of it.
OneJob == [r \in RunIds |-> j1]
\* Two jobs: r1 and r2 are runs of j1, r3 of j2.
TwoJobs == [r \in RunIds |-> IF r = r3 THEN j2 ELSE j1]

AllScheduled == [j \in Jobs |-> "scheduled"]
AllEnabled == [j \in Jobs |-> TRUE]
Budget == [j \in Jobs |-> 1]

NoFollowUps == [j \in Jobs |-> {}]
\* j2 stands for the synthesis refresh that a finished j1 triggers.
Synthesis == [j \in Jobs |-> IF j = j1 THEN {j2} ELSE {}]

\* A pause, and a post that names neither mode nor flag (a change of the
\* interval, say), which puts the job back to its definition.
PauseAndReset == {[mode |-> "paused", enabled |-> "false"],
                  [mode |-> "null", enabled |-> "null"]}
NoInputs == {}

RunSymmetry == Permutations(RunIds)
=============================================================================
