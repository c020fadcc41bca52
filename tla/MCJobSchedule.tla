--------------------------- MODULE MCJobSchedule ---------------------------
(***************************************************************************)
(* Small instances of JobSchedule for TLC.                                 *)
(***************************************************************************)
EXTENDS JobSchedule, TLC

CONSTANTS often, nightly, late

\* A frequent job first, a daily one, and another interval job last.
ThreeJobs == <<often, nightly, late>>
JobEvery == often :> 2 @@ nightly :> 4 @@ late :> 3
\* The last job's control takes it off the schedule, in each way, or shortens
\* its interval.
JobPosts ==
  LET Every3 == {"scheduled", "manual", "paused", "decommissioned"} \X {3}
  IN often :> {} @@ nightly :> {} @@ late :> Every3 \union {<<"scheduled", 2>>}
JobAt == often :> NoTime @@ nightly :> 1 @@ late :> NoTime
JobDur == often :> 1 @@ nightly :> 1 @@ late :> 1
\* The end of the daily job may be followed up by the last one.
JobFollowUps == often :> {} @@ nightly :> {late} @@ late :> {}
=============================================================================
