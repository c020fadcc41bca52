------------------------------ MODULE ShipGate ------------------------------
(***************************************************************************)
(* Ship gates (src/scripts/process-foundation-ship.mjs) that pause the     *)
(* scheduled jobs of the Foundation worker (foundation-worker.mjs) with a  *)
(* marker file, src/lib/ship-gate-worker-live-job-pause.js.  Nothing       *)
(* serializes two ship gates.  The marker is written in two steps, the     *)
(* file is truncated and then filled; a reader may come between them.      *)
(***************************************************************************)
EXTENDS Integers, FiniteSets

CONSTANTS
  Ships,     \* runs of process:foundation-ship
  NoShip,    \* a marker that names no ship
  MaxJobs,   \* jobs one pass of the worker may run
  Ttl,       \* ttlMs, in ticks
  LastTick   \* bound: the clock stops there

ASSUME ShipAssumption ==
  /\ NoShip \notin Ships
  /\ MaxJobs \in Nat \ {0} /\ Ttl \in Nat \ {0} /\ LastTick \in Nat

VARIABLES
  marker,      \* .git/foundation-worker-ship-pause.json
  opened,      \* ships whose open descriptor is on the file at that path
  ship,        \* each ship's next step
  expiresAt,   \* the expiresAt a ship has put into its pause
  worker,      \* the worker's next step
  todo,        \* jobs its pass has selected and not started
  now,         \* the clock
  overlapped,  \* history: ships whose window met another ship's
  raced        \* history: ships that were about to remove when another wrote

shipVars == <<marker, opened, ship, expiresAt, overlapped, raced>>
workerVars == <<worker, todo>>
vars == <<shipVars, workerVars, now>>

Ticks == 0 .. LastTick

Absent == [state |-> "absent", ship |-> NoShip]
Torn == [state |-> "torn", ship |-> NoShip]
Whole(g) == [state |-> "whole", ship |-> g]

\* From the first byte of its own marker to the end of its finally block.
Window == {"arming", "armed", "proving", "finally", "removing"}
ShipPcs == Window \union {"idle", "opening", "done", "dead"}
WorkerPcs == {"idle", "selecting", "next", "job", "sleeping"}

TypeOK ==
  /\ marker \in {Absent, Torn} \union {Whole(g) : g \in Ships}
  /\ opened \subseteq Ships
  /\ ship \in [Ships -> ShipPcs]
  /\ expiresAt \in [Ships -> Ticks]
  /\ worker \in WorkerPcs
  /\ todo \in 0 .. MaxJobs
  /\ now \in Ticks
  /\ overlapped \subseteq Ships /\ raced \subseteq Ships

Init ==
  /\ marker = Absent /\ opened = {}
  /\ ship = [g \in Ships |-> "idle"]
  /\ expiresAt = [g \in Ships |-> 0]
  /\ worker = "idle" /\ todo = 0
  /\ now = 0
  /\ overlapped = {} /\ raced = {}

Goto(g, here, there) == ship[g] = here /\ ship' = [ship EXCEPT ![g] = there]
Others(g) == {h \in Ships \ {g} : ship[h] \in Window}

-----------------------------------------------------------------------------
(* The ship gate, up to the marker.                                        *)

\* The preflight passes, or the gate ends before it has written anything.
Preflight(g) ==
  /\ Goto(g, "idle", "opening") \/ Goto(g, "idle", "done")
  /\ UNCHANGED <<marker, opened, expiresAt, overlapped, raced, workerVars, now>>

\* writeFile opens the path for writing, which empties what is there.
OpenMarker(g) ==
  /\ now + Ttl < LastTick
  /\ Goto(g, "opening", "arming")
  /\ expiresAt' = [expiresAt EXCEPT ![g] = now + Ttl]
  /\ marker' = Torn
  /\ opened' = opened \union {g}
  /\ overlapped' = overlapped \union
       (IF Others(g) = {} THEN {} ELSE Others(g) \union {g})
  /\ raced' = raced \union {h \in Others(g) : ship[h] = "removing"}
  /\ UNCHANGED <<workerVars, now>>

\* The content goes to the opened file, wherever that is now; over another
\* ship's content it may leave the end of the longer one behind.
FillMarker(g) ==
  /\ Goto(g, "arming", "armed")
  /\ IF g \in opened
     THEN \/ marker' = Whole(g)
          \/ marker.state = "whole" /\ marker' = Torn
     ELSE UNCHANGED marker
  /\ opened' = opened \ {g}
  /\ raced' = raced \union {h \in Others(g) : ship[h] = "removing"}
  /\ UNCHANGED <<expiresAt, overlapped, workerVars, now>>

\* A write that throws leaves workerShipPause null: the finally block does
\* nothing.
FillFails(g) ==
  /\ Goto(g, "arming", "done")
  /\ opened' = opened \ {g}
  /\ UNCHANGED <<marker, expiresAt, overlapped, raced, workerVars, now>>

-----------------------------------------------------------------------------
(* launchctl kickstart -k, the proof, and the finally block.               *)

\* Mutant: the worker is not restarted and goes on with its pass.
Restart_KeepsWorker(g) ==
  /\ Goto(g, "armed", "proving") \/ Goto(g, "armed", "finally")
  /\ UNCHANGED <<marker, opened, expiresAt, overlapped, raced, workerVars, now>>

\* On macOS, where the runtime is supervised; elsewhere nothing is restarted.
Restart(g) ==
  /\ \/ Goto(g, "armed", "proving") /\ worker' = "idle" /\ todo' = 0
     \/ Goto(g, "armed", "finally") /\ UNCHANGED workerVars
  /\ UNCHANGED <<marker, opened, expiresAt, overlapped, raced, now>>

\* Mutant: a failed check ends the gate without its finally block.
Prove_ExitOnFailure(g) ==
  /\ Goto(g, "proving", "finally") \/ Goto(g, "proving", "done")
  /\ UNCHANGED <<marker, opened, expiresAt, overlapped, raced, workerVars, now>>

\* ship-check, the fanout checks and foundation:verify, passed or failed.
Prove(g) ==
  /\ Goto(g, "proving", "finally")
  /\ UNCHANGED <<marker, opened, expiresAt, overlapped, raced, workerVars, now>>

\* Mutant: the pause id is not compared.
ClearRead_AnyMarker(g) ==
  /\ Goto(g, "finally", IF marker = Absent THEN "done" ELSE "removing")
  /\ UNCHANGED <<marker, opened, expiresAt, overlapped, raced, workerVars, now>>

\* Another ship's marker is left alone; one that does not parse is not.
ClearRead(g) ==
  /\ Goto(g, "finally", IF marker \in {Torn, Whole(g)} THEN "removing" ELSE "done")
  /\ UNCHANGED <<marker, opened, expiresAt, overlapped, raced, workerVars, now>>

ClearRemove(g) ==
  /\ Goto(g, "removing", "done")
  /\ marker' = Absent /\ opened' = {}
  /\ UNCHANGED <<expiresAt, overlapped, raced, workerVars, now>>

Die(g) ==
  /\ ship[g] \in Window
  /\ ship' = [ship EXCEPT ![g] = "dead"]
  /\ opened' = opened \ {g}
  /\ UNCHANGED <<marker, expiresAt, overlapped, raced, workerVars, now>>

-----------------------------------------------------------------------------
(* The worker: one look at the marker, then the whole pass.  Its reapers,  *)
(* which come first, do not depend on the marker.                          *)

\* Mutant: the marker's expiry is not looked at.
Paused_Always == marker # Absent

\* evaluateFoundationWorkerShipPause
Paused ==
  \/ marker = Torn
  \/ marker.state = "whole" /\ expiresAt[marker.ship] > now

WorkerReadPause ==
  /\ worker = "idle"
  /\ worker' = IF Paused THEN "sleeping" ELSE "selecting"
  /\ UNCHANGED <<shipVars, todo, now>>

WorkerSelect ==
  /\ worker = "selecting"
  /\ worker' = "next"
  /\ todo' \in 0 .. MaxJobs
  /\ UNCHANGED <<shipVars, now>>

WorkerStartJob ==
  /\ worker = "next" /\ todo > 0
  /\ worker' = "job" /\ todo' = todo - 1
  /\ UNCHANGED <<shipVars, now>>

WorkerEndJob ==
  /\ worker = "job"
  /\ worker' = "next"
  /\ UNCHANGED <<shipVars, todo, now>>

WorkerSleep ==
  /\ worker = "next" /\ todo = 0
  /\ worker' = "sleeping"
  /\ UNCHANGED <<shipVars, todo, now>>

WorkerWake ==
  /\ worker = "sleeping"
  /\ worker' = "idle"
  /\ UNCHANGED <<shipVars, todo, now>>

\* launchd starts a worker that has died again.
WorkerCrash ==
  /\ worker # "idle"
  /\ worker' = "idle" /\ todo' = 0
  /\ UNCHANGED <<shipVars, now>>

Tick ==
  /\ now < LastTick
  /\ now' = now + 1
  /\ UNCHANGED <<shipVars, workerVars>>

-----------------------------------------------------------------------------
ShipStep(g) ==
  \/ OpenMarker(g) \/ FillMarker(g) \/ FillFails(g)
  \/ Restart(g) \/ Prove(g) \/ ClearRead(g) \/ ClearRemove(g)
WorkerStep ==
  \/ WorkerReadPause \/ WorkerSelect \/ WorkerStartJob \/ WorkerEndJob
  \/ WorkerSleep \/ WorkerWake

Next ==
  \/ \E g \in Ships : Preflight(g) \/ ShipStep(g) \/ Die(g)
  \/ WorkerStep \/ WorkerCrash \/ Tick

Spec == Init /\ [][Next]_vars
\* The proof's checks end, the worker runs, a job ends (its runner kills it),
\* time passes.
FairSpec ==
  Spec /\ WF_vars(Tick) /\ WF_vars(WorkerStep) /\ \A g \in Ships : WF_vars(ShipStep(g))

-----------------------------------------------------------------------------
JobStarts == worker # "job" /\ worker' = "job"

\* No job of the worker starts while a ship proves the restarted runtime,
\* not even one that a pass had selected before the marker was there, unless
\* the marker has expired or another ship was at work in the same window.
ProofIsQuiet ==
  [][JobStarts => \A g \in Ships :
       ship[g] = "proving" => expiresAt[g] <= now \/ g \in overlapped]_vars

\* A ship about to remove the marker removes its own, or one that does not
\* parse, unless another ship wrote between its read and its removal.
ForeignMarkerSurvives ==
  \A g \in Ships :
    ship[g] = "removing" /\ g \notin raced
      => marker \in {Absent, Torn, Whole(g)}

Ended == {"idle", "opening", "done"}

\* When every ship has come to its end, no marker of a ship that was alone
\* is left, however its checks ended.
FinallyClearsMarker ==
  (\A g \in Ships : ship[g] \in Ended) /\ overlapped = {}
    => marker.state # "whole"

Over == \A g \in Ships : ship[g] \in {"done", "dead"}

\* Once every ship is over, killed or not, a marker that parses does not hold
\* the worker back for ever.
WorkerResumes ==
  (Over /\ marker.state # "torn") ~> worker = "selecting"
=============================================================================
