--------------------------- MODULE ShipGateProofs ---------------------------
(***************************************************************************)
(* What the ship gate's pause marker guarantees for any number of ship     *)
(* gates, any time to live and any number of jobs in a pass.               *)
(***************************************************************************)
EXTENDS ShipGate, TLAPS

USE ShipAssumption

\* Two ships at work at the same time have met.
WindowOK ==
  \A g, h \in Ships :
    g # h /\ ship[g] \in Window /\ ship[h] \in Window => {g, h} \subseteq overlapped

\* The marker of a ship that has met nobody is in the state it has put it in.
MarkerOK ==
  \A g \in Ships \ overlapped :
    /\ ship[g] = "arming" => marker = Torn /\ g \in opened
    /\ ship[g] \in {"armed", "proving", "finally", "removing"} => marker = Whole(g)

\* A whole marker, as long as no ships have met, is that of a ship which has
\* yet to clear it, or was killed.
WholeOK ==
  overlapped = {} =>
    \A g \in Ships :
      marker = Whole(g) => ship[g] \in {"armed", "proving", "finally", "removing", "dead"}

\* Between the restart and the expiry the worker is not in a pass.
QuietOK ==
  \A g \in Ships \ overlapped :
    ship[g] = "proving" /\ now < expiresAt[g] => worker \in {"idle", "sleeping"}

ShipInv == TypeOK /\ WindowOK /\ MarkerOK /\ WholeOK /\ QuietOK /\ ForeignMarkerSurvives

-----------------------------------------------------------------------------
LEMMA MarkersDiffer ==
  /\ Absent # Torn
  /\ \A g \in Ships : Whole(g) # Torn /\ Whole(g) # Absent
  /\ \A g \in Ships : Whole(g).state = "whole" /\ Whole(g).ship = g
  /\ \A g, h \in Ships : Whole(g) = Whole(h) => g = h
  /\ Torn.state = "torn" /\ Absent.state = "absent"
BY DEF Absent, Torn, Whole

LEMMA InitShipInv == Init => ShipInv
BY MarkersDiffer
DEF Init, ShipInv, TypeOK, WindowOK, MarkerOK, WholeOK, QuietOK, ForeignMarkerSurvives,
    Window, ShipPcs, WorkerPcs, Ticks

\* Every variable keeps its type.
LEMMA TypeStep ==
  ASSUME TypeOK, [Next]_vars
  PROVE  TypeOK'
<1> USE DEF TypeOK, Goto, ShipPcs, Window, WorkerPcs, shipVars, workerVars
<1>1. ASSUME NEW g \in Ships, Preflight(g) \/ FillMarker(g) \/ FillFails(g)
      PROVE TypeOK'
  BY <1>1 DEF Preflight, FillMarker, FillFails, Others
<1>2. ASSUME NEW g \in Ships, OpenMarker(g) PROVE TypeOK'
  <2>1. now + Ttl \in Ticks
    BY <1>2 DEF OpenMarker, Ticks
  <2> QED BY <1>2, <2>1 DEF OpenMarker, Others
<1>3. ASSUME NEW g \in Ships, Restart(g) \/ Prove(g) \/ ClearRead(g) \/ ClearRemove(g) \/ Die(g)
      PROVE TypeOK'
  BY <1>3 DEF Restart, Prove, ClearRead, ClearRemove, Die
<1>4. CASE WorkerStep \/ WorkerCrash
  BY <1>4 DEF WorkerStep, WorkerReadPause, WorkerSelect, WorkerStartJob, WorkerEndJob,
              WorkerSleep, WorkerWake, WorkerCrash
<1>5. CASE Tick
  BY <1>5 DEF Tick, Ticks
<1>6. CASE UNCHANGED vars
  BY <1>6 DEF vars
<1> QED
  BY <1>1, <1>2, <1>3, <1>4, <1>5, <1>6 DEF Next, ShipStep

\* A ship that opens the marker meets everybody who is at work.
LEMMA WindowStep ==
  ASSUME TypeOK, WindowOK, [Next]_vars
  PROVE  WindowOK'
<1> USE DEF TypeOK, WindowOK, Goto, Window
<1>1. ASSUME NEW g \in Ships, OpenMarker(g) PROVE WindowOK'
  BY <1>1 DEF OpenMarker, Others
<1>2. ASSUME NEW g \in Ships, Preflight(g) \/ FillMarker(g) \/ FillFails(g) \/ Restart(g)
                              \/ Prove(g) \/ ClearRead(g) \/ ClearRemove(g) \/ Die(g)
      PROVE WindowOK'
  <2>1. /\ overlapped' = overlapped
        /\ \A h \in Ships : ship'[h] \in Window => ship[h] \in Window
    BY <1>2 DEF Preflight, FillMarker, FillFails, Restart, Prove, ClearRead, ClearRemove, Die
  <2> QED BY <2>1
<1>3. CASE WorkerStep \/ WorkerCrash \/ Tick \/ UNCHANGED vars
  BY <1>3 DEF WorkerStep, WorkerReadPause, WorkerSelect, WorkerStartJob, WorkerEndJob,
              WorkerSleep, WorkerWake, WorkerCrash, Tick, vars, shipVars
<1> QED BY <1>1, <1>2, <1>3 DEF Next, ShipStep

WorkerMoves == WorkerStep \/ WorkerCrash \/ Tick \/ UNCHANGED vars

LEMMA WorkerLeavesShips ==
  ASSUME WorkerMoves
  PROVE  UNCHANGED shipVars
BY DEF WorkerMoves, WorkerStep, WorkerReadPause, WorkerSelect, WorkerStartJob, WorkerEndJob,
       WorkerSleep, WorkerWake, WorkerCrash, Tick, vars

\* Who is at work with another ship is not among those that have met nobody.
LEMMA AloneInWindow ==
  ASSUME WindowOK, NEW g \in Ships, NEW h \in Ships \ overlapped,
         ship[g] \in Window, ship[h] \in Window
  PROVE  g = h
BY DEF WindowOK

LEMMA MarkerStep ==
  ASSUME TypeOK, WindowOK, MarkerOK, [Next]_vars
  PROVE  MarkerOK'
<1> USE DEF TypeOK, Goto
<1>1. ASSUME NEW g \in Ships, Preflight(g) \/ Restart(g) \/ Prove(g) PROVE MarkerOK'
  <2>1. /\ UNCHANGED <<marker, opened, overlapped>>
        /\ \A h \in Ships \ {g} : ship'[h] = ship[h]
        /\ ship'[g] \in {"proving", "finally"} => ship[g] \in {"armed", "proving"}
        /\ ship'[g] \in {"opening", "done", "proving", "finally"}
    BY <1>1 DEF Preflight, Restart, Prove
  <2> QED BY <2>1 DEF MarkerOK
<1>2. ASSUME NEW g \in Ships, OpenMarker(g) PROVE MarkerOK'
  <2>1. /\ marker' = Torn /\ opened' = opened \union {g}
        /\ ship' = [ship EXCEPT ![g] = "arming"]
        /\ \A h \in Ships \ {g} : ship[h] \in Window => h \in overlapped'
    BY <1>2 DEF OpenMarker, Others
  <2> QED BY <2>1 DEF MarkerOK, Window
<1>3. ASSUME NEW g \in Ships, FillMarker(g) PROVE MarkerOK'
  <2>1. /\ ship[g] = "arming" /\ ship' = [ship EXCEPT ![g] = "armed"]
        /\ overlapped' = overlapped
    BY <1>3 DEF FillMarker
  <2>2. \A h \in Ships \ overlapped : ship[h] \in Window => h = g
    BY <2>1, AloneInWindow DEF Window
  <2>3. g \notin overlapped => marker' = Whole(g)
    BY <1>3, <2>1, MarkersDiffer DEF FillMarker, MarkerOK
  <2> QED BY <2>1, <2>2, <2>3 DEF MarkerOK, Window
<1>4. ASSUME NEW g \in Ships, FillFails(g) \/ Die(g) PROVE MarkerOK'
  <2>1. /\ UNCHANGED <<marker, overlapped>> /\ opened' = opened \ {g}
        /\ \A h \in Ships \ {g} : ship'[h] = ship[h]
        /\ ship'[g] \in {"done", "dead"}
    BY <1>4 DEF FillFails, Die
  <2> QED BY <2>1 DEF MarkerOK
<1>5. ASSUME NEW g \in Ships, ClearRead(g) PROVE MarkerOK'
  <2>1. /\ UNCHANGED <<marker, opened, overlapped>>
        /\ \A h \in Ships \ {g} : ship'[h] = ship[h]
        /\ ship[g] = "finally" /\ ship'[g] \in {"removing", "done"}
    BY <1>5 DEF ClearRead
  <2> QED BY <2>1 DEF MarkerOK
<1>6. ASSUME NEW g \in Ships, ClearRemove(g) PROVE MarkerOK'
  <2>1. /\ ship[g] = "removing" /\ ship' = [ship EXCEPT ![g] = "done"]
        /\ overlapped' = overlapped
    BY <1>6 DEF ClearRemove
  <2>2. \A h \in Ships \ overlapped : ship[h] \in Window => h = g
    BY <2>1, AloneInWindow DEF Window
  <2> QED BY <2>1, <2>2 DEF MarkerOK, Window
<1>7. CASE WorkerMoves
  BY <1>7, WorkerLeavesShips DEF MarkerOK, shipVars
<1> QED
  BY <1>1, <1>2, <1>3, <1>4, <1>5, <1>6, <1>7 DEF Next, ShipStep, WorkerMoves

LEMMA WholeStep ==
  ASSUME TypeOK, WindowOK, MarkerOK, WholeOK, [Next]_vars
  PROVE  WholeOK'
<1> USE DEF TypeOK, Goto
<1> SUFFICES ASSUME overlapped' = {}, NEW h \in Ships, marker' = Whole(h)
             PROVE  ship'[h] \in {"armed", "proving", "finally", "removing", "dead"}
  BY DEF WholeOK
<1>0. overlapped = {}
  BY WorkerLeavesShips DEF Next, ShipStep, Preflight, OpenMarker, FillMarker, FillFails, Restart,
       Prove, ClearRead, ClearRemove, Die, WorkerMoves, shipVars
<1>1. CASE \E g \in Ships : OpenMarker(g) \/ ClearRemove(g)
  BY <1>1, MarkersDiffer DEF OpenMarker, ClearRemove
<1>2. ASSUME NEW g \in Ships, FillMarker(g)
      PROVE ship'[h] \in {"armed", "proving", "finally", "removing", "dead"}
  <2>1. marker' = Whole(g)
    BY <1>0, <1>2, MarkersDiffer DEF FillMarker, MarkerOK
  <2>2. g = h
    BY <2>1, MarkersDiffer
  <2>3. ship'[g] = "armed"
    BY <1>2 DEF FillMarker
  <2> QED BY <2>2, <2>3
<1>3. ASSUME NEW g \in Ships, Preflight(g) \/ FillFails(g) \/ Restart(g) \/ Prove(g) \/ Die(g)
      PROVE ship'[h] \in {"armed", "proving", "finally", "removing", "dead"}
  <2>1. marker = Whole(h)
    BY <1>3 DEF Preflight, FillFails, Restart, Prove, Die
  <2>2. ship[h] \in {"armed", "proving", "finally", "removing", "dead"}
    BY <1>0, <2>1 DEF WholeOK
  <2> QED BY <1>3, <2>2 DEF Preflight, FillFails, Restart, Prove, Die
<1>4. ASSUME NEW g \in Ships, ClearRead(g)
      PROVE ship'[h] \in {"armed", "proving", "finally", "removing", "dead"}
  <2>1. marker = Whole(h)
    BY <1>4 DEF ClearRead
  <2>2. ship[h] \in {"armed", "proving", "finally", "removing", "dead"}
    BY <1>0, <2>1 DEF WholeOK
  <2>3. g = h => ship'[g] = "removing"
    BY <1>4, <2>1 DEF ClearRead
  <2> QED BY <1>4, <2>2, <2>3 DEF ClearRead
<1>5. CASE WorkerMoves
  BY <1>0, <1>5, WorkerLeavesShips DEF WholeOK, shipVars
<1> QED BY <1>1, <1>2, <1>3, <1>4, <1>5 DEF Next, ShipStep, WorkerMoves

\* The worker that the restart has left idle finds the marker each time.
LEMMA QuietStep ==
  ASSUME TypeOK, WindowOK, MarkerOK, QuietOK, [Next]_vars
  PROVE  QuietOK'
<1> USE DEF TypeOK, Goto
<1>1. ASSUME NEW g \in Ships, Restart(g) PROVE QuietOK'
  <2>1. CASE worker' = "idle"
    BY <2>1 DEF QuietOK
  <2>2. CASE worker' = worker /\ ship' = [ship EXCEPT ![g] = "finally"]
    BY <1>1, <2>2 DEF Restart, QuietOK
  <2> QED BY <1>1, <2>1, <2>2 DEF Restart, workerVars
<1>2. ASSUME NEW g \in Ships, OpenMarker(g) PROVE QuietOK'
  <2>1. /\ UNCHANGED <<worker, now>> /\ ship' = [ship EXCEPT ![g] = "arming"]
        /\ \A h \in Ships \ {g} : expiresAt'[h] = expiresAt[h]
        /\ overlapped \subseteq overlapped'
    BY <1>2 DEF OpenMarker, workerVars
  <2> QED BY <2>1 DEF QuietOK
<1>3. ASSUME NEW g \in Ships, Preflight(g) \/ FillMarker(g) \/ FillFails(g) \/ Prove(g)
                              \/ ClearRead(g) \/ ClearRemove(g) \/ Die(g)
      PROVE QuietOK'
  <2>1. /\ UNCHANGED <<worker, now, expiresAt, overlapped>>
        /\ \A h \in Ships : ship'[h] = "proving" => ship[h] = "proving"
    BY <1>3 DEF Preflight, FillMarker, FillFails, Prove, ClearRead, ClearRemove, Die, workerVars
  <2> QED BY <2>1 DEF QuietOK
<1>4. CASE WorkerReadPause
  <2>1. \A g \in Ships \ overlapped :
          ship[g] = "proving" /\ now < expiresAt[g] => Paused
    BY MarkersDiffer DEF MarkerOK, Paused, Ticks
  <2> QED BY <1>4, <2>1 DEF WorkerReadPause, QuietOK, shipVars
<1>5. CASE WorkerSelect \/ WorkerStartJob \/ WorkerEndJob \/ WorkerSleep \/ WorkerWake
             \/ WorkerCrash \/ UNCHANGED vars
  BY <1>5 DEF WorkerSelect, WorkerStartJob, WorkerEndJob, WorkerSleep, WorkerWake, WorkerCrash,
              vars, QuietOK, shipVars, workerVars
<1>6. CASE Tick
  <2>1. now' = now + 1 /\ UNCHANGED <<worker, ship, expiresAt, overlapped>>
    BY <1>6 DEF Tick, shipVars, workerVars
  <2> QED BY <2>1 DEF QuietOK, Ticks
<1> QED
  BY <1>1, <1>2, <1>3, <1>4, <1>5, <1>6 DEF Next, ShipStep, WorkerStep

\* Who is about to remove has read its own marker or a torn one; a later
\* write makes the remover one of the raced.
LEMMA ForeignStep ==
  ASSUME TypeOK, ForeignMarkerSurvives, [Next]_vars
  PROVE  ForeignMarkerSurvives'
<1> USE DEF TypeOK, Goto, ForeignMarkerSurvives
<1>1. ASSUME NEW g \in Ships, ClearRead(g) PROVE ForeignMarkerSurvives'
  BY <1>1 DEF ClearRead
<1>2. ASSUME NEW g \in Ships, OpenMarker(g) \/ ClearRemove(g) PROVE ForeignMarkerSurvives'
  BY <1>2 DEF OpenMarker, ClearRemove
<1>3. ASSUME NEW g \in Ships, FillMarker(g) PROVE ForeignMarkerSurvives'
  <2>1. \A h \in Ships : ship'[h] = "removing" /\ h # g => h \in raced'
    BY <1>3 DEF FillMarker, Others, Window
  <2>2. ship'[g] = "armed"
    BY <1>3 DEF FillMarker
  <2> QED BY <2>1, <2>2
<1>4. ASSUME NEW g \in Ships, Preflight(g) \/ FillFails(g) \/ Restart(g) \/ Prove(g) \/ Die(g)
      PROVE ForeignMarkerSurvives'
  <2>1. /\ UNCHANGED <<marker, raced>>
        /\ \A h \in Ships : ship'[h] = "removing" => ship[h] = "removing"
    BY <1>4 DEF Preflight, FillFails, Restart, Prove, Die
  <2> QED BY <2>1
<1>5. CASE WorkerMoves
  BY <1>5, WorkerLeavesShips DEF shipVars
<1> QED BY <1>1, <1>2, <1>3, <1>4, <1>5 DEF Next, ShipStep, WorkerMoves

-----------------------------------------------------------------------------
\* Every behaviour of the ships and the worker keeps the invariant.
THEOREM ShipInvariant == Spec => []ShipInv
<1>1. ShipInv /\ [Next]_vars => ShipInv'
  BY TypeStep, WindowStep, MarkerStep, WholeStep, QuietStep, ForeignStep DEF ShipInv
<1> QED BY InitShipInv, <1>1, PTL DEF Spec

\* Every variable keeps its type, for any ships, jobs and times.
THEOREM ShipTypeCorrect == Spec => []TypeOK
<1>1. ShipInv => TypeOK
  BY DEF ShipInv
<1> QED BY ShipInvariant, <1>1, PTL

\* A ship about to remove the marker removes its own, or one that does not
\* parse, unless another ship wrote between its read and its removal.
THEOREM MarkerSurvives == Spec => []ForeignMarkerSurvives
<1>1. ShipInv => ForeignMarkerSurvives
  BY DEF ShipInv
<1> QED BY ShipInvariant, <1>1, PTL

\* When every ship has come to its end, no marker of a ship that was alone is
\* left.
THEOREM FinallyClears == Spec => []FinallyClearsMarker
<1>1. ShipInv => FinallyClearsMarker
  BY MarkersDiffer DEF ShipInv, TypeOK, WholeOK, FinallyClearsMarker, Ended
<1> QED BY ShipInvariant, <1>1, PTL

\* No job of the worker starts while a ship proves the restarted runtime.
THEOREM ProofQuiet == Spec => ProofIsQuiet
<1>1. ShipInv /\ [Next]_vars =>
        [JobStarts => \A g \in Ships :
           ship[g] = "proving" => expiresAt[g] <= now \/ g \in overlapped]_vars
  <2> SUFFICES ASSUME ShipInv, [Next]_vars, JobStarts, NEW g \in Ships,
                      ship[g] = "proving", g \notin overlapped
               PROVE  expiresAt[g] <= now
    OBVIOUS
  <2>1. worker = "next"
    BY DEF JobStarts, Next, ShipStep, Preflight, OpenMarker, FillMarker, FillFails, Restart, Prove,
           ClearRead, ClearRemove, Die, WorkerStep, WorkerReadPause, WorkerSelect, WorkerStartJob,
           WorkerEndJob, WorkerSleep, WorkerWake, WorkerCrash, Tick, vars, workerVars
  <2> QED BY <2>1 DEF ShipInv, QuietOK, TypeOK, Ticks
<1> QED BY ShipInvariant, <1>1, PTL DEF Spec, ProofIsQuiet

-----------------------------------------------------------------------------
(* What the worker's return rests on                                       *)

\* No ship's pause lasts longer than its time to live from now on.
PauseIsShort == \A g \in Ships : expiresAt[g] <= now + Ttl

\* Once every ship is over, nothing writes the marker or its expiry any more,
\* and a worker that it does not hold back is not held back again.
PauseRunsOut ==
  [][Over => /\ Over' /\ UNCHANGED <<marker, expiresAt>>
             /\ ~ Paused => ~ Paused']_vars

\* For any ships and any time to live, a pause is short.
THEOREM PausesAreShort == Spec => []PauseIsShort
<1>1. Init => PauseIsShort
  BY DEF Init, PauseIsShort
<1>2. ASSUME ShipInv, PauseIsShort, [Next]_vars PROVE PauseIsShort'
  <2>1. /\ now \in Nat /\ now' \in Nat /\ now <= now'
        /\ \A g \in Ships : expiresAt[g] \in Nat
    BY <1>2 DEF ShipInv, TypeOK, Ticks, Next, ShipStep, Preflight, OpenMarker, FillMarker, FillFails,
           Restart, Prove, ClearRead, ClearRemove, Die, WorkerStep, WorkerReadPause, WorkerSelect,
           WorkerStartJob, WorkerEndJob, WorkerSleep, WorkerWake, WorkerCrash, Tick, vars,
           workerVars
  <2>2. CASE \E g \in Ships : OpenMarker(g)
    BY <1>2, <2>1, <2>2 DEF OpenMarker, PauseIsShort, ShipInv, TypeOK
  <2>3. CASE UNCHANGED expiresAt
    BY <1>2, <2>1, <2>3 DEF PauseIsShort
  <2> QED
    BY <1>2, <2>2, <2>3 DEF Next, ShipStep, Preflight, FillMarker, FillFails, Restart, Prove,
           ClearRead, ClearRemove, Die, WorkerStep, WorkerReadPause, WorkerSelect, WorkerStartJob,
           WorkerEndJob, WorkerSleep, WorkerWake, WorkerCrash, Tick, vars, shipVars
<1> QED BY <1>1, <1>2, ShipInvariant, PTL DEF Spec

\* After the last ship the marker can only expire.
THEOREM PausesRunOut == Spec => PauseRunsOut
<1>1. ASSUME ShipInv, [Next]_vars, Over
      PROVE  Over' /\ UNCHANGED <<marker, expiresAt>> /\ (~ Paused => ~ Paused')
  <2>1. UNCHANGED <<marker, expiresAt, ship>>
    BY <1>1 DEF Over, Next, ShipStep, Goto, Window, Preflight, OpenMarker, FillMarker, FillFails,
           Restart, Prove, ClearRead, ClearRemove, Die, WorkerStep, WorkerReadPause, WorkerSelect,
           WorkerStartJob, WorkerEndJob, WorkerSleep, WorkerWake, WorkerCrash, Tick, vars, shipVars
  <2>2. now \in Nat /\ now' \in Nat /\ now <= now'
    BY <1>1 DEF ShipInv, TypeOK, Ticks, Over, Next, ShipStep, Goto, Window, Preflight, OpenMarker,
           FillMarker, FillFails, Restart, Prove, ClearRead, ClearRemove, Die, WorkerStep,
           WorkerReadPause, WorkerSelect, WorkerStartJob, WorkerEndJob, WorkerSleep, WorkerWake,
           WorkerCrash, Tick, vars, workerVars
  <2>3. ASSUME NEW g \in Ships, marker = Whole(g), ~ Paused
        PROVE  ~ Paused'
    <3>1. marker.state = "whole" /\ marker.ship = g /\ marker # Torn /\ expiresAt[g] \in Nat
      BY <1>1, <2>3, MarkersDiffer DEF ShipInv, TypeOK, Ticks
    <3>2. expiresAt[g] <= now /\ expiresAt'[g] = expiresAt[g] /\ marker' = marker
      BY <2>1, <2>2, <2>3, <3>1 DEF Paused
    <3> QED BY <2>2, <3>1, <3>2 DEF Paused
  <2>4. marker = Absent => ~ Paused'
    BY <2>1, MarkersDiffer DEF Paused
  <2>5. marker = Torn => Paused
    BY DEF Paused
  <2> QED BY <1>1, <2>1, <2>3, <2>4, <2>5 DEF Over, ShipInv, TypeOK
<1>2. ShipInv /\ [Next]_vars =>
        [Over => /\ Over' /\ UNCHANGED <<marker, expiresAt>>
                 /\ ~ Paused => ~ Paused']_vars
  BY <1>1
<1> QED BY <1>2, ShipInvariant, PTL DEF Spec, PauseRunsOut
=============================================================================
