------------------------- MODULE JobScheduleProofs -------------------------
(***************************************************************************)
(* What the worker's schedule guarantees for any jobs, intervals, local    *)
(* times, lengths of a day and limits of a pass.  The core is that the     *)
(* ticks since a run's end and those since the last instant of the job's   *)
(* local time grow together, so that neither a passing hour nor the cap on *)
(* what is counted changes which of the two came later.                    *)
(***************************************************************************)
EXTENDS JobSchedule, WellFoundedInduction, FiniteSetTheorems, TLAPS

\* A job that had never run, or whose latest run ended before its last slot or
\* longer ago than its interval.
Ripe(j) ==
  \/ run[j] = "none"
  \/ run[j] = "ended" /\ IF Daily(j) THEN since[j] > SinceSlot(j) ELSE since[j] >= every[j]

\* Only active runs are supervised.
RunnerOK == \A j \in Jobs : runner[j] # "nobody" => run[j] = "active"

\* What a pass has selected stays on the schedule and as ripe as it was, unless
\* somebody has run it since or has written its control; outside a pass nothing
\* is selected.
QueueOK ==
  /\ worker \notin {"pass", "job", "following"} => queue = {}
  /\ \A j \in queue : j \in overtaken \union rewritten \/ (mode[j] = "scheduled" /\ Ripe(j))

\* A daily job the worker has started since its slot has run since its slot.
ServedOK ==
  \A j \in served :
    Daily(j) /\ j \notin queue /\ run[j] # "none" /\ since[j] <= SinceSlot(j)

ScheduleInv == TypeOK /\ RunnerOK /\ QueueOK /\ ServedOK

-----------------------------------------------------------------------------
(* Numbers.                                                                *)

\* Every nonempty set of naturals up to n has a greatest element.
LEMMA Greatest ==
  ASSUME NEW n \in Nat, NEW S \in SUBSET (0 .. n), S # {}
  PROVE  \E g \in S : \A x \in S : x <= g
<1>0. \A x \in S : x \in Nat /\ n - x \in Nat
  OBVIOUS
<1> DEFINE T == {n - x : x \in S}
<1>1. T \subseteq Nat /\ T # {}
  BY <1>0
<1>2. PICK least \in T : \A y \in T : ~ (<<y, least>> \in OpToRel(<, Nat))
  <2> HIDE DEF T
  <2> QED BY <1>1, NatLessThanWellFounded, WFMin
<1>3. \A y \in T : least <= y
  <2> SUFFICES ASSUME NEW y \in T, ~ (least <= y) PROVE FALSE
    OBVIOUS
  <2>1. y \in Nat /\ least \in Nat
    BY <1>1
  <2>2. <<y, least>> \in OpToRel(<, Nat)
    BY <2>1 DEF OpToRel
  <2> QED BY <1>2, <2>2
<1>4. PICK g \in S : least = n - g
  BY <1>2
<1>5. ASSUME NEW x \in S PROVE x <= g
  <2>1. n - g <= n - x
    BY <1>3, <1>4
  <2>2. x \in Nat /\ g \in Nat
    BY <1>0
  <2> QED BY <2>1, <2>2
<1> QED BY <1>5

LEMMA NextHour ==
  ASSUME NEW D \in Nat \ {0}, NEW h \in 0 .. D - 1
  PROVE  (h + 1) % D = IF h = D - 1 THEN 0 ELSE h + 1
OBVIOUS

LEMMA SlotAge ==
  ASSUME NEW D \in Nat \ {0}, NEW h \in 0 .. D - 1, NEW a \in 0 .. D - 1
  PROVE  (h - a) % D = IF h >= a THEN h - a ELSE h - a + D
OBVIOUS

USE ScheduleAssumption

-----------------------------------------------------------------------------
(* The selection.                                                          *)

LEMMA JobsAreFinite == IsFiniteSet(Jobs)
<1>1. DOMAIN Order = 1 .. Len(Order) /\ Len(Order) \in Nat
  OBVIOUS
<1>2. IsFiniteSet(DOMAIN Order)
  BY <1>1, FS_Interval
<1>3. Order \in [DOMAIN Order -> Jobs]
  BY DEF Jobs
<1>4. Order \in Surjection(DOMAIN Order, Jobs)
  BY <1>3 DEF Surjection, Jobs
<1> QED BY <1>2, <1>4, FS_Surjection

\* A pass takes at most as many jobs as it may.
LEMMA SelectionIsLimited ==
  FirstDue \subseteq Jobs /\ Cardinality(FirstDue) <= MaxJobs
<1>1. FirstDue \subseteq Jobs
  BY DEF FirstDue
<1>2. CASE FirstDue = {}
  BY <1>1, <1>2, FS_EmptySet
<1>3. CASE FirstDue # {}
  <2> DEFINE Places == {i \in DOMAIN Order : Order[i] \in FirstDue}
  <2>1. Len(Order) \in Nat /\ DOMAIN Order = 1 .. Len(Order)
    OBVIOUS
  <2>2. Places \in SUBSET (0 .. Len(Order)) /\ Places # {}
    BY <1>1, <1>3, <2>1 DEF Jobs
  <2>3. PICK last \in Places : \A i \in Places : i <= last
    <3> HIDE DEF Places
    <3> QED BY <2>1, <2>2, Greatest
  <2> DEFINE j == Order[last]
             Earlier == {k \in Jobs : Due(k) /\ Before(k, j)}
  <2>4. j \in Jobs /\ Due(j) /\ Cardinality(Earlier) < MaxJobs
    BY DEF FirstDue
  <2>5. FirstDue \subseteq Earlier \union {j}
    <3> SUFFICES ASSUME NEW k \in FirstDue, k # j PROVE k \in Earlier
      OBVIOUS
    <3>1. k \in Jobs /\ Due(k)
      BY DEF FirstDue
    <3>2. PICK i \in DOMAIN Order : Order[i] = k
      BY <3>1 DEF Jobs
    <3>3. i \in Places /\ i # last
      BY <3>2
    <3>4. i < last
      BY <2>1, <2>3, <3>3
    <3> QED BY <3>1, <3>2, <3>4 DEF Before
  <2>6. IsFiniteSet(Earlier)
    BY JobsAreFinite, FS_Subset
  <2> HIDE DEF Earlier, j
  <2>7. /\ IsFiniteSet(Earlier \union {j})
        /\ Cardinality(Earlier \union {j}) <= Cardinality(Earlier) + 1
        /\ Cardinality(Earlier) \in Nat
    <3>1. Cardinality(Earlier) \in Nat
      BY <2>6, FS_CardinalityType
    <3>2. /\ IsFiniteSet(Earlier \union {j})
          /\ Cardinality(Earlier \union {j}) \in {Cardinality(Earlier), Cardinality(Earlier) + 1}
      BY <2>6, FS_AddElement
    <3> QED BY <3>1, <3>2
  <2>8. /\ Cardinality(FirstDue) <= Cardinality(Earlier \union {j})
        /\ Cardinality(FirstDue) \in Nat /\ Cardinality(Earlier \union {j}) \in Nat
    BY <2>5, <2>7, FS_Subset, FS_CardinalityType
  <2> QED BY <1>1, <2>4, <2>7, <2>8
<1> QED BY <1>2, <1>3

\* What is left of a selection is no larger.
LEMMA LeftOver ==
  ASSUME TypeOK, NEW S
  PROVE  queue \ S \subseteq Jobs /\ Cardinality(queue \ S) <= MaxJobs
<1>1. IsFiniteSet(queue)
  BY JobsAreFinite, FS_Subset DEF TypeOK
<1>2. Cardinality(queue \ S) <= Cardinality(queue)
  BY <1>1, FS_Subset
<1>3. Cardinality(queue \ S) \in Nat /\ Cardinality(queue) \in Nat
  BY <1>1, FS_Subset, FS_CardinalityType
<1> QED BY <1>2, <1>3 DEF TypeOK

-----------------------------------------------------------------------------
(* Hours.                                                                  *)

\* The local time of a daily job and the ticks since then, without remainders.
LEMMA SlotFacts ==
  ASSUME TypeOK, NEW j \in Jobs, Daily(j)
  PROVE  /\ At[j] \in 0 .. Day - 1 /\ hour \in 0 .. Day - 1 /\ SinceSlot(j) \in 0 .. Day - 1
         /\ SinceSlot(j) = IF hour >= At[j] THEN hour - At[j] ELSE hour - At[j] + Day
<1>1. At[j] \in 0 .. Day - 1 /\ hour \in 0 .. Day - 1
  BY DEF Daily, TypeOK
<1>2. SinceSlot(j) = IF hour >= At[j] THEN hour - At[j] ELSE hour - At[j] + Day
  BY <1>1, SlotAge DEF SinceSlot
<1> QED BY <1>1, <1>2

\* As an hour passes the last slot moves back by one, unless it is now.
LEMMA SlotMoves ==
  ASSUME TypeOK, TypeOK', NEW j \in Jobs, Daily(j), hour' = (hour + 1) % Day
  PROVE  /\ At[j] # hour' => SinceSlot(j)' = SinceSlot(j) + 1
         /\ At[j] = hour' => SinceSlot(j)' = 0
         /\ hour >= At[j] /\ hour' # 0 => hour' >= At[j]
<1>1. At[j] \in 0 .. Day - 1 /\ hour \in 0 .. Day - 1 /\ hour' \in 0 .. Day - 1
  BY SlotFacts DEF TypeOK
<1>2. hour' = IF hour = Day - 1 THEN 0 ELSE hour + 1
  BY <1>1, NextHour
<1>3. SinceSlot(j) = IF hour >= At[j] THEN hour - At[j] ELSE hour - At[j] + Day
  BY SlotFacts
<1>4. SinceSlot(j)' = IF hour' >= At[j] THEN hour' - At[j] ELSE hour' - At[j] + Day
  BY <1>1, SlotAge DEF SinceSlot
<1>5. Day \in Nat \ {0} /\ SinceSlot(j) \in Int /\ SinceSlot(j)' \in Int
  BY <1>1, <1>3, <1>4
<1> HIDE ScheduleAssumption
<1>6. CASE hour = Day - 1
  BY <1>1, <1>2, <1>3, <1>4, <1>5, <1>6
<1>7. CASE hour # Day - 1
  BY <1>1, <1>2, <1>3, <1>4, <1>5, <1>7
<1> QED BY <1>6, <1>7

-----------------------------------------------------------------------------
(* Types.                                                                  *)

\* The part of the type invariant that the rows' writes concern.
RowTypes ==
  /\ run \in [Jobs -> {"none", "active", "ended"}]
  /\ since \in [Jobs -> Nat] /\ elapsed \in [Jobs -> Nat]
  /\ \A j \in Jobs : since[j] <= Enough(j) /\ elapsed[j] <= StaleAfter(j) + 1
  /\ runner \in [Jobs -> {"worker", "operator", "nobody"}]

\* No interval a job may be given exceeds what is counted of its age.
LEMMA LongestIsLongest ==
  ASSUME NEW j \in Jobs
  PROVE  /\ Longest[j] \in Intervals[j] /\ \A e \in Intervals[j] : e <= Longest[j]
         /\ Intervals[j] \subseteq Nat \ {0} /\ Every[j] \in Intervals[j]
<1>1. Longest[j] = CHOOSE most \in Intervals[j] : \A e \in Intervals[j] : e <= most
  BY DEF Longest
<1>2. \E most \in Intervals[j] : \A e \in Intervals[j] : e <= most
  OBVIOUS
<1>3. Longest[j] \in Intervals[j] /\ \A e \in Intervals[j] : e <= Longest[j]
  BY <1>1, <1>2
<1>4. Intervals[j] = {Every[j]} \union {c[2] : c \in Posts[j]}
  BY DEF Intervals
<1>5. \A c \in Posts[j] : c[2] \in Nat \ {0}
  OBVIOUS
<1> QED BY <1>3, <1>4, <1>5

\* The caps are naturals.
LEMMA Caps ==
  ASSUME NEW j \in Jobs
  PROVE  Enough(j) \in Nat \ {0} /\ StaleAfter(j) \in Nat
<1>1. Longest[j] \in Nat \ {0}
  BY LongestIsLongest
<1> QED BY <1>1 DEF Enough, StaleAfter

LEMMA StartRunTypes ==
  ASSUME RowTypes, NEW j \in Jobs, NEW by \in {"worker", "operator"}, StartRun(j, by)
  PROVE  RowTypes'
<1>1. /\ run' \in [Jobs -> {"none", "active", "ended"}]
      /\ since' \in [Jobs -> Nat] /\ elapsed' \in [Jobs -> Nat]
      /\ runner' \in [Jobs -> {"worker", "operator", "nobody"}]
  BY DEF RowTypes, StartRun
<1>2. ASSUME NEW k \in Jobs
      PROVE  since'[k] <= Enough(k) /\ elapsed'[k] <= StaleAfter(k) + 1
  <2>1. since'[k] \in {since[k], 0} /\ elapsed'[k] \in {elapsed[k], 0}
    BY DEF RowTypes, StartRun
  <2>2. since[k] <= Enough(k) /\ elapsed[k] <= StaleAfter(k) + 1
    BY DEF RowTypes
  <2> QED BY <2>1, <2>2, Caps
<1> QED BY <1>1, <1>2 DEF RowTypes, Enough, StaleAfter, Daily

LEMMA CloseRowsTypes ==
  ASSUME RowTypes, NEW S, CloseRows(S)
  PROVE  RowTypes'
<1>1. /\ run' \in [Jobs -> {"none", "active", "ended"}]
      /\ since' \in [Jobs -> Nat] /\ elapsed' \in [Jobs -> Nat]
      /\ runner' \in [Jobs -> {"worker", "operator", "nobody"}]
  BY DEF RowTypes, CloseRows
<1>2. ASSUME NEW k \in Jobs
      PROVE  since'[k] <= Enough(k) /\ elapsed'[k] <= StaleAfter(k) + 1
  <2>1. since'[k] \in {since[k], 0} /\ elapsed'[k] \in {elapsed[k], 0}
    BY DEF RowTypes, CloseRows
  <2>2. since[k] <= Enough(k) /\ elapsed[k] <= StaleAfter(k) + 1
    BY DEF RowTypes
  <2> QED BY <2>1, <2>2, Caps
<1> QED BY <1>1, <1>2 DEF RowTypes, Enough, StaleAfter, Daily

LEMMA TickTypes ==
  ASSUME RowTypes, Tick
  PROVE  RowTypes'
<1>1. ASSUME NEW k \in Jobs
      PROVE  /\ since'[k] \in Nat /\ since'[k] <= Enough(k)
             /\ elapsed'[k] \in Nat /\ elapsed'[k] <= StaleAfter(k) + 1
  <2>1. since[k] \in Nat /\ since[k] <= Enough(k)
    BY DEF RowTypes
  <2>2. elapsed[k] \in Nat /\ elapsed[k] <= StaleAfter(k) + 1
    BY DEF RowTypes
  <2>3. since'[k] = since[k] \/ since'[k] = CountUp(since[k], Enough(k))
    BY DEF Tick
  <2>4. elapsed'[k] = 0 \/ elapsed'[k] = CountUp(elapsed[k], StaleAfter(k) + 1)
    BY DEF Tick
  <2>5. Enough(k) \in Nat \ {0} /\ StaleAfter(k) \in Nat
    BY Caps
  <2>6. since'[k] \in Nat /\ since'[k] <= Enough(k)
    BY <2>1, <2>3, <2>5 DEF CountUp
  <2>7. elapsed'[k] \in Nat /\ elapsed'[k] <= StaleAfter(k) + 1
    BY <2>2, <2>4, <2>5 DEF CountUp
  <2> QED BY <2>6, <2>7
<1>2. since' \in [Jobs -> Nat] /\ elapsed' \in [Jobs -> Nat]
  <2>1. /\ since' = [j \in Jobs |-> since'[j]] /\ elapsed' = [j \in Jobs |-> elapsed'[j]]
    BY DEF Tick
  <2> QED BY <1>1, <2>1
<1> QED BY <1>1, <1>2 DEF RowTypes, Tick, Enough, StaleAfter, Daily

LEMMA InitOK == Init => ScheduleInv
<1> SUFFICES ASSUME Init PROVE ScheduleInv
  OBVIOUS
<1>1. TypeOK
  <2>1. Cardinality({}) = 0
    BY FS_EmptySet
  <2>2. \A j \in Jobs : Enough(j) \in Nat \ {0} /\ StaleAfter(j) \in Nat
    BY Caps
  <2>3. \A j \in Jobs : Every[j] \in Intervals[j]
    BY LongestIsLongest
  <2> QED BY <2>1, <2>2, <2>3 DEF Init, TypeOK, Modes
<1>2. RunnerOK /\ QueueOK /\ ServedOK
  BY DEF Init, RunnerOK, QueueOK, ServedOK
<1> QED BY <1>1, <1>2 DEF ScheduleInv

LEMMA TypeStep ==
  ASSUME TypeOK, Next
  PROVE  TypeOK'
<1>1. RowTypes
  BY DEF TypeOK, RowTypes
<1> DEFINE Others ==
      /\ hour \in 0 .. Day - 1
      /\ worker \in {"polling", "reaped", "pass", "job", "following", "sleeping", "down"}
      /\ finishing \subseteq Jobs \X {"worker", "operator"}
      /\ crashes \in 0 .. MaxCrashes
      /\ served \subseteq Jobs /\ overtaken \subseteq Jobs /\ rewritten \subseteq Jobs
      Controls ==
      /\ mode \in [Jobs -> Modes]
      /\ every \in [Jobs -> Nat \ {0}] /\ \A j \in Jobs : every[j] \in Intervals[j]
      Queue == queue \subseteq Jobs /\ Cardinality(queue) <= MaxJobs
<1>2. Others /\ Controls /\ Queue
  BY DEF TypeOK
<1>3. RowTypes' /\ Others' /\ Controls' /\ Queue' => TypeOK'
  BY DEF TypeOK, RowTypes
<1>4. UNCHANGED rows => RowTypes'
  BY <1>1 DEF RowTypes, rows, Enough, StaleAfter, Daily
<1>5. UNCHANGED queue => Queue'
  BY <1>2
<1>17. UNCHANGED controls => Controls'
  BY <1>2 DEF controls
<1>18. ASSUME NEW S, Reached(S)
       PROVE  Queue' /\ overtaken' \subseteq Jobs /\ rewritten' \subseteq Jobs
  BY <1>2, <1>18, LeftOver DEF Reached
<1> HIDE DEF Controls
<1>6. CASE WorkerReap
  <2>1. RowTypes'
    BY <1>1, <1>6, CloseRowsTypes DEF WorkerReap
  <2> QED BY <1>2, <1>3, <1>5, <1>6, <1>17, <2>1 DEF WorkerReap, history
<1>7. CASE WorkerSelect
  BY <1>2, <1>3, <1>4, <1>7, <1>17, SelectionIsLimited DEF WorkerSelect
<1>8. CASE WorkerSleep
  BY <1>2, <1>3, <1>4, <1>5, <1>8, <1>17 DEF WorkerSleep, history
<1>9. ASSUME NEW j \in Jobs, WorkerRun(j) PROVE TypeOK'
  <2>1. RowTypes'
    BY <1>1, <1>9, StartRunTypes DEF WorkerRun
  <2>2. Queue' /\ overtaken' \subseteq Jobs /\ rewritten' \subseteq Jobs
    BY <1>9, <1>18 DEF WorkerRun
  <2>3. Others'
    BY <1>2, <1>9, <2>2 DEF WorkerRun
  <2> QED BY <1>3, <1>9, <1>17, <2>1, <2>2, <2>3 DEF WorkerRun
<1>10. ASSUME NEW j \in Jobs, WorkerSkip(j) PROVE TypeOK'
  <2>1. Queue' /\ overtaken' \subseteq Jobs /\ rewritten' \subseteq Jobs
    BY <1>10, <1>18 DEF WorkerSkip
  <2>2. Others'
    BY <1>2, <1>10, <2>1 DEF WorkerSkip
  <2> QED BY <1>3, <1>4, <1>10, <1>17, <2>1, <2>2 DEF WorkerSkip
<1>11. CASE WorkerCrash
  <2>1. RowTypes'
    BY <1>1, <1>11 DEF RowTypes, WorkerCrash, Enough, StaleAfter, Daily
  <2>2. Queue' /\ overtaken' \subseteq Jobs /\ rewritten' \subseteq Jobs
    BY <1>11, <1>18 DEF WorkerCrash
  <2>3. Others'
    BY <1>2, <1>11, <2>2 DEF WorkerCrash
  <2> QED BY <1>3, <1>11, <1>17, <2>1, <2>2, <2>3 DEF WorkerCrash
<1>12. CASE WorkerRestart
  BY <1>2, <1>3, <1>4, <1>5, <1>12, <1>17 DEF WorkerRestart, history
<1>13. ASSUME NEW j \in Jobs, EndRun(j) PROVE TypeOK'
  <2>1. RowTypes'
    BY <1>1, <1>13, CloseRowsTypes DEF EndRun
  <2>2. <<j, runner[j]>> \in Jobs \X {"worker", "operator"}
    BY <1>13 DEF EndRun, TypeOK
  <2>3. finishing' \subseteq Jobs \X {"worker", "operator"}
    BY <1>2, <1>13, <2>2 DEF EndRun
  <2>4. worker' \in {worker, "pass", "following"}
    BY <1>13 DEF EndRun
  <2>5. Others'
    BY <1>2, <1>13, <2>3, <2>4 DEF EndRun, history
  <2> QED BY <1>3, <1>5, <1>13, <1>17, <2>1, <2>5 DEF EndRun
<1>14. ASSUME NEW j \in Jobs, OperatorRun(j) PROVE TypeOK'
  <2>1. RowTypes'
    BY <1>1, <1>14, StartRunTypes DEF OperatorRun
  <2> QED BY <1>2, <1>3, <1>5, <1>14, <1>17, <2>1 DEF OperatorRun
<1>15. ASSUME NEW j \in Jobs, NEW c \in Posts[j], Control(j, c) PROVE TypeOK'
  <2>1. c[1] \in Modes /\ c[2] \in Nat \ {0} /\ c[2] \in Intervals[j]
    BY DEF Intervals
  <2>2. Controls'
    BY <1>2, <1>15, <2>1 DEF Control, Controls
  <2> QED BY <1>2, <1>3, <1>4, <1>5, <1>15, <2>2 DEF Control
<1>16. CASE Tick
  <2>1. RowTypes'
    BY <1>1, <1>16, TickTypes
  <2>2. hour' \in 0 .. Day - 1
    <3>1. hour' = IF hour = Day - 1 THEN 0 ELSE hour + 1
      BY <1>2, <1>16, NextHour DEF Tick
    <3> QED BY <1>2, <3>1
  <2> QED BY <1>2, <1>3, <1>5, <1>16, <1>17, <2>1, <2>2 DEF Tick
<1>19. ASSUME NEW j \in Jobs, NEW p \in {"worker", "operator"}, NEW k \in Jobs, FollowUp(j, p, k)
       PROVE  TypeOK'
  <2>1. RowTypes'
    BY <1>1, <1>19, StartRunTypes DEF FollowUp
  <2> QED BY <1>2, <1>3, <1>5, <1>17, <1>19, <2>1 DEF FollowUp
<1>20. ASSUME NEW j \in Jobs, NEW p \in {"worker", "operator"}, NoFollowUp(j, p)
       PROVE  TypeOK'
  BY <1>2, <1>3, <1>4, <1>5, <1>17, <1>20 DEF NoFollowUp, history
<1> QED
  BY <1>6, <1>7, <1>8, <1>9, <1>10, <1>11, <1>12, <1>13, <1>14, <1>15, <1>16, <1>19, <1>20
  DEF Next, WorkerStep

-----------------------------------------------------------------------------
(* Steps.                                                                  *)

\* What a step that takes no time does to a job whose row it leaves alone.
LEMMA RowKept ==
  ASSUME NEW j \in Jobs, hour' = hour, run'[j] = run[j], since'[j] = since[j], every'[j] = every[j]
  PROVE  Ripe(j)' = Ripe(j)
<1>1. SinceSlot(j)' = SinceSlot(j)
  BY DEF SinceSlot
<1>2. Ripe(j)' <=> Ripe(j)
  BY <1>1 DEF Ripe, Daily
<1> QED BY <1>1, <1>2 DEF Ripe

\* A job that is due is ripe, and a ripe job is due if it is scheduled.
LEMMA DueIsRipe ==
  ASSUME TypeOK, NEW j \in Jobs
  PROVE  /\ Due(j) => Ripe(j) /\ run[j] # "active"
         /\ Ripe(j) /\ run[j] = "ended" /\ mode[j] = "scheduled" => Due(j)
<1>1. run[j] \in {"none", "active", "ended"}
  BY DEF TypeOK
<1> QED BY <1>1 DEF Due, Ripe, DailyDue, IntervalDue

\* A ripe job stays ripe as time passes.
LEMMA RipensByTime ==
  ASSUME TypeOK, TypeOK', Tick, NEW j \in Jobs, Ripe(j)
  PROVE  Ripe(j)'
<1>1. run'[j] = run[j] /\ every'[j] = every[j]
  BY DEF Tick, controls
<1>2. CASE run[j] = "none"
  BY <1>1, <1>2 DEF Ripe
<1>3. CASE run[j] # "none" /\ Daily(j)
  <2>1. run[j] = "ended" /\ since[j] > SinceSlot(j)
    BY <1>3 DEF Ripe
  <2>2. since'[j] = CountUp(since[j], Day)
    BY <1>3, <2>1 DEF Tick, TypeOK, Enough
  <2>3. SinceSlot(j)' \in {SinceSlot(j) + 1, 0}
    BY <1>3, SlotMoves DEF Tick
  <2>4. SinceSlot(j) \in 0 .. Day - 1 /\ SinceSlot(j)' \in 0 .. Day - 1
    <3>1. SinceSlot(j) \in 0 .. Day - 1
      BY <1>3, SlotFacts
    <3>2. hour' \in 0 .. Day - 1 /\ At[j] \in 0 .. Day - 1
      BY <1>3, SlotFacts DEF TypeOK
    <3> QED BY <3>1, <3>2, SlotAge DEF SinceSlot
  <2>5. since[j] \in Nat /\ since[j] <= Day
    BY <1>3 DEF TypeOK, Enough
  <2>6. since'[j] > SinceSlot(j)'
    BY <2>1, <2>2, <2>3, <2>4, <2>5 DEF CountUp
  <2> QED BY <1>1, <1>3, <2>1, <2>6 DEF Ripe, Daily
<1>4. CASE run[j] # "none" /\ ~ Daily(j)
  <2>1. run[j] = "ended" /\ since[j] >= every[j]
    BY <1>4 DEF Ripe
  <2>2. since'[j] = CountUp(since[j], Longest[j])
    BY <1>4, <2>1 DEF Tick, TypeOK, Enough
  <2>3. since[j] \in Nat /\ every[j] \in Nat /\ Longest[j] \in Nat /\ every[j] <= Longest[j]
    <3>1. since[j] \in Nat /\ every[j] \in Intervals[j]
      BY DEF TypeOK
    <3> QED BY <3>1, LongestIsLongest
  <2>4. since'[j] >= every[j]
    BY <2>1, <2>2, <2>3 DEF CountUp
  <2> QED BY <1>1, <1>4, <2>1, <2>4 DEF Ripe, Daily
<1> QED BY <1>2, <1>3, <1>4

LEMMA RunnerStep ==
  ASSUME TypeOK, RunnerOK, Next
  PROVE  RunnerOK'
<1>1. CASE WorkerReap
  BY <1>1 DEF WorkerReap, CloseRows, RunnerOK, TypeOK
<1>2. CASE WorkerSelect
  BY <1>2 DEF WorkerSelect, rows, RunnerOK, TypeOK
<1>3. CASE WorkerSleep
  BY <1>3 DEF WorkerSleep, rows, RunnerOK, TypeOK
<1>4. ASSUME NEW j \in Jobs, NEW p, StartRun(j, p) PROVE RunnerOK'
  BY <1>4 DEF StartRun, RunnerOK, TypeOK
<1>5. ASSUME NEW j \in Jobs, WorkerSkip(j) PROVE RunnerOK'
  BY <1>5 DEF WorkerSkip, rows, RunnerOK, TypeOK
<1>6. CASE WorkerCrash
  BY <1>6 DEF WorkerCrash, RunnerOK, TypeOK
<1>7. CASE WorkerRestart
  BY <1>7 DEF WorkerRestart, rows, RunnerOK, TypeOK
<1>8. ASSUME NEW j \in Jobs, EndRun(j) PROVE RunnerOK'
  BY <1>8 DEF EndRun, CloseRows, RunnerOK, TypeOK
<1>9. CASE UNCHANGED rows
  BY <1>9 DEF rows, RunnerOK
<1>11. CASE Tick
  BY <1>11 DEF Tick, RunnerOK, TypeOK
<1> QED
  BY <1>1, <1>2, <1>3, <1>4, <1>5, <1>6, <1>7, <1>8, <1>9, <1>11
  DEF Next, WorkerStep, WorkerRun, OperatorRun, FollowUp, NoFollowUp, Control

LEMMA QueueStep ==
  ASSUME TypeOK, TypeOK', RunnerOK, QueueOK, Next
  PROVE  QueueOK'
<1> DEFINE Excused(j) == j \in overtaken \union rewritten \/ (mode[j] = "scheduled" /\ Ripe(j))
<1>0. queue \subseteq Jobs /\ \A j \in queue : Excused(j)
  BY DEF TypeOK, QueueOK
\* What a step leaves alone stays excused.
<1>1. ASSUME NEW j \in queue, j \in overtaken \union rewritten
                              => j \in overtaken' \union rewritten',
             hour' = hour, run'[j] = run[j], since'[j] = since[j],
             mode'[j] = mode[j], every'[j] = every[j]
      PROVE  Excused(j)'
  BY <1>0, <1>1, RowKept
<1>2. CASE WorkerReap
  BY <1>2 DEF WorkerReap, QueueOK
<1>3. CASE WorkerSelect
  <2>1. ASSUME NEW j \in queue' PROVE Excused(j)'
    <3>1. j \in Jobs /\ Due(j) /\ mode[j] = "scheduled"
      BY <1>3, <2>1 DEF WorkerSelect, FirstDue, Due
    <3> QED BY <1>3, <3>1, DueIsRipe, RowKept DEF WorkerSelect, rows, controls
  <2> QED BY <1>3, <2>1 DEF WorkerSelect, QueueOK
<1>4. CASE WorkerSleep
  BY <1>4 DEF WorkerSleep, QueueOK
<1>5. ASSUME NEW j \in Jobs, WorkerRun(j) PROVE QueueOK'
  <2>1. ASSUME NEW k \in queue' PROVE Excused(k)'
    <3>1. k \in queue /\ k # j /\ k \in Jobs
      BY <1>0, <1>5, <2>1 DEF WorkerRun, Reached
    <3>2. /\ hour' = hour /\ run'[k] = run[k] /\ since'[k] = since[k]
          /\ mode' = mode /\ every' = every
      BY <1>5, <3>1 DEF WorkerRun, StartRun, TypeOK, controls
    <3>3. k \in overtaken \union rewritten => k \in overtaken' \union rewritten'
      BY <1>5, <3>1 DEF WorkerRun, Reached
    <3> QED BY <1>1, <3>1, <3>2, <3>3
  <2> QED BY <1>5, <2>1 DEF WorkerRun, QueueOK
<1>6. ASSUME NEW j \in Jobs, WorkerSkip(j) PROVE QueueOK'
  <2>1. ASSUME NEW k \in queue' PROVE Excused(k)'
    <3>1. k \in queue /\ (k \in overtaken \union rewritten => k \in overtaken' \union rewritten')
      BY <1>6 DEF WorkerSkip, Reached
    <3> QED BY <1>1, <1>6, <3>1 DEF WorkerSkip, rows, controls
  <2>2. worker' = "pass"
    BY <1>6 DEF WorkerSkip
  <2> QED BY <2>1, <2>2 DEF QueueOK
<1>7. CASE WorkerCrash
  BY <1>7 DEF WorkerCrash, Reached, QueueOK
<1>8. CASE WorkerRestart
  BY <1>8 DEF WorkerRestart, QueueOK
<1>9. ASSUME NEW j \in Jobs, EndRun(j) PROVE QueueOK'
  <2>1. queue' = queue /\ worker' \in {worker, "pass", "following"}
    BY <1>9 DEF EndRun
  <2>2. ASSUME NEW k \in queue' PROVE Excused(k)'
    <3>1. k \in queue /\ k \in Jobs
      BY <1>0, <2>1
    <3>2. UNCHANGED <<overtaken, rewritten, hour, mode, every>>
      BY <1>9 DEF EndRun, history, controls
    <3>3. CASE k = j
      <4>1. run[k] = "active"
        BY <1>9, <3>3 DEF EndRun, RunnerOK
      <4>2. ~ Ripe(k)
        BY <4>1 DEF Ripe
      <4> QED BY <1>0, <3>1, <3>2, <4>2
    <3>4. CASE k # j
      <4>1. run'[k] = run[k] /\ since'[k] = since[k]
        BY <1>9, <3>1, <3>4 DEF EndRun, CloseRows
      <4> QED BY <1>1, <3>1, <3>2, <4>1
    <3> QED BY <3>3, <3>4
  <2> QED BY <2>1, <2>2 DEF QueueOK
\* Runs that are not the pass's own.
<1>10. ASSUME NEW j \in Jobs, NEW p, StartRun(j, p),
              overtaken' = overtaken \union (queue \intersect {j}),
              UNCHANGED <<hour, queue, mode, every, rewritten>>,
              worker' \in {worker, "job"}
       PROVE  QueueOK'
  <2>1. ASSUME NEW k \in queue' PROVE Excused(k)'
    <3>1. k \in queue /\ k \in Jobs
      BY <1>0, <1>10
    <3>2. CASE k = j
      BY <1>10, <3>1, <3>2
    <3>3. CASE k # j
      <4>1. run'[k] = run[k] /\ since'[k] = since[k]
        BY <1>10, <3>1, <3>3 DEF StartRun, TypeOK
      <4> QED BY <1>1, <1>10, <3>1, <4>1
    <3> QED BY <3>2, <3>3
  <2> QED BY <1>10, <2>1 DEF QueueOK
<1>11. ASSUME NEW j \in Jobs, NEW p, NEW k \in Jobs, FollowUp(j, p, k) PROVE QueueOK'
  BY <1>10, <1>11 DEF FollowUp, controls
<1>12. ASSUME NEW j \in Jobs, OperatorRun(j) PROVE QueueOK'
  BY <1>10, <1>12 DEF OperatorRun, controls
<1>13. ASSUME NEW j \in Jobs, NEW p, NoFollowUp(j, p) PROVE QueueOK'
  <2>1. ASSUME NEW k \in queue' PROVE Excused(k)'
    BY <1>0, <1>1, <1>13 DEF NoFollowUp, rows, controls, history
  <2>2. queue' = queue /\ worker' \in {worker, "pass"}
    BY <1>13 DEF NoFollowUp
  <2> QED BY <2>1, <2>2 DEF QueueOK
<1>14. ASSUME NEW j \in Jobs, NEW c \in Posts[j], Control(j, c) PROVE QueueOK'
  <2>1. ASSUME NEW k \in queue' PROVE Excused(k)'
    <3>1. k \in queue /\ k \in Jobs
      BY <1>0, <1>14 DEF Control
    <3>2. CASE k = j
      BY <1>14, <3>1, <3>2 DEF Control
    <3>3. CASE k # j
      <4>1. every'[k] = every[k] /\ mode'[k] = mode[k]
        BY <1>14, <3>1, <3>3 DEF Control, TypeOK
      <4> QED BY <1>1, <1>14, <3>1, <4>1 DEF Control, rows
    <3> QED BY <3>2, <3>3
  <2> QED BY <1>14, <2>1 DEF Control, QueueOK
<1>15. CASE Tick
  <2>1. ASSUME NEW k \in queue' PROVE Excused(k)'
    <3>1. k \in queue /\ k \in Jobs
      BY <1>0, <1>15 DEF Tick
    <3>2. UNCHANGED <<overtaken, rewritten, mode>>
      BY <1>15 DEF Tick, controls
    <3> QED BY <1>0, <1>15, <3>1, <3>2, RipensByTime
  <2>2. worker' \notin {"pass", "job", "following"} => queue' = {}
    BY <1>15 DEF Tick, QueueOK
  <2> QED BY <2>1, <2>2 DEF QueueOK
<1> QED
  BY <1>2, <1>3, <1>4, <1>5, <1>6, <1>7, <1>8, <1>9, <1>11, <1>12, <1>13, <1>14, <1>15
  DEF Next, WorkerStep

LEMMA ServedStep ==
  ASSUME TypeOK, TypeOK', ServedOK, Next
  PROVE  ServedOK'
<1> DEFINE Fine(j) == Daily(j) /\ j \notin queue /\ run[j] # "none" /\ since[j] <= SinceSlot(j)
<1>0. served \subseteq Jobs /\ \A j \in served : Fine(j)
  BY DEF TypeOK, ServedOK
<1>1. ASSUME NEW j \in Jobs, Daily(j), j \notin queue', run'[j] # "none", since'[j] = 0
      PROVE  Fine(j)'
  <2>1. hour' \in 0 .. Day - 1 /\ At[j] \in 0 .. Day - 1
    BY <1>1, SlotFacts DEF TypeOK
  <2>2. SinceSlot(j)' \in Nat
    BY <2>1, SlotAge DEF SinceSlot
  <2> QED BY <1>1, <2>2 DEF Daily
<1>2. ASSUME NEW j \in served, j \notin queue',
             hour' = hour, run'[j] = run[j], since'[j] = since[j]
      PROVE  Fine(j)'
  <2>1. SinceSlot(j)' = SinceSlot(j)
    BY <1>2 DEF SinceSlot
  <2> QED BY <1>0, <1>2, <2>1 DEF Daily
<1>3. ASSUME queue' \subseteq queue, UNCHANGED <<hour, run, since, served>>
      PROVE  ServedOK'
  BY <1>0, <1>2, <1>3 DEF ServedOK
<1>4. ASSUME NEW S \in SUBSET Jobs, CloseRows(S), UNCHANGED <<hour, queue, served>>
      PROVE  ServedOK'
  <2>1. ASSUME NEW j \in served PROVE Fine(j)'
    <3>1. j \in Jobs /\ Fine(j)
      BY <1>0
    <3>2. CASE j \in S
      BY <1>1, <1>4, <3>1, <3>2 DEF CloseRows
    <3>3. CASE j \notin S
      BY <1>2, <1>4, <3>1, <3>3 DEF CloseRows
    <3> QED BY <3>2, <3>3
  <2> QED BY <1>4, <2>1 DEF ServedOK
<1>5. CASE WorkerReap
  BY <1>4, <1>5 DEF WorkerReap, history
<1>6. CASE WorkerSelect
  <2>1. ASSUME NEW j \in served PROVE Fine(j)'
    <3>1. j \in Jobs /\ Fine(j)
      BY <1>0
    <3>2. since[j] \in Nat
      BY <3>1 DEF TypeOK
    <3>3. SinceSlot(j) \in Nat
      BY <3>1, SlotFacts
    <3>4. ~ Due(j)
      BY <3>1, <3>2, <3>3 DEF Due, DailyDue
    <3> QED BY <1>2, <1>6, <3>4 DEF WorkerSelect, FirstDue, rows
  <2> QED BY <1>6, <2>1 DEF WorkerSelect, ServedOK
<1>7. CASE WorkerSleep
  BY <1>3, <1>7 DEF WorkerSleep, rows, history
<1>8. ASSUME NEW j \in Jobs, WorkerRun(j) PROVE ServedOK'
  <2>1. ASSUME NEW k \in served' PROVE Fine(k)'
    <3>1. CASE k = j
      <4>1. Daily(j)
        BY <1>0, <1>8, <2>1, <3>1 DEF WorkerRun, DailyJobs
      <4>2. run'[j] = "active" /\ since'[j] = 0 /\ j \notin queue'
        BY <1>8 DEF WorkerRun, Reached, StartRun, TypeOK
      <4> QED BY <1>1, <3>1, <4>1, <4>2
    <3>2. CASE k # j
      <4>1. k \in served
        BY <1>8, <2>1, <3>2 DEF WorkerRun
      <4>2. k \notin queue' /\ hour' = hour /\ run'[k] = run[k] /\ since'[k] = since[k]
        BY <1>0, <1>8, <3>2, <4>1 DEF WorkerRun, Reached, StartRun, TypeOK
      <4> QED BY <1>2, <4>1, <4>2
    <3> QED BY <3>1, <3>2
  <2> QED BY <2>1 DEF ServedOK
<1>9. ASSUME NEW j \in Jobs, WorkerSkip(j) PROVE ServedOK'
  BY <1>3, <1>9 DEF WorkerSkip, Reached, rows
<1>10. CASE WorkerCrash
  BY <1>3, <1>10 DEF WorkerCrash, Reached
<1>11. CASE WorkerRestart
  BY <1>3, <1>11 DEF WorkerRestart, rows, history
<1>12. ASSUME NEW j \in Jobs, EndRun(j) PROVE ServedOK'
  BY <1>4, <1>12 DEF EndRun, history
<1>13. ASSUME NEW j \in Jobs, NEW p, StartRun(j, p), UNCHANGED <<hour, queue, served>>
       PROVE  ServedOK'
  <2>1. ASSUME NEW k \in served PROVE Fine(k)'
    <3>1. k \in Jobs /\ Fine(k)
      BY <1>0
    <3>2. CASE k = j
      <4>1. run'[j] = "active" /\ since'[j] = 0
        BY <1>13 DEF StartRun, TypeOK
      <4> QED BY <1>1, <1>13, <3>1, <3>2, <4>1
    <3>3. CASE k # j
      <4>1. run'[k] = run[k] /\ since'[k] = since[k]
        BY <1>13, <3>1, <3>3 DEF StartRun, TypeOK
      <4> QED BY <1>2, <1>13, <3>1, <4>1
    <3> QED BY <3>2, <3>3
  <2> QED BY <1>13, <2>1 DEF ServedOK
<1>14. ASSUME NEW j \in Jobs, NEW c, Control(j, c) PROVE ServedOK'
  BY <1>3, <1>14 DEF Control, rows
<1>16. ASSUME NEW j \in Jobs, NEW p, NoFollowUp(j, p) PROVE ServedOK'
  BY <1>3, <1>16 DEF NoFollowUp, rows, history
<1>15. CASE Tick
  <2>1. ASSUME NEW j \in served' PROVE Fine(j)'
    <3>1. j \in served /\ At[j] # hour' /\ j \in Jobs /\ Fine(j)
      BY <1>0, <1>15 DEF Tick
    <3>2. SinceSlot(j)' = SinceSlot(j) + 1
      BY <1>15, <3>1, SlotMoves DEF Tick
    <3>3. SinceSlot(j) \in Nat /\ since[j] \in Nat /\ since[j] <= SinceSlot(j)
      <4>1. SinceSlot(j) \in 0 .. Day - 1
        BY <3>1, SlotFacts
      <4>2. since[j] <= SinceSlot(j)
        BY <3>1
      <4> QED BY <3>1, <4>1, <4>2 DEF TypeOK
    <3>4. since'[j] \in {since[j], since[j] + 1}
      BY <1>15, <3>1 DEF Tick, CountUp
    <3>5. since'[j] <= SinceSlot(j)'
      BY <3>2, <3>3, <3>4
    <3> QED BY <1>15, <3>1, <3>5 DEF Tick, Daily
  <2> QED BY <2>1 DEF ServedOK
<1> QED
  BY <1>5, <1>6, <1>7, <1>8, <1>9, <1>10, <1>11, <1>12, <1>13, <1>14, <1>15, <1>16
  DEF Next, WorkerStep, OperatorRun, FollowUp

LEMMA Stutters ==
  ASSUME ScheduleInv, UNCHANGED vars
  PROVE  ScheduleInv'
<1>1. TypeOK'
  BY DEF ScheduleInv, TypeOK, vars, rows, controls, history, Enough, StaleAfter, Daily
<1>2. RunnerOK'
  BY DEF ScheduleInv, RunnerOK, vars, rows
<1>3. QueueOK'
  <2>1. \A j \in queue : Ripe(j)' = Ripe(j)
    BY RowKept DEF ScheduleInv, TypeOK, vars, rows, controls
  <2>2. UNCHANGED <<queue, worker, overtaken, rewritten, mode>>
    BY DEF vars, controls, history
  <2> QED BY <2>1, <2>2 DEF ScheduleInv, QueueOK
<1>4. ServedOK'
  BY DEF ScheduleInv, ServedOK, SinceSlot, vars, rows, history, Daily
<1> QED BY <1>1, <1>2, <1>3, <1>4 DEF ScheduleInv

LEMMA ScheduleStep ==
  ASSUME ScheduleInv, [Next]_vars
  PROVE  ScheduleInv'
<1>1. CASE Next
  <2>1. TypeOK'
    BY <1>1, TypeStep DEF ScheduleInv
  <2>2. RunnerOK'
    BY <1>1, RunnerStep DEF ScheduleInv
  <2>3. QueueOK'
    BY <1>1, <2>1, QueueStep DEF ScheduleInv
  <2>4. ServedOK'
    BY <1>1, <2>1, ServedStep DEF ScheduleInv
  <2> QED BY <2>1, <2>2, <2>3, <2>4 DEF ScheduleInv
<1>2. CASE UNCHANGED vars
  BY <1>2, Stutters
<1> QED BY <1>1, <1>2

\* The inductive invariant of the schedule.
THEOREM ScheduleInvariant == Spec => []ScheduleInv
BY InitOK, ScheduleStep, PTL DEF Spec

\* The clock, the rows, the worker and its selection keep their types: a
\* pass (runWorkerPass) never holds more than MaxJobs jobs.
THEOREM ScheduleTypeCorrect == Spec => []TypeOK
<1>1. ScheduleInv => TypeOK
  BY DEF ScheduleInv
<1> QED BY <1>1, ScheduleInvariant, PTL

-----------------------------------------------------------------------------
(* What the worker starts, and what stays due.                             *)

\* The worker becomes the runner of a job that its pass reaches, or as its
\* runner follows up a run.
Follows(j) == \E k \in Jobs : <<k, "worker">> \in finishing /\ j \in FollowUps[k]

LEMMA WhatTheWorkerStarts ==
  ASSUME TypeOK, [Next]_vars, NEW j \in Jobs, WorkerStarts(j)
  PROVE  Follows(j) \/ (j \in queue /\ Runnable(j))
<1>1. ASSUME NEW k \in Jobs, WorkerRun(k) PROVE j \in queue /\ Runnable(j)
  <2>1. j = k
    BY <1>1 DEF WorkerRun, StartRun, WorkerStarts, TypeOK
  <2> QED BY <1>1, <2>1 DEF WorkerRun, Foremost
<1>2. CASE WorkerReap
  BY <1>2 DEF WorkerReap, CloseRows, WorkerStarts
<1>3. CASE WorkerCrash
  BY <1>3 DEF WorkerCrash, WorkerStarts
<1>4. CASE \E k \in Jobs : EndRun(k)
  BY <1>4 DEF EndRun, CloseRows, WorkerStarts
<1>5. CASE \E k \in Jobs : OperatorRun(k)
  BY <1>5 DEF OperatorRun, StartRun, WorkerStarts, TypeOK
<1>6. CASE UNCHANGED runner
  BY <1>6 DEF WorkerStarts
<1>7. ASSUME NEW i \in Jobs, NEW k \in Jobs, FollowUp(i, "worker", k) PROVE Follows(j)
  <2>1. j = k
    BY <1>7 DEF FollowUp, StartRun, WorkerStarts, TypeOK
  <2> QED BY <1>7, <2>1 DEF FollowUp, Follows
<1>8. ASSUME NEW i \in Jobs, NEW k \in Jobs, FollowUp(i, "operator", k) PROVE FALSE
  BY <1>8 DEF FollowUp, StartRun, WorkerStarts, TypeOK
<1> QED
  BY <1>1, <1>2, <1>3, <1>4, <1>5, <1>6, <1>7, <1>8
  DEF Next, WorkerStep, WorkerSelect, WorkerSkip, WorkerSleep, WorkerRestart,
      NoFollowUp, Control, Tick, rows, vars

\* The worker starts a daily job at most once for each instant of its local
\* time, however crashes, reaped rows, late runs, follow-ups and runs by hand
\* come between.
THEOREM SlotServedOnce == Spec => OncePerSlot
<1>1. ASSUME ScheduleInv, [Next]_vars
      PROVE  \A j \in Jobs : WorkerStarts(j) /\ Daily(j) => j \notin served
  <2> SUFFICES ASSUME NEW j \in Jobs, WorkerStarts(j), Daily(j) PROVE j \notin served
    OBVIOUS
  <2>1. ~ Follows(j)
    BY DEF Follows, Daily
  <2> QED BY <1>1, <2>1, WhatTheWorkerStarts DEF ScheduleInv, ServedOK
<1> QED BY <1>1, ScheduleInvariant, PTL DEF Spec, OncePerSlot

\* What a pass starts may run and is due, although the worker never asks again
\* after the snapshot (runFoundationJob looks only at the mode and at active
\* runs): a run since then, whose ever it was, a control post, or the lost day
\* of a job that has never run is what makes the difference.  All else it
\* starts follows up a run it has just closed.
THEOREM StaleIfOvertakenOnly == Spec => StaleOnlyIfOvertaken
<1> DEFINE Fresh(j) == /\ mode[j] \in {"scheduled", "manual"}
                       /\ Due(j) \/ j \in overtaken \union rewritten \/ run[j] = "none"
<1>1. ASSUME ScheduleInv, [Next]_vars
      PROVE  \A j \in Jobs : WorkerStarts(j) => Follows(j) \/ Fresh(j)
  <2> SUFFICES ASSUME NEW j \in Jobs, WorkerStarts(j), ~ Follows(j)
               PROVE  Fresh(j)
    OBVIOUS
  <2>1. j \in queue /\ Runnable(j)
    BY <1>1, WhatTheWorkerStarts DEF ScheduleInv
  <2>2. mode[j] \in {"scheduled", "manual"} /\ run[j] # "active"
    BY <2>1 DEF Runnable
  <2>3. CASE j \in overtaken \union rewritten \/ run[j] = "none"
    BY <2>2, <2>3
  <2>4. CASE j \notin overtaken \union rewritten /\ run[j] # "none"
    <3>1. mode[j] = "scheduled" /\ Ripe(j)
      BY <1>1, <2>1, <2>4 DEF ScheduleInv, QueueOK
    <3>2. run[j] = "ended"
      BY <1>1, <2>2, <2>4 DEF ScheduleInv, TypeOK
    <3> QED BY <1>1, <2>2, <3>1, <3>2, DueIsRipe DEF ScheduleInv
  <2> QED BY <2>3, <2>4
<1>2. ASSUME ScheduleInv, [Next]_vars
      PROVE  \A j \in Jobs : WorkerStarts(j) =>
               \/ \E k \in Jobs : <<k, "worker">> \in finishing /\ j \in FollowUps[k]
               \/ /\ mode[j] \in {"scheduled", "manual"}
                  /\ Due(j) \/ j \in overtaken \union rewritten \/ run[j] = "none"
  BY <1>1, <1>2 DEF Follows
<1> QED BY <1>2, ScheduleInvariant, PTL DEF Spec, StaleOnlyIfOvertaken

\* A due job stays due, whatever the clock, the reaper, crashes, control posts
\* and the other jobs' runs do, until it runs, leaves the schedule, gets a
\* longer interval, or loses its first day at midnight.
THEOREM DueStaysDue == Spec => DueIsKept
<1> DEFINE Excuse(j) ==
      \/ run'[j] = "active" \/ mode'[j] # "scheduled" \/ every'[j] > every[j]
      \/ run[j] = "none" /\ hour' = 0
<1>1. ASSUME ScheduleInv, [Next]_vars
      PROVE  \A j \in Jobs : Due(j) /\ ~ Due(j)' => Excuse(j)
  <2> SUFFICES ASSUME NEW j \in Jobs, Due(j), ~ Excuse(j)
               PROVE  Due(j)'
    OBVIOUS
  <2>0. TypeOK /\ TypeOK' /\ run[j] # "active" /\ Ripe(j) /\ mode'[j] = "scheduled"
    BY <1>1, ScheduleStep, DueIsRipe DEF ScheduleInv
  <2>1. ASSUME hour' = hour, run'[j] = run[j], since'[j] = since[j]
        PROVE  Due(j)'
    <3>1. SinceSlot(j)' = SinceSlot(j)
      BY <2>1 DEF SinceSlot
    <3>2. since[j] >= every[j] => since[j] >= every'[j]
      <4>1. since[j] \in Nat /\ every[j] \in Nat /\ every'[j] \in Nat /\ ~ every'[j] > every[j]
        BY <2>0 DEF TypeOK
      <4> QED BY <4>1
    <3> QED BY <2>0, <2>1, <3>1, <3>2 DEF Due, DailyDue, IntervalDue, Daily
  <2>2. CASE WorkerReap
    <3>1. ~ Stale(j)
      BY <2>0 DEF Stale
    <3> QED BY <2>1, <2>2, <3>1 DEF WorkerReap, CloseRows
  <2>3. ASSUME NEW k \in Jobs, NEW p, StartRun(k, p), hour' = hour PROVE Due(j)'
    <3>1. k # j
      BY <2>0, <2>3 DEF StartRun, TypeOK
    <3> QED BY <2>0, <2>1, <2>3, <3>1 DEF StartRun, TypeOK
  <2>4. ASSUME NEW k \in Jobs, EndRun(k) PROVE Due(j)'
    <3>1. run[k] = "active"
      BY <1>1, <2>4 DEF ScheduleInv, RunnerOK, EndRun
    <3>2. k # j
      BY <2>0, <3>1
    <3> QED BY <2>1, <2>4, <3>2 DEF EndRun, CloseRows
  <2>5. CASE UNCHANGED <<hour, run, since>>
    BY <2>1, <2>5
  <2>6. CASE Tick
    <3>1. run'[j] = run[j] /\ Ripe(j)'
      BY <2>0, <2>6, RipensByTime DEF Tick
    <3>2. CASE run[j] = "ended"
      BY <2>0, <3>1, <3>2, DueIsRipe DEF Due, Ripe, DailyDue, IntervalDue, Daily
    <3>3. CASE run[j] = "none" /\ Daily(j)
      <4>1. hour >= At[j] /\ hour' # 0
        BY <3>3 DEF Due, DailyDue
      <4>2. hour' >= At[j]
        BY <2>0, <2>6, <3>3, <4>1, SlotMoves DEF Tick
      <4> QED BY <2>0, <3>1, <3>3, <4>2 DEF Due, DailyDue, Daily
    <3>4. CASE run[j] = "none" /\ ~ Daily(j)
      BY <2>0, <3>1, <3>4 DEF Due, IntervalDue, Daily
    <3> QED BY <2>0, <3>2, <3>3, <3>4 DEF TypeOK
  <2> QED
    BY <1>1, <2>2, <2>3, <2>4, <2>5, <2>6
    DEF Next, WorkerStep, WorkerSelect, WorkerRun, WorkerSkip, WorkerSleep, WorkerCrash,
        WorkerRestart, FollowUp, NoFollowUp, OperatorRun, Control, rows, vars
<1> QED BY <1>1, ScheduleInvariant, PTL DEF Spec, DueIsKept
=============================================================================
