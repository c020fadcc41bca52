-------------------------- MODULE CrawlItemsProofs --------------------------
(***************************************************************************)
(* Theorems about CrawlItems.                                              *)
(***************************************************************************)
EXTENDS CrawlItems, WellFoundedInduction, TLAPS

-----------------------------------------------------------------------------
(* The backoff.                                                            *)

\* Induction, for a set: 0 is in it, and with a number the next one.
LEMMA Induction ==
  ASSUME NEW S \in SUBSET Nat, 0 \in S, \A n \in S : n + 1 \in S
  PROVE  S = Nat
<1> SUFFICES ASSUME Nat \ S # {} PROVE FALSE
  OBVIOUS
<1> DEFINE Rest == Nat \ S
<1>1. Rest \subseteq Nat /\ Rest # {}
  OBVIOUS
<1>2. PICK least \in Rest : \A y \in Rest : ~ (<<y, least>> \in OpToRel(<, Nat))
  <2> HIDE DEF Rest
  <2> QED BY <1>1, NatLessThanWellFounded, WFMin
<1>3. least \in Nat /\ least # 0 /\ least - 1 \in Nat
  OBVIOUS
<1>4. least - 1 \in S
  <2>1. <<least - 1, least>> \in OpToRel(<, Nat)
    BY <1>3 DEF OpToRel
  <2>2. least - 1 \notin Rest
    <3> HIDE DEF Rest
    <3> QED BY <1>2, <2>1
  <2> QED BY <1>3, <2>2
<1>5. (least - 1) + 1 \in S
  BY <1>4
<1>6. (least - 1) + 1 = least
  BY <1>3
<1> QED BY <1>5, <1>6

\* The table of the powers up to the n-th.
IsTable(f, n) ==
  /\ f \in [0 .. n -> Nat]
  /\ \A k \in 0 .. n : f[k] = IF k = 0 THEN 1 ELSE Multiplier * f[k - 1]

LEMMA TablesAgree ==
  ASSUME NEW n \in Nat, NEW m \in Nat, NEW f, NEW g, IsTable(f, n), IsTable(g, m),
         NEW i \in Nat, i <= n, i <= m
  PROVE  f[i] = g[i]
<1> DEFINE S == {k \in Nat : k <= n /\ k <= m => f[k] = g[k]}
<1>1. 0 \in S
  BY DEF IsTable
<1>2. ASSUME NEW k \in S PROVE k + 1 \in S
  <2> SUFFICES ASSUME k + 1 <= n, k + 1 <= m PROVE f[k + 1] = g[k + 1]
    OBVIOUS
  <2>1. /\ k \in Nat /\ k + 1 \in 0 .. n /\ k + 1 \in 0 .. m
        /\ k + 1 # 0 /\ (k + 1) - 1 = k /\ f[k] = g[k]
    OBVIOUS
  <2>2. f[k + 1] = Multiplier * f[k]
    BY <2>1 DEF IsTable
  <2>3. g[k + 1] = Multiplier * g[k]
    BY <2>1 DEF IsTable
  <2> QED BY <2>1, <2>2, <2>3
<1>3. S = Nat
  <2> HIDE DEF S
  <2>1. S \subseteq Nat
    BY DEF S
  <2> QED BY <1>1, <1>2, <2>1, Induction
<1> QED BY <1>3

LEMMA TablesExist ==
  ASSUME NEW n \in Nat
  PROVE  \E f : IsTable(f, n)
<1> DEFINE S == {k \in Nat : \E f : IsTable(f, k)}
<1>1. 0 \in S
  <2>1. IsTable([k \in 0 .. 0 |-> 1], 0)
    BY DEF IsTable
  <2> QED BY <2>1
<1>2. ASSUME NEW k \in S PROVE k + 1 \in S
  <2>1. PICK f : IsTable(f, k)
    OBVIOUS
  <2> DEFINE g == [i \in 0 .. (k + 1) |-> IF i = k + 1 THEN Multiplier * f[k] ELSE f[i]]
  <2>2. k \in Nat /\ Multiplier \in Nat /\ f[k] \in Nat
    BY <2>1, CrawlItemsAssumption DEF IsTable
  <2>3. Multiplier * f[k] \in Nat
    BY <2>2
  <2>4. g \in [0 .. (k + 1) -> Nat]
    BY <2>1, <2>2, <2>3 DEF IsTable
  <2>5. ASSUME NEW i \in 0 .. (k + 1)
        PROVE  g[i] = IF i = 0 THEN 1 ELSE Multiplier * g[i - 1]
    <3>1. CASE i = k + 1
      BY <2>2, <3>1
    <3>2. CASE i # k + 1
      <4>1. i \in 0 .. k /\ (i # 0 => i - 1 \in 0 .. k /\ i - 1 # k + 1)
        BY <2>2, <3>2
      <4>2. f[i] = IF i = 0 THEN 1 ELSE Multiplier * f[i - 1]
        BY <2>1, <4>1 DEF IsTable
      <4> QED BY <2>2, <4>1, <4>2, <3>2
    <3> QED BY <3>1, <3>2
  <2>6. IsTable(g, k + 1)
    BY <2>4, <2>5 DEF IsTable
  <2> QED BY <2>2, <2>6
<1>3. S = Nat
  <2> HIDE DEF S
  <2>1. S \subseteq Nat
    BY DEF S
  <2> QED BY <1>1, <1>2, <2>1, Induction
<1> QED BY <1>3

\* The recursion has a solution: the diagonal of the tables.
LEMMA PowerUnfolds ==
  Power = [k \in Nat |-> IF k = 0 THEN 1 ELSE Multiplier * Power[k - 1]]
<1> DEFINE Table(n) == CHOOSE f : IsTable(f, n)
           Diagonal == [k \in Nat |-> Table(k)[k]]
<1>1. ASSUME NEW n \in Nat PROVE IsTable(Table(n), n)
  BY TablesExist
<1> HIDE DEF Table
<1>2. ASSUME NEW k \in Nat
      PROVE  Diagonal[k] = IF k = 0 THEN 1 ELSE Multiplier * Diagonal[k - 1]
  <2>1. Table(k)[k] = IF k = 0 THEN 1 ELSE Multiplier * Table(k)[k - 1]
    <3>1. k \in 0 .. k
      OBVIOUS
    <3> QED BY <1>1, <3>1 DEF IsTable
  <2>2. CASE k = 0
    BY <2>1, <2>2
  <2>3. CASE k # 0
    <3>1. k - 1 \in Nat /\ k - 1 <= k
      BY <2>3
    <3>2. Table(k)[k - 1] = Table(k - 1)[k - 1]
      BY <1>1, <3>1, TablesAgree
    <3> QED BY <2>1, <2>3, <3>1, <3>2
  <2> QED BY <2>2, <2>3
<1>3. Diagonal = [k \in Nat |-> IF k = 0 THEN 1 ELSE Multiplier * Diagonal[k - 1]]
  BY <1>2
<1> HIDE DEF Diagonal
<1> QED BY <1>3 DEF Power

LEMMA PowerIsPositive == Power \in [Nat -> Nat \ {0}]
<1> DEFINE S == {k \in Nat : Power[k] \in Nat \ {0}}
<1>1. 0 \in S
  BY PowerUnfolds
<1>2. ASSUME NEW k \in S PROVE k + 1 \in S
  <2>1. k \in Nat /\ k + 1 \in Nat /\ k + 1 # 0 /\ (k + 1) - 1 = k
    OBVIOUS
  <2>2. Power[k + 1] = Multiplier * Power[k]
    BY <2>1, PowerUnfolds
  <2>3. Multiplier \in Nat \ {0} /\ Power[k] \in Nat \ {0}
    BY CrawlItemsAssumption
  <2>4. Multiplier * Power[k] \in Nat \ {0}
    BY <2>3
  <2> QED BY <2>1, <2>2, <2>4
<1>3. S = Nat
  <2> HIDE DEF S
  <2>1. S \subseteq Nat
    BY DEF S
  <2> QED BY <1>1, <1>2, <2>1, Induction
<1> QED BY <1>3, PowerUnfolds

\* The wait before a retry is at least a tick and at most the policy's cap,
\* whatever the number of the attempt.
THEOREM BackoffIsBounded ==
  ASSUME NEW n \in Nat
  PROVE  Backoff(n) \in 1 .. MaxBackoff
<1>1. Power[AtLeastOne(n) - 1] \in Nat \ {0}
  BY PowerIsPositive DEF AtLeastOne
<1> DEFINE p == Power[AtLeastOne(n) - 1]
<1>2. InitialBackoff * p \in Nat \ {0}
  <2> HIDE DEF p
  <2>1. InitialBackoff \in Nat \ {0} /\ p \in Nat \ {0}
    BY <1>1, CrawlItemsAssumption DEF p
  <2> QED BY <2>1
<1> QED BY <1>2, CrawlItemsAssumption DEF Backoff, AtMost

-----------------------------------------------------------------------------
(* The invariant.                                                          *)

\* A run that raised the counter has left an attempt row, which keeps it from
\* raising it again: rows are never deleted.
RaisedIsRecorded == \A r \in Runs : raises[r] = 0 \/ (raises[r] = 1 /\ Attempted(r))

\* The classification of every row agrees with its status and count.
RetryableIsFailed == Retryable(retryState) => itemStatus = "failed" /\ attempts < MaxAttempts

ItemInv ==
  /\ attempts \in Nat
  /\ raises \in [Runs -> Nat]
  /\ itemStatus \in Statuses \union {"absent"}
  /\ RaisedIsRecorded
  /\ RetryableIsFailed

LEMMA ItemInvInit == Init => ItemInv
  BY CrawlItemsAssumption
  DEF Init, ItemInv, RaisedIsRecorded, RetryableIsFailed, Retryable

\* What a classification calls retryable is a failure below the cap.
LEMMA RetryableBelowCap ==
  ASSUME NEW s \in Statuses, NEW n \in Nat, NEW w, NEW why, Retryable(RetryStateOf(s, n, w, why))
  PROVE  s = "failed" /\ n < MaxAttempts
  BY CrawlItemsAssumption DEF Statuses, Retryable, RetryStateOf

\* Hardening a failed, successful or skipped row, or a pending one, keeps the
\* classification in step with the row, drops no attempt row, and leaves one
\* when the run is known and the status final.
LEMMA HardenClassifies ==
  ASSUME NEW s \in Statuses, NEW n \in Nat, NEW meta, NEW err, NEW r,
         Harden(s, n, meta, err, r)
  PROVE  /\ Retryable(retryState') => s = "failed" /\ n < MaxAttempts
         /\ rows \subseteq rows'
         /\ r # NoRun /\ s # "pending" => <<r, AtLeastOne(n)>> \in rows'
  <1>1. retryState' = RetryStateOf(s, n, wait, ReasonOf(reason, meta, err))
    BY DEF Harden
  <1>2. Retryable(retryState') => s = "failed" /\ n < MaxAttempts
    BY <1>1, RetryableBelowCap
  <1>3. rows \subseteq rows' /\ (r # NoRun /\ s # "pending" => <<r, AtLeastOne(n)>> \in rows')
    BY DEF Harden
  <1> QED
    BY <1>2, <1>3

LEMMA UpsertKeeps ==
  ASSUME ItemInv,
         NEW r \in Runs \union {NoRun}, NEW s \in Statuses, NEW increment \in BOOLEAN,
         NEW meta, NEW err,
         increment => s # "pending",
         UpsertSourceCrawlItem(r, s, increment, meta, err)
  PROVE  ItemInv'
  <1> DEFINE raise == increment /\ (r = NoRun \/ ~Attempted(r))
             n == IF raise THEN attempts + 1 ELSE attempts
  <1>1. /\ n \in Nat /\ raise \in BOOLEAN
        /\ itemStatus' = s /\ attempts' = n
        /\ Harden(s, n, meta, err, r)
        /\ raises' = [q \in Runs |-> IF raise /\ q = r THEN raises[q] + 1 ELSE raises[q]]
    BY DEF UpsertSourceCrawlItem, ItemInv
  <1> HIDE DEF n
  <1>2. RetryableIsFailed'
    BY <1>1, HardenClassifies DEF RetryableIsFailed, Retryable
  <1>3. \A q \in Runs : Attempted(q) => Attempted(q)'
    BY <1>1, HardenClassifies DEF Attempted
  <1>4. RaisedIsRecorded'
    <2> SUFFICES ASSUME NEW q \in Runs
                 PROVE  raises'[q] = 0 \/ (raises'[q] = 1 /\ Attempted(q)')
      BY DEF RaisedIsRecorded
    <2>1. CASE raise /\ q = r
      <3>1. ~Attempted(q) /\ r # NoRun /\ s # "pending"
        BY <2>1, CrawlItemsAssumption
      <3>2. raises[q] = 0
        BY <3>1 DEF ItemInv, RaisedIsRecorded
      <3>3. <<q, AtLeastOne(n)>> \in rows'
        BY <1>1, <2>1, <3>1, HardenClassifies
      <3>4. Attempted(q)'
        BY <3>3 DEF Attempted
      <3> QED
        BY <1>1, <2>1, <3>2, <3>4
    <2>2. CASE ~(raise /\ q = r)
      <3>1. raises'[q] = raises[q]
        BY <1>1, <2>2
      <3> QED
        BY <3>1, <1>3 DEF ItemInv, RaisedIsRecorded
    <2> QED
      BY <2>1, <2>2
  <1>5. raises' \in [Runs -> Nat]
    <2> HIDE DEF raise
    <2> QED
      BY <1>1 DEF ItemInv
  <1> QED
    BY <1>1, <1>2, <1>4, <1>5 DEF ItemInv

LEMMA ItemInvNext == ItemInv /\ [Next]_vars => ItemInv'
  <1> SUFFICES ASSUME ItemInv, [Next]_vars PROVE ItemInv'
    OBVIOUS
  <1>1. CASE RecordItem
    <2>1. PICK r \in Runs \union {NoRun}, meta \in Classes :
            \/ \E err \in Classes \ {"none"} : UpsertSourceCrawlItem(r, "failed", TRUE, meta, err)
            \/ \E s \in {"succeeded", "skipped"}, increment \in BOOLEAN :
                 UpsertSourceCrawlItem(r, s, increment, meta, "none")
            \/ UpsertSourceCrawlItem(r, "pending", FALSE, meta, "none")
      BY <1>1 DEF RecordItem
    <2> QED
      BY <2>1, UpsertKeeps DEF Statuses
  <1>2. CASE ClassifySourceCrawlItemRetries
    <2>1. /\ itemStatus = "failed" /\ UNCHANGED <<itemStatus, attempts, raises>>
          /\ Harden(itemStatus, attempts, "none", error, lastRun)
      BY <1>2 DEF ClassifySourceCrawlItemRetries
    <2>2. itemStatus \in Statuses /\ attempts \in Nat
      BY <2>1 DEF ItemInv, Statuses
    <2>3. RetryableIsFailed' /\ rows \subseteq rows'
      BY <2>1, <2>2, HardenClassifies DEF RetryableIsFailed, Retryable
    <2>4. RaisedIsRecorded'
      BY <2>1, <2>3 DEF ItemInv, RaisedIsRecorded, Attempted
    <2> QED
      BY <2>1, <2>3, <2>4 DEF ItemInv
  <1>3. CASE Tick \/ UNCHANGED vars
    BY <1>3 DEF Tick, vars, ItemInv, RaisedIsRecorded, RetryableIsFailed, Retryable, Attempted
  <1> QED
    BY <1>1, <1>2, <1>3 DEF Next

LEMMA ItemInvariant == Spec => []ItemInv
  BY ItemInvInit, ItemInvNext, PTL DEF Spec

\* Classified, a row has a time to wait of at most the policy's cap.
LEMMA HardenTypes ==
  ASSUME TypeOK, NEW s \in Statuses, NEW n \in Nat, NEW meta \in Classes, NEW err \in Classes,
         NEW r \in Runs \union {NoRun}, Harden(s, n, meta, err, r)
  PROVE  /\ retryState' \in RetryStates /\ reason' \in Classes
         /\ wait' \in 0 .. MaxBackoff \union {NoTime}
         /\ lastRun' \in Runs \union {NoRun}
         /\ rows' \subseteq Runs \X (Nat \ {0})
<1> DEFINE why == ReasonOf(reason, meta, err)
           st == RetryStateOf(s, n, wait, why)
<1>1. /\ retryState' = st /\ reason' = why /\ wait' = NextRetryOf(st, n, wait)
      /\ lastRun' = IF r = NoRun THEN lastRun ELSE r
      /\ rows' = IF r = NoRun \/ s = "pending" THEN rows
                 ELSE rows \union {<<r, AtLeastOne(n)>>}
  BY DEF Harden
<1>2. why \in Classes
  BY DEF ReasonOf, Classes, TypeOK
<1>3. st \in RetryStates
  BY CrawlItemsAssumption DEF RetryStateOf, RetryStates, Statuses
<1> HIDE DEF why, st
<1>4. NextRetryOf(st, n, wait) \in 0 .. MaxBackoff \union {NoTime}
  <2>1. Backoff(n) \in 0 .. MaxBackoff
    BY BackoffIsBounded, CrawlItemsAssumption
  <2> QED BY <2>1 DEF NextRetryOf, TypeOK
<1>5. AtLeastOne(n) \in Nat \ {0}
  BY DEF AtLeastOne
<1>6. rows' \subseteq Runs \X (Nat \ {0})
  BY <1>1, <1>5 DEF TypeOK
<1> QED BY <1>1, <1>2, <1>3, <1>4, <1>6 DEF TypeOK

LEMMA TypeStep == TypeOK /\ [Next]_vars => TypeOK'
<1> SUFFICES ASSUME TypeOK, [Next]_vars PROVE TypeOK'
  OBVIOUS
<1>1. ASSUME NEW r \in Runs \union {NoRun}, NEW s \in Statuses, NEW increment \in BOOLEAN,
             NEW meta \in Classes, NEW err \in Classes,
             UpsertSourceCrawlItem(r, s, increment, meta, err)
      PROVE  TypeOK'
  <2> DEFINE raise == increment /\ (r = NoRun \/ ~Attempted(r))
             n == IF raise THEN attempts + 1 ELSE attempts
  <2>1. /\ itemStatus' = s /\ attempts' = n /\ error' = err
        /\ Harden(s, n, meta, err, r)
        /\ raises' = [q \in Runs |-> IF raise /\ q = r THEN raises[q] + 1 ELSE raises[q]]
    BY <1>1 DEF UpsertSourceCrawlItem
  <2>2. n \in Nat
    BY DEF TypeOK
  <2> HIDE DEF raise, n
  <2>3. raises' \in [Runs -> Nat]
    BY <2>1 DEF TypeOK
  <2> QED BY <2>1, <2>2, <2>3, HardenTypes DEF TypeOK
<1>2. CASE RecordItem
  <2>1. PICK r \in Runs \union {NoRun}, meta \in Classes :
          \/ \E err \in Classes \ {"none"} : UpsertSourceCrawlItem(r, "failed", TRUE, meta, err)
          \/ \E s \in {"succeeded", "skipped"}, increment \in BOOLEAN :
               UpsertSourceCrawlItem(r, s, increment, meta, "none")
          \/ UpsertSourceCrawlItem(r, "pending", FALSE, meta, "none")
    BY <1>2 DEF RecordItem
  <2> QED BY <1>1, <2>1 DEF Statuses, Classes
<1>3. CASE ClassifySourceCrawlItemRetries
  <2>1. /\ itemStatus = "failed" /\ UNCHANGED <<itemStatus, attempts, error, raises>>
        /\ Harden(itemStatus, attempts, "none", error, lastRun)
    BY <1>3 DEF ClassifySourceCrawlItemRetries
  <2>2. itemStatus \in Statuses /\ attempts \in Nat /\ error \in Classes
        /\ "none" \in Classes /\ lastRun \in Runs \union {NoRun}
    BY <2>1 DEF TypeOK, Statuses, Classes
  <2> QED BY <2>1, <2>2, HardenTypes DEF TypeOK
<1>4. CASE Tick
  <2>1. wait - 1 \in 0 .. MaxBackoff
    BY <1>4, CrawlItemsAssumption DEF Tick, TypeOK
  <2> QED BY <1>4, <2>1 DEF Tick, TypeOK
<1>5. CASE UNCHANGED vars
  BY <1>5 DEF vars, TypeOK
<1> QED BY <1>2, <1>3, <1>4, <1>5 DEF Next

\* The item's columns keep their types; above all no write, retry or
\* reclassification puts the next retry further off than maxBackoffSeconds.
THEOREM ItemTypeCorrect == Spec => []TypeOK
<1>1. Init => TypeOK
  BY DEF Init, TypeOK, RetryStates, Classes
<1> QED BY <1>1, TypeStep, PTL DEF Spec

\* No run raises an item's counter twice, for any number of runs, whatever the
\* order of attempts, plain writes and reclassifications.
THEOREM AttemptsCountOnce == Spec => []OncePerRun
  <1>1. ItemInv => OncePerRun
    <2> SUFFICES ASSUME ItemInv, NEW r \in Runs PROVE raises[r] <= 1
      BY DEF OncePerRun
    <2>1. raises[r] = 0 \/ raises[r] = 1
      BY DEF ItemInv, RaisedIsRecorded
    <2> QED
      BY <2>1
  <1> QED
    BY <1>1, ItemInvariant, PTL

\* What the retry query offers is a failure below its cap, for any cap, policy
\* and number of runs.
THEOREM OffersAreRetryable == Spec => []OfferedIsRetryable
  <1>1. ItemInv => OfferedIsRetryable
    BY DEF ItemInv, RetryableIsFailed, OfferedIsRetryable, Offered
  <1> QED
    BY <1>1, ItemInvariant, PTL

-----------------------------------------------------------------------------
(* What the end of the wait rests on                                       *)

\* A retryable item has a time, and it never moves away: whatever runs and
\* classifications write in between, the wait is not begun anew while the item
\* stays retryable, and each tick shortens it.
WaitNeverGrows ==
  [][Retryable(retryState) /\ Retryable(retryState') =>
       /\ wait' \in 0 .. wait
       /\ Tick => wait' = wait - 1]_vars

\* The inductive part: what is retryable has a time.
HasTime == Retryable(retryState) => wait \in Nat

LEMMA HardenTimes ==
  ASSUME TypeOK, HasTime, NEW s, NEW n \in Nat, NEW meta, NEW err, NEW r,
         Harden(s, n, meta, err, r), Retryable(retryState')
  PROVE  wait' \in Nat /\ (Retryable(retryState) => wait' = wait)
<1> DEFINE st == RetryStateOf(s, n, wait, ReasonOf(reason, meta, err))
<1>1. retryState' = st /\ wait' = NextRetryOf(st, n, wait)
  BY DEF Harden
<1> HIDE DEF st
<1>2. Backoff(n) \in Nat
  BY BackoffIsBounded, CrawlItemsAssumption
<1>3. wait \in Nat \union {NoTime} /\ NoTime \notin Nat
  BY CrawlItemsAssumption DEF TypeOK
<1> QED BY <1>1, <1>2, <1>3 DEF NextRetryOf, HasTime

LEMMA TimeStep ==
  ASSUME TypeOK, HasTime, [Next]_vars
  PROVE  /\ HasTime'
         /\ Retryable(retryState) /\ Retryable(retryState') =>
              wait' = wait \/ (Tick /\ wait' = wait - 1 /\ wait # 0)
<1>1. CASE RecordItem \/ ClassifySourceCrawlItemRetries
  <2>1. PICK s, n, meta, err, r : Harden(s, n, meta, err, r) /\ n \in Nat
    <3>1. CASE RecordItem
      <4>1. PICK r \in Runs \union {NoRun}, s \in Statuses, increment \in BOOLEAN,
                 meta \in Classes, err \in Classes :
              UpsertSourceCrawlItem(r, s, increment, meta, err)
        <5>1. PICK r \in Runs \union {NoRun}, meta \in Classes :
                \/ \E err \in Classes \ {"none"} :
                     UpsertSourceCrawlItem(r, "failed", TRUE, meta, err)
                \/ \E s \in {"succeeded", "skipped"}, increment \in BOOLEAN :
                     UpsertSourceCrawlItem(r, s, increment, meta, "none")
                \/ UpsertSourceCrawlItem(r, "pending", FALSE, meta, "none")
          BY <3>1 DEF RecordItem
        <5>2. {"failed", "succeeded", "skipped", "pending"} \subseteq Statuses /\ "none" \in Classes
          BY DEF Statuses, Classes
        <5> QED BY <5>1, <5>2
      <4>2. attempts \in Nat /\ attempts + 1 \in Nat
        BY DEF TypeOK
      <4> QED BY <4>1, <4>2 DEF UpsertSourceCrawlItem
    <3>2. CASE ClassifySourceCrawlItemRetries
      BY <3>2 DEF ClassifySourceCrawlItemRetries, TypeOK
    <3> QED BY <1>1, <3>1, <3>2
  <2> QED BY <2>1, HardenTimes DEF HasTime
<1>2. CASE Tick
  BY <1>2, CrawlItemsAssumption DEF Tick, HasTime, TypeOK
<1>3. CASE UNCHANGED vars
  BY <1>3 DEF vars, HasTime
<1> QED BY <1>1, <1>2, <1>3 DEF Next

\* For any policy, the time of a retryable item only comes nearer.
THEOREM WaitsNeverGrow == Spec => WaitNeverGrows
<1>1. Init => HasTime
  BY DEF Init, HasTime, Retryable
<1>2. TypeOK /\ HasTime /\ [Next]_vars => HasTime'
  BY TimeStep
<1>3. ASSUME TypeOK, HasTime, [Next]_vars, Retryable(retryState), Retryable(retryState')
      PROVE  wait' \in 0 .. wait /\ (Tick => wait' = wait - 1)
  <2>1. wait \in Nat
    BY <1>3 DEF HasTime
  <2>2. Tick => wait' = wait - 1
    BY DEF Tick
  <2> QED BY <1>3, <2>1, <2>2, TimeStep
<1>4. TypeOK /\ HasTime /\ [Next]_vars =>
        [Retryable(retryState) /\ Retryable(retryState') =>
           wait' \in 0 .. wait /\ (Tick => wait' = wait - 1)]_vars
  BY <1>3
<1> QED BY <1>1, <1>2, <1>4, ItemTypeCorrect, PTL DEF Spec, WaitNeverGrows
=============================================================================
