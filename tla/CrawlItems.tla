----------------------------- MODULE CrawlItems -----------------------------
(***************************************************************************)
(* One source-crawl item and its attempt rows (source_crawl_items and      *)
(* source_crawl_item_attempts): the writes of the crawl scripts, each of   *)
(* which classifies the item for retry in its own transaction              *)
(* (src/lib/extraction-run-hardening.js), the reclassification that runs   *)
(* and retries make, and the query that offers items to a retry.           *)
(*                                                                         *)
(* Texts (errors, reasons in the metadata) matter only by whether they     *)
(* match isBlockedReason.  Nobody leases items or marks attempts started   *)
(* or finished, so their status is never "leased".                         *)
(***************************************************************************)
EXTENDS Naturals

CONSTANTS
  Runs,            \* crawl runs that write the item
  NoRun,           \* a script started by hand carries no run id
  MaxAttempts,     \* max_attempts of the row: the column's default
  InitialBackoff,  \* initialBackoffSeconds, in ticks
  Multiplier,      \* backoffMultiplier
  MaxBackoff,      \* maxBackoffSeconds, in ticks
  NoTime,          \* next_retry_at is NULL
  AttemptBound     \* bound: attempts beyond it are not made

ASSUME CrawlItemsAssumption ==
  /\ NoRun \notin Runs
  /\ MaxAttempts \in Nat \ {0}
  /\ InitialBackoff \in Nat \ {0} /\ Multiplier \in Nat \ {0}
  /\ MaxBackoff \in Nat \ {0}
  /\ AttemptBound \in Nat
  /\ NoTime \notin Nat

VARIABLES
  itemStatus,   \* status, "absent" when there is no row
  attempts,     \* attempt_count
  retryState,   \* retry_state
  reason,       \* class of retry_reason
  wait,         \* ticks to next_retry_at, 0 when past, NoTime when NULL
  error,        \* class of last_error
  lastRun,      \* last_source_crawl_run_id
  rows,         \* attempt rows: <<run, attempt number>>
  raises        \* history: how often each run raised the counter

vars == <<itemStatus, attempts, retryState, reason, wait, error, lastRun, rows, raises>>

Statuses == {"pending", "succeeded", "skipped", "failed"}
RetryStates ==
  {"not_evaluated", "eligible", "waiting", "succeeded", "skipped", "blocked", "exhausted"}
\* "none" is an empty text.
Classes == {"none", "blocking", "other"}

TypeOK ==
  /\ itemStatus \in Statuses \union {"absent"}
  /\ attempts \in Nat
  /\ retryState \in RetryStates
  /\ reason \in Classes
  /\ wait \in 0 .. MaxBackoff \union {NoTime}
  /\ error \in Classes
  /\ lastRun \in Runs \union {NoRun}
  /\ rows \subseteq Runs \X (Nat \ {0})
  /\ raises \in [Runs -> Nat]

Init ==
  /\ itemStatus = "absent"
  /\ attempts = 0
  /\ retryState = "not_evaluated"
  /\ reason = "none"
  /\ wait = NoTime
  /\ error = "none"
  /\ lastRun = NoRun
  /\ rows = {}
  /\ raises = [r \in Runs |-> 0]

-----------------------------------------------------------------------------
(* Classification *)

AtMost(m, n) == IF n < m THEN n ELSE m
AtLeastOne(n) == IF n = 0 THEN 1 ELSE n

\* Powers of the multiplier, as a function that the proofs can unfold.
Power[k \in Nat] == IF k = 0 THEN 1 ELSE Multiplier * Power[k - 1]

\* Mutant: the cap is forgotten.
Backoff_Uncapped(n) == InitialBackoff * Power[AtLeastOne(n) - 1]
Backoff(n) == AtMost(MaxBackoff, InitialBackoff * Power[AtLeastOne(n) - 1])

\* reasonFromItem: the stored reason, then the metadata's, then the error;
\* the status is the last resort and blocks nothing.
ReasonOf(stored, meta, err) ==
  CASE stored # "none" -> stored
    [] stored = "none" /\ meta # "none" -> meta
    [] stored = "none" /\ meta = "none" /\ err # "none" -> err
    [] OTHER -> "other"

\* Mutant: one attempt more than the cap.
RetryStateOf_OneMore(s, n, w, why) ==
  CASE s \in {"succeeded", "skipped"} -> s
    [] s \in {"absent", "pending"} -> "not_evaluated"
    [] s = "failed" /\ why = "blocking" -> "blocked"
    [] s = "failed" /\ why # "blocking" /\ n > MaxAttempts -> "exhausted"
    [] OTHER -> IF w = 0 THEN "eligible" ELSE "waiting"

\* Without a time to retry at, one in the future is computed.
RetryStateOf(s, n, w, why) ==
  CASE s \in {"succeeded", "skipped"} -> s
    [] s \in {"absent", "pending"} -> "not_evaluated"
    [] s = "failed" /\ why = "blocking" -> "blocked"
    [] s = "failed" /\ why # "blocking" /\ n >= MaxAttempts -> "exhausted"
    [] OTHER -> IF w = 0 THEN "eligible" ELSE "waiting"

Retryable(st) == st \in {"eligible", "waiting"}

\* Mutant: the backoff is computed anew by every classification.
NextRetryOf_Restarts(st, n, w) == IF Retryable(st) THEN Backoff(n) ELSE NoTime
\* A time that is stored is kept, also when it is past.
NextRetryOf(st, n, w) ==
  CASE Retryable(st) /\ w = NoTime -> Backoff(n)
    [] Retryable(st) /\ w # NoTime -> w
    [] OTHER -> NoTime

\* applySourceCrawlItemHardening on a row with status s, count n and error err,
\* whose metadata says meta, written by run r: the classification and, when
\* the run is known and the status is final, its attempt row.
Harden(s, n, meta, err, r) ==
  LET why == ReasonOf(reason, meta, err)
      st == RetryStateOf(s, n, wait, why)
  IN /\ retryState' = st
     /\ wait' = NextRetryOf(st, n, wait)
     /\ reason' = why
     /\ lastRun' = IF r = NoRun THEN lastRun ELSE r
     /\ rows' = IF r = NoRun \/ s = "pending" THEN rows
                ELSE rows \union {<<r, AtLeastOne(n)>>}

-----------------------------------------------------------------------------
(* Operations *)

\* Mutant: only the last run that wrote the item is looked at.
Attempted_LastRun(r) == lastRun = r
\* An attempt row of the run, whatever its number.
Attempted(r) == \E a \in rows : a[1] = r

\* upsertSourceCrawlItem by run r (or none): status s, an attempt or not.
UpsertSourceCrawlItem(r, s, increment, meta, err) ==
  LET raise == increment /\ (r = NoRun \/ ~Attempted(r))
      n == IF raise THEN attempts + 1 ELSE attempts
  IN /\ n <= AttemptBound
     /\ itemStatus' = s
     /\ attempts' = n
     /\ error' = err
     /\ Harden(s, n, meta, err, r)
     /\ raises' = [q \in Runs |-> IF raise /\ q = r THEN raises[q] + 1 ELSE raises[q]]

\* Failures are attempts; successes and skips are in some scripts; a pending
\* item never is.
RecordItem ==
  \E r \in Runs \union {NoRun}, meta \in Classes :
    \/ \E err \in Classes \ {"none"} : UpsertSourceCrawlItem(r, "failed", TRUE, meta, err)
    \/ \E s \in {"succeeded", "skipped"}, increment \in BOOLEAN :
         UpsertSourceCrawlItem(r, s, increment, meta, "none")
    \/ UpsertSourceCrawlItem(r, "pending", FALSE, meta, "none")

\* Final states are those of the status already, so only failures change.
ClassifySourceCrawlItemRetries ==
  /\ itemStatus = "failed"
  /\ Harden(itemStatus, attempts, "none", error, lastRun)
  /\ UNCHANGED <<itemStatus, attempts, error, raises>>

\* Time matters while next_retry_at is ahead.
Tick ==
  /\ wait # NoTime /\ wait # 0
  /\ wait' = wait - 1
  /\ UNCHANGED <<itemStatus, attempts, retryState, reason, error, lastRun, rows, raises>>

Next == RecordItem \/ ClassifySourceCrawlItemRetries \/ Tick

Spec == Init /\ [][Next]_vars

\* Time passes; nothing is assumed of the scripts.
FairSpec == Spec /\ WF_vars(Tick)

-----------------------------------------------------------------------------
(* Properties *)

\* getRetryableSourceCrawlItems: next_retry_at is NULL or past.
Offered == Retryable(retryState) /\ wait \in {0, NoTime}

\* Re-running an item under one run id raises its counter once, although runs
\* interleave on the item, write it with and without an attempt, and a
\* reclassification writes attempt rows too.
OncePerRun == \A r \in Runs : raises[r] <= 1

\* Items at the cap, and items whose last write is not a failure, are not
\* offered for retry, whatever state earlier writes left.
OfferedIsRetryable == Offered => itemStatus = "failed" /\ attempts < MaxAttempts

\* A waiting item is offered when its time comes, however often runs write and
\* classify it in the meantime.
WaitingEnds == retryState = "waiting" ~> Offered \/ retryState # "waiting"
=============================================================================
