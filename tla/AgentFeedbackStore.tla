------------------------- MODULE AgentFeedbackStore -------------------------
(***************************************************************************)
(* The agent-feedback tables for one agent and one milestone               *)
(* (src/lib/foundation-agent-feedback-store.js): send attempts, reminder   *)
(* attempts and responses.  Every statement is its own transaction.  A     *)
(* send attempt is named after the run that inserts it, a response after   *)
(* the request that inserts it, a reminder attempt by its slot.            *)
(***************************************************************************)
EXTENDS Naturals, Sequences

CONSTANTS
  Senders,    \* runs of the initial request (auto-send job, approved sends)
  Submits,    \* POSTs of /api/agent-feedback/submit
  Offsets     \* days after the request at which the reminder slots are due

ASSUME StoreAssumption == Offsets \in Seq(Nat)

VARIABLES
  row,        \* agent_onboarding_feedback_send_attempts.status
  updated,    \* its updated_at, in days
  slotRow,    \* agent_onboarding_feedback_reminder_attempts.status
  saved,      \* agent_onboarding_feedback_responses: requests with a row
  token,      \* token_hash: the run whose mail carried the link
  day         \* the clock

store == <<row, updated, slotRow, saved, token>>

Slots == DOMAIN Offsets
SendStatuses == {"sending", "sent", "clickup_requested", "failed"}
\* The statuses of the partial unique index idx_agent_feedback_active_send_once.
ActiveStatuses == {"sending", "sent", "clickup_requested"}
ReminderStatuses == {"pending", "sending", "sent", "repair", "failed"}

StoreInit ==
  /\ row = [s \in Senders |-> "none"]
  /\ updated = [s \in Senders |-> 0]
  /\ slotRow = [k \in Slots |-> "none"]
  /\ saved = {}
  /\ day = 0

\* Mutant: the index does not cover a row whose mail is not recorded yet.
ActiveAttempts_SentOnly == {s \in Senders : row[s] \in {"sent", "clickup_requested"}}
\* getActiveAgentFeedbackSendAttempt: the index leaves at most one.
ActiveAttempts == {s \in Senders : row[s] \in ActiveStatuses}

\* The unique index refuses a second active row.
CreateSendAttempt(s) ==
  /\ ActiveAttempts = {}
  /\ row' = [row EXCEPT ![s] = "sending"]
  /\ updated' = [updated EXCEPT ![s] = day]

\* By id, whatever the row's status is.
UpdateSendAttempt(s, status) ==
  /\ row' = [row EXCEPT ![s] = status]
  /\ updated' = [updated EXCEPT ![s] = day]

\* ON CONFLICT (task, milestone, slot) DO NOTHING; the row of the slot is then
\* returned, whoever inserted it.
CreateReminder(k) ==
  slotRow' = IF slotRow[k] = "none" THEN [slotRow EXCEPT ![k] = "pending"] ELSE slotRow

UpdateReminder(k, status) == slotRow' = [slotRow EXCEPT ![k] = status]

\* ON CONFLICT (token_hash) DO NOTHING; without a row the caller gets an error.
TokenUsed(t) == \E a \in saved : token[a] = t
SaveResponse(a) ==
  /\ ~TokenUsed(token[a])
  /\ saved' = saved \union {a}

\* A statement that throws has failed, or has committed and lost its answer.
Fails(write, unchanged) == write \/ unchanged
=============================================================================
