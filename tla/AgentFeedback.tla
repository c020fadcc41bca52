--------------------------- MODULE AgentFeedback ---------------------------
(***************************************************************************)
(* Agent feedback for one agent and one milestone: the runs that send the  *)
(* initial request (src/lib/agent-feedback-auto-send.js and                *)
(* agent-feedback-send.js), the runs that remind                           *)
(* (agent-feedback-reminders.js), and the requests that submit an answer   *)
(* (agent-feedback-routes.js), with Gmail and ClickUp as external services *)
(* that may fail before or after they have done their work.  Any run and   *)
(* any request may die between two awaits.                                 *)
(***************************************************************************)
EXTENDS AgentFeedbackStore, FiniteSets

CONSTANTS
  Operators,     \* the senders that are approved single sends by hand
  Reminders,     \* runs of the reminder job
  MaxReminders,  \* AGENT_FEEDBACK_REMINDER_MAX_COUNT
  MaxAge,        \* AGENT_FEEDBACK_REMINDER_MAX_AGE_DAYS
  LastDay,       \* bound: the clock stops there
  NoMail,        \* nothing delivered
  NoSlot,        \* no slot chosen yet
  NoLink         \* no link used yet

Runs == Senders \union Reminders
Days == 0 .. LastDay

ASSUME FeedbackAssumption ==
  /\ Operators \subseteq Senders
  /\ Senders \intersect Reminders = {} /\ Runs \intersect Submits = {}
  /\ MaxReminders \in Nat /\ MaxAge \in Nat /\ LastDay \in Nat
  /\ NoMail \notin Nat /\ NoSlot \notin Nat /\ NoLink \notin Runs

VARIABLES
  pc,           \* each run's and each request's next await
  slot,         \* the slot a reminder run has decided on
  clickUp,      \* the milestone's status field in ClickUp: empty, Requested, or
                \* one of those that end it (Completed, Skipped, Blocked)
  mailed,       \* history: the day a run's mail was delivered
  misreported,  \* history: runs whose delivered mail was reported as failed
  adopted,      \* history: reminder runs that took over a pending row
  answered      \* history: the day of the first response

external == <<clickUp, mailed, misreported>>
history == <<adopted, answered>>
vars == <<store, day, pc, slot, external, history>>

SenderPcs == {"idle", "read", "planned", "sending", "mailed", "marking", "marked",
              "repairing", "failing", "done"}
ReminderPcs == {"idle", "read", "planned", "checked", "pending", "sending", "mailed",
                "repairing", "failing", "done"}
SubmitPcs == {"idle", "checked", "saved", "done"}

TypeOK ==
  /\ row \in [Senders -> SendStatuses \union {"none"}]
  /\ updated \in [Senders -> Days]
  /\ slotRow \in [Slots -> ReminderStatuses \union {"none"}]
  /\ saved \subseteq Submits
  /\ token \in [Submits -> Runs \union {NoLink}]
  /\ day \in Days
  /\ pc \in [Runs \union Submits -> SenderPcs \union ReminderPcs \union SubmitPcs]
  /\ slot \in [Reminders -> Slots \union {NoSlot}]
  /\ clickUp \in {"empty", "requested", "closed"}
  /\ mailed \in [Runs -> Days \union {NoMail}]
  /\ misreported \subseteq Runs
  /\ adopted \subseteq Reminders
  /\ answered \in Days \union {NoMail}

Init ==
  /\ StoreInit
  /\ token = [a \in Submits |-> NoLink]
  /\ pc = [p \in Runs \union Submits |-> "idle"]
  /\ slot = [m \in Reminders |-> NoSlot]
  /\ clickUp = "empty"
  /\ mailed = [p \in Runs |-> NoMail]
  /\ misreported = {} /\ adopted = {} /\ answered = NoMail

Delivered(p) == mailed[p] # NoMail
Goto(p, here, there) == pc[p] = here /\ pc' = [pc EXCEPT ![p] = there]

-----------------------------------------------------------------------------
(* Gmail: the message is delivered and accepted, not delivered, or         *)
(* delivered although the call fails.                                      *)

SendGmailMessage(p, sent, failed) ==
  /\ pc[p] = "sending"
  /\ \/ /\ mailed' = [mailed EXCEPT ![p] = day]
        /\ pc' = [pc EXCEPT ![p] = sent]
        /\ UNCHANGED misreported
     \/ /\ pc' = [pc EXCEPT ![p] = failed]
        /\ UNCHANGED <<mailed, misreported>>
     \/ /\ mailed' = [mailed EXCEPT ![p] = day]
        /\ misreported' = misreported \union {p}
        /\ pc' = [pc EXCEPT ![p] = failed]

-----------------------------------------------------------------------------
(* The initial request.                                                    *)

\* The roster snapshot, before the tables are read; a status that is not
\* empty makes the candidate ineligible.
SenderSnapshot(s) ==
  /\ clickUp = "empty"
  /\ Goto(s, "idle", "read")
  /\ UNCHANGED <<store, day, slot, external, history>>

\* Auto-send also looks for a response, an approved single send does not.
Eligible(s) == ActiveAttempts = {} /\ (s \in Operators \/ saved = {})
SenderPlan(s) ==
  /\ Goto(s, "read", IF Eligible(s) THEN "planned" ELSE "done")
  /\ UNCHANGED <<store, day, slot, external, history>>

\* The insert is outside the try block: when the index refuses it the run ends.
SenderInsert(s) ==
  /\ \/ Goto(s, "planned", "sending") /\ CreateSendAttempt(s)
     \/ Goto(s, "planned", "done") /\ ActiveAttempts # {} /\ UNCHANGED <<row, updated>>
  /\ UNCHANGED <<slotRow, saved, token, day, slot, external, history>>

SenderMail(s) ==
  /\ SendGmailMessage(s, "mailed", "failing")
  /\ UNCHANGED <<store, day, slot, clickUp, history>>

SenderRecord(s) ==
  /\ \/ Goto(s, "mailed", "marking") /\ UpdateSendAttempt(s, "sent")
     \/ Goto(s, "mailed", "repairing")
          /\ Fails(UpdateSendAttempt(s, "sent"), UNCHANGED <<row, updated>>)
  /\ UNCHANGED <<slotRow, saved, token, day, slot, external, history>>

\* markAgentFeedbackRequestedInClickUp overwrites whatever the field holds.
SenderMark(s) ==
  /\ \/ Goto(s, "marking", "marked") /\ clickUp' = "requested"
     \/ Goto(s, "marking", "repairing") /\ Fails(clickUp' = "requested", UNCHANGED clickUp)
  /\ UNCHANGED <<store, day, slot, mailed, misreported, history>>

SenderClose(s) ==
  /\ \/ Goto(s, "marked", "done") /\ UpdateSendAttempt(s, "clickup_requested")
     \/ Goto(s, "marked", "repairing")
          /\ Fails(UpdateSendAttempt(s, "clickup_requested"), UNCHANGED <<row, updated>>)
  /\ UNCHANGED <<slotRow, saved, token, day, slot, external, history>>

\* Mutant: the catch block does not ask whether Gmail has succeeded.
SenderCatch_AlwaysFailed(s) ==
  /\ \/ Goto(s, "repairing", "done")
     \/ Goto(s, "failing", "done")
  /\ UpdateSendAttempt(s, "failed")
  /\ UNCHANGED <<slotRow, saved, token, day, slot, external, history>>

\* The two ends of the catch block; an update that throws there ends the run.
SenderCatch(s) ==
  /\ \/ Goto(s, "repairing", "done")
          /\ Fails(UpdateSendAttempt(s, "sent"), UNCHANGED <<row, updated>>)
     \/ Goto(s, "failing", "done")
          /\ Fails(UpdateSendAttempt(s, "failed"), UNCHANGED <<row, updated>>)
  /\ UNCHANGED <<slotRow, saved, token, day, slot, external, history>>

SenderStep(s) ==
  \/ SenderSnapshot(s) \/ SenderPlan(s) \/ SenderInsert(s) \/ SenderMail(s)
  \/ SenderRecord(s) \/ SenderMark(s) \/ SenderClose(s) \/ SenderCatch(s)

-----------------------------------------------------------------------------
(* Reminders.                                                              *)

ReminderSnapshot(m) ==
  /\ clickUp # "closed"
  /\ Goto(m, "idle", "read")
  /\ UNCHANGED <<store, day, slot, external, history>>

SentCount == Cardinality({k \in Slots : slotRow[k] = "sent"})
\* A slot with a row is never due again, whatever the row's status.
DueSlots(s) == {k \in Slots : updated[s] + Offsets[k] <= day /\ slotRow[k] = "none"}
\* Mutant: any active initial request may be reminded of.
Remindable_AnyActive(s) ==
  /\ saved = {}
  /\ row[s] \in ActiveStatuses
  /\ SentCount < MaxReminders
  /\ day - updated[s] <= MaxAge
  /\ DueSlots(s) # {}

\* Mutant: an answer shows only in ClickUp's status, read before the plan.
Remindable_ByClickUp(s) ==
  /\ row[s] = "clickup_requested"
  /\ SentCount < MaxReminders
  /\ day - updated[s] <= MaxAge
  /\ DueSlots(s) # {}

Remindable(s) ==
  /\ saved = {}
  /\ row[s] = "clickup_requested"
  /\ SentCount < MaxReminders
  /\ day - updated[s] <= MaxAge
  /\ DueSlots(s) # {}

\* classifyReminderCandidate; the first due slot is taken.
ReminderPlan(m) ==
  /\ \/ \E s \in Senders :
          /\ Remindable(s)
          /\ Goto(m, "read", "planned")
          /\ \E k \in DueSlots(s) :
               /\ \A j \in DueSlots(s) : k <= j
               /\ slot' = [slot EXCEPT ![m] = k]
     \/ /\ \A s \in Senders : ~Remindable(s)
        /\ Goto(m, "read", "done") /\ UNCHANGED slot
  /\ UNCHANGED <<store, day, external, history>>

ReminderCheck(m) ==
  /\ Goto(m, "planned", IF slotRow[slot[m]] = "none" THEN "checked" ELSE "done")
  /\ UNCHANGED <<store, day, slot, external, history>>

\* Mutant: the status of the returned row is not looked at.
ReminderInsert_AnyStatus(m) ==
  /\ Goto(m, "checked", "pending")
  /\ CreateReminder(slot[m])
  /\ adopted' = IF slotRow[slot[m]] = "pending" THEN adopted \union {m} ELSE adopted
  /\ UNCHANGED <<row, updated, saved, token, day, slot, external, answered>>

\* The returned row is taken for the run's own as long as it is pending.
ReminderInsert(m) ==
  /\ Goto(m, "checked", IF slotRow[slot[m]] \in {"none", "pending"} THEN "pending" ELSE "done")
  /\ CreateReminder(slot[m])
  /\ adopted' = IF slotRow[slot[m]] = "pending" THEN adopted \union {m} ELSE adopted
  /\ UNCHANGED <<row, updated, saved, token, day, slot, external, answered>>

ReminderStart(m) ==
  /\ \/ Goto(m, "pending", "sending") /\ UpdateReminder(slot[m], "sending")
     \/ Goto(m, "pending", "failing")
          /\ Fails(UpdateReminder(slot[m], "sending"), UNCHANGED slotRow)
  /\ UNCHANGED <<row, updated, saved, token, day, slot, external, history>>

ReminderMail(m) ==
  /\ SendGmailMessage(m, "mailed", "failing")
  /\ UNCHANGED <<store, day, slot, clickUp, history>>

ReminderRecord(m) ==
  /\ \/ Goto(m, "mailed", "done") /\ UpdateReminder(slot[m], "sent")
     \/ Goto(m, "mailed", "repairing")
          /\ Fails(UpdateReminder(slot[m], "sent"), UNCHANGED slotRow)
  /\ UNCHANGED <<row, updated, saved, token, day, slot, external, history>>

ReminderCatch(m) ==
  /\ \/ Goto(m, "repairing", "done")
          /\ Fails(UpdateReminder(slot[m], "repair"), UNCHANGED slotRow)
     \/ Goto(m, "failing", "done")
          /\ Fails(UpdateReminder(slot[m], "failed"), UNCHANGED slotRow)
  /\ UNCHANGED <<row, updated, saved, token, day, slot, external, history>>

ReminderStep(m) ==
  \/ ReminderSnapshot(m) \/ ReminderPlan(m) \/ ReminderCheck(m) \/ ReminderInsert(m)
  \/ ReminderStart(m) \/ ReminderMail(m) \/ ReminderRecord(m) \/ ReminderCatch(m)

-----------------------------------------------------------------------------
(* Answers.                                                                *)

\* The link comes from a delivered mail; the checks read both the token's and
\* the milestone's response.
SubmitCheck(a) ==
  \E t \in Runs :
    /\ Delivered(t) /\ saved = {}
    /\ Goto(a, "idle", "checked")
    /\ token' = [token EXCEPT ![a] = t]
    /\ UNCHANGED <<row, updated, slotRow, saved, day, slot, external, history>>

SubmitSave(a) ==
  /\ \/ /\ Goto(a, "checked", "saved") /\ SaveResponse(a)
        /\ answered' = IF saved = {} THEN day ELSE answered
     \/ /\ Goto(a, "checked", "done") /\ TokenUsed(token[a])
        /\ UNCHANGED <<saved, answered>>
  /\ UNCHANGED <<row, updated, slotRow, token, day, slot, external, adopted>>

\* writeAgentFeedbackToClickUp overwrites the field too; its failure is only
\* reported.
SubmitWriteback(a) ==
  /\ Goto(a, "saved", "done")
  /\ Fails(clickUp' = "closed", UNCHANGED clickUp)
  /\ UNCHANGED <<store, day, slot, mailed, misreported, history>>

SubmitStep(a) == SubmitCheck(a) \/ SubmitSave(a) \/ SubmitWriteback(a)

-----------------------------------------------------------------------------
(* Environment.                                                            *)

\* A run or a request dies, or ends on an error nothing catches.
Crash(p) ==
  /\ pc[p] \notin {"idle", "done"}
  /\ pc' = [pc EXCEPT ![p] = "done"]
  /\ UNCHANGED <<store, day, slot, external, history>>

\* Somebody sets the field to Skipped or Blocked.
HumanClose ==
  /\ clickUp' = "closed"
  /\ UNCHANGED <<store, day, pc, slot, mailed, misreported, history>>

\* Runs start inside the send window and are over before the next day's.
NextDay ==
  /\ day < LastDay
  /\ \A p \in Runs : pc[p] \in {"idle", "done"}
  /\ day' = day + 1
  /\ UNCHANGED <<store, pc, slot, external, history>>

Next ==
  \/ \E s \in Senders : SenderStep(s)
  \/ \E m \in Reminders : ReminderStep(m)
  \/ \E a \in Submits : SubmitStep(a)
  \/ \E p \in Runs \union Submits : Crash(p)
  \/ HumanClose
  \/ NextDay

Spec == Init /\ [][Next]_vars

-----------------------------------------------------------------------------
(* Properties.                                                             *)

\* The initial request reaches the agent twice only if Gmail delivered one of
\* the two and said that it had not: no order of runs, failed writes, lost
\* answers and crashes sends it twice (idx_agent_feedback_active_send_once,
\* the row written before the mail, and the catch block's status).
OneInitialMail ==
  \A s1, s2 \in Senders :
    s1 # s2 /\ Delivered(s1) /\ Delivered(s2) => {s1, s2} \intersect misreported # {}

\* What the ledgers say of a mail is so: a row that is sent stands for a
\* delivered mail, and one that failed for none, unless Gmail said otherwise or
\* two runs shared the row (the statuses of both catch blocks).
LedgerIsHonest ==
  /\ \A s \in Senders :
       /\ row[s] \in {"sent", "clickup_requested"} => Delivered(s)
       /\ row[s] = "failed" /\ Delivered(s) => s \in misreported
  /\ \A k \in Slots : slotRow[k] \in {"sent", "repair"} =>
       \E m \in Reminders : slot[m] = k /\ Delivered(m)
  /\ \A m \in Reminders : Delivered(m) /\ slotRow[slot[m]] = "failed" =>
       m \in misreported \/ \E n \in adopted : slot[n] = slot[m]

\* A reminder follows an initial request that was delivered, and never comes
\* before its slot's day counted from any delivery of the request
\* (buildReminderSchedule counts from updated_at of the active attempt).
RemindersKeepCadence ==
  \A m \in Reminders : Delivered(m) =>
    /\ \E s \in Senders : Delivered(s)
    /\ \A s \in Senders : Delivered(s) => mailed[m] >= mailed[s] + Offsets[slot[m]]

\* After the day of the agent's answer nothing is sent by the jobs, although
\* ClickUp may say Requested again: the sender's late write overwrites Completed
\* (markAgentFeedbackRequestedInClickUp), and a writeback may fail.
AnswerEndsMail ==
  \A p \in Runs \ Operators :
    answered # NoMail /\ Delivered(p) => mailed[p] <= answered

\* A slot is reminded twice only by a run that took over another run's pending
\* row: getAgentFeedbackReminderAttemptBySlot and the slot's row keep every
\* later run from it, whatever became of the first.
SecondReminderIsAdopted ==
  \A m1, m2 \in Reminders :
    m1 # m2 /\ Delivered(m1) /\ Delivered(m2) /\ slot[m1] = slot[m2] =>
      {m1, m2} \intersect adopted # {}

\* docs/process/approved-plans/agent-feedback-reminder-cadence-v1.md: "No
\* duplicate reminders for the same task, milestone, and cadence slot."
\* (checked by the run reminder_slot, which refutes it).
NoDuplicateReminders ==
  \A m1, m2 \in Reminders :
    m1 # m2 /\ Delivered(m1) /\ Delivered(m2) => slot[m1] # slot[m2]
=============================================================================
