------------------------ MODULE AgentFeedbackProofs ------------------------
(***************************************************************************)
(* What the ledgers of sent requests, reminders and answers guarantee for  *)
(* any number of runs, requests, reminder slots and days.                  *)
(***************************************************************************)
EXTENDS AgentFeedback, TLAPS

USE StoreAssumption, FeedbackAssumption

Settled == {"sent", "clickup_requested"}
BeforeMail == {"idle", "read", "planned", "checked", "pending", "sending"}
AfterPlan == {"planned", "checked", "pending", "sending"}

\* A run's row is written before its mail and stays active unless Gmail has
\* reported a failure; two rows are never active together.
SenderOK ==
  /\ \A s \in Senders :
       /\ pc[s] \in SenderPcs
       /\ pc[s] \in {"idle", "read", "planned"} => row[s] = "none" /\ ~Delivered(s)
       /\ pc[s] = "sending" => row[s] = "sending" /\ ~Delivered(s)
       /\ pc[s] \in {"mailed", "marking", "marked", "repairing"} =>
            Delivered(s) /\ row[s] \in ActiveStatuses
       /\ pc[s] = "failing" => row[s] = "sending" /\ (Delivered(s) => s \in misreported)
       /\ Delivered(s) /\ s \notin misreported => row[s] \in ActiveStatuses
       /\ row[s] \in Settled => Delivered(s)
  /\ \A s, t \in Senders : row[s] \in ActiveStatuses /\ row[t] \in ActiveStatuses => s = t

\* A reminder run that has taken the row of its slot, whether or not it ended.
InHand(m) == pc[m] \in {"pending", "sending", "mailed", "repairing", "failing"} \/ Delivered(m)

ReminderOK ==
  \A m \in Reminders :
    /\ pc[m] \in ReminderPcs
    /\ pc[m] \in BeforeMail => ~Delivered(m)
    /\ pc[m] \in {"mailed", "repairing"} => Delivered(m)
    /\ pc[m] = "failing" => (Delivered(m) => m \in misreported)
    /\ pc[m] \in AfterPlan \/ InHand(m) => slot[m] \in Slots
    /\ m \in adopted => pc[m] \notin {"idle", "read", "planned", "checked"}

\* All but one of the runs that have a slot in hand took its row over, and
\* what the row says is so.
SlotOK ==
  /\ \A m \in Reminders : InHand(m) => slotRow[slot[m]] # "none"
  /\ \A m, n \in Reminders :
       m # n /\ InHand(m) /\ InHand(n) /\ slot[m] = slot[n] => {m, n} \intersect adopted # {}
  /\ \A m \in Reminders :
       InHand(m) /\ slotRow[slot[m]] = "failed" =>
         m \in misreported \/ \E n \in adopted : slot[n] = slot[m]
  /\ \A k \in Slots : slotRow[k] \in {"sent", "repair"} =>
       \E m \in Reminders : slot[m] = k /\ Delivered(m)

\* A run of a job that has planned a mail before the answer sends it that day.
TimeOK ==
  /\ \A p \in Runs : Delivered(p) => mailed[p] <= day
  /\ saved = {} <=> answered = NoMail
  /\ answered # NoMail => answered <= day
  /\ \A p \in Runs \ Operators : pc[p] \in AfterPlan /\ answered # NoMail => answered = day
  /\ AnswerEndsMail

\* On day d the slot of m is due, counted from every delivery of a request, and
\* the request is settled: no other can be sent.
Ready(m, d) ==
  /\ \E s \in Senders : row[s] \in Settled
  /\ \A s \in Senders : Delivered(s) => mailed[s] + Offsets[slot[m]] <= d

CadenceOK ==
  /\ \A s, t \in Senders : row[s] \in Settled /\ Delivered(t) => mailed[t] <= updated[s]
  /\ \A m \in Reminders : pc[m] \in AfterPlan => Ready(m, day)
  /\ \A m \in Reminders : Delivered(m) => Ready(m, mailed[m])

FeedbackInv == TypeOK /\ SenderOK /\ ReminderOK /\ SlotOK /\ TimeOK /\ CadenceOK

-----------------------------------------------------------------------------
(* Types.                                                                  *)

LEMMA InitFeedbackInv == Init => FeedbackInv
<1> SUFFICES ASSUME Init
             PROVE  FeedbackInv
  OBVIOUS
<1> USE DEF Init, StoreInit
<1>1. TypeOK
  BY DEF TypeOK, Days, SenderPcs, Runs
<1>2. \A p \in Runs : ~ Delivered(p) /\ pc[p] = "idle"
  BY DEF Delivered
<1>3. SenderOK
  BY <1>2 DEF SenderOK, SenderPcs, Runs, ActiveStatuses, Settled
<1>4. ReminderOK /\ SlotOK
  BY <1>2 DEF ReminderOK, SlotOK, InHand, ReminderPcs, Runs, BeforeMail, AfterPlan
<1>5. TimeOK
  BY <1>2 DEF TimeOK, AnswerEndsMail
<1>6. CadenceOK
  BY <1>2 DEF CadenceOK, Runs, AfterPlan, Settled
<1> QED BY <1>1, <1>3, <1>4, <1>5, <1>6 DEF FeedbackInv

Pcs == SenderPcs \union ReminderPcs \union SubmitPcs

\* A step from one await to the next touches one run's counter.
LEMMA GotoFacts ==
  ASSUME TypeOK, NEW p \in Runs \union Submits, NEW here, NEW there \in Pcs, Goto(p, here, there)
  PROVE  /\ pc' \in [Runs \union Submits -> Pcs]
         /\ pc[p] = here /\ pc'[p] = there
         /\ \A q \in (Runs \union Submits) \ {p} : pc'[q] = pc[q]
BY DEF TypeOK, Goto, Pcs

LEMMA RowFacts ==
  ASSUME TypeOK, NEW s \in Senders, NEW status \in SendStatuses, UpdateSendAttempt(s, status)
  PROVE  /\ row' \in [Senders -> SendStatuses \union {"none"}] /\ updated' \in [Senders -> Days]
         /\ row'[s] = status /\ updated'[s] = day
         /\ \A t \in Senders \ {s} : row'[t] = row[t] /\ updated'[t] = updated[t]
BY DEF TypeOK, UpdateSendAttempt

LEMMA MailFacts ==
  ASSUME TypeOK, NEW p \in Runs, NEW sent \in Pcs, NEW failed \in Pcs,
         SendGmailMessage(p, sent, failed)
  PROVE  /\ pc' \in [Runs \union Submits -> Pcs] /\ mailed' \in [Runs -> Days \union {NoMail}]
         /\ misreported' \subseteq Runs /\ pc[p] = "sending"
         /\ \/ pc'[p] = sent /\ mailed'[p] = day /\ misreported' = misreported
            \/ pc'[p] = failed /\ mailed'[p] = mailed[p] /\ misreported' = misreported
            \/ pc'[p] = failed /\ mailed'[p] = day /\ misreported' = misreported \union {p}
         /\ \A q \in (Runs \union Submits) \ {p} : pc'[q] = pc[q]
         /\ \A q \in Runs \ {p} : mailed'[q] = mailed[q]
<1>1. pc[p] = "sending" /\ p \in Runs \union Submits
  BY DEF SendGmailMessage
<1>2. PICK there \in {sent, failed} : pc' = [pc EXCEPT ![p] = there]
  BY DEF SendGmailMessage
<1>3. /\ pc' \in [Runs \union Submits -> Pcs] /\ pc'[p] = there
      /\ \A q \in (Runs \union Submits) \ {p} : pc'[q] = pc[q]
  BY <1>1, <1>2 DEF TypeOK, Pcs
<1>4. CASE mailed' = [mailed EXCEPT ![p] = day]
  <2>1. /\ mailed' \in [Runs -> Days \union {NoMail}] /\ mailed'[p] = day
        /\ \A q \in Runs \ {p} : mailed'[q] = mailed[q]
    BY <1>4 DEF TypeOK
  <2>2. \/ pc' = [pc EXCEPT ![p] = sent] /\ misreported' = misreported
        \/ pc' = [pc EXCEPT ![p] = failed] /\ misreported' = misreported
             /\ mailed' = mailed
        \/ pc' = [pc EXCEPT ![p] = failed] /\ misreported' = misreported \union {p}
    BY DEF SendGmailMessage
  <2>3. misreported' \subseteq Runs
    BY <2>2 DEF TypeOK
  <2>4. \A w : pc' = [pc EXCEPT ![p] = w] => pc'[p] = w
    BY <1>1 DEF TypeOK
  <2> QED BY <1>1, <1>3, <2>1, <2>2, <2>3, <2>4
<1>5. CASE mailed' # [mailed EXCEPT ![p] = day]
  <2>1. pc' = [pc EXCEPT ![p] = failed] /\ UNCHANGED <<mailed, misreported>>
    BY <1>5 DEF SendGmailMessage
  <2>2. pc'[p] = failed
    BY <1>1, <2>1 DEF TypeOK
  <2> QED BY <1>1, <1>3, <2>1, <2>2 DEF TypeOK
<1> QED BY <1>4, <1>5

-----------------------------------------------------------------------------
(* What a step of a sender does.                                           *)

SameRow(s) == row'[s] = row[s] /\ updated'[s] = updated[s]
SameMail(p) == mailed'[p] = mailed[p] /\ misreported' = misreported

\* The others' rows, mails and counters, and the tables of reminders and
\* answers, stay as they are.
SenderFrame(s) ==
  /\ \A t \in Senders \ {s} : SameRow(t)
  /\ \A q \in Runs \ {s} : mailed'[q] = mailed[q]
  /\ \A q \in (Runs \union Submits) \ {s} : pc'[q] = pc[q]
  /\ misreported \subseteq misreported' /\ misreported' \subseteq misreported \union {s}
  /\ UNCHANGED <<slotRow, saved, token, day, slot, adopted, answered>>

SenderMove(s) ==
  \/ SameRow(s) /\ SameMail(s) /\ pc[s] = "idle" /\ pc'[s] = "read"
  \/ SameRow(s) /\ SameMail(s) /\ pc[s] = "read" /\ pc'[s] = "planned" /\ (s \in Operators \/ saved = {})
  \/ SameRow(s) /\ SameMail(s) /\ pc'[s] = "done"
  \/ /\ pc[s] = "planned" /\ pc'[s] = "sending" /\ SameMail(s)
     /\ ActiveAttempts = {} /\ row'[s] = "sending"
  \/ /\ pc[s] = "sending" /\ SameRow(s)
     /\ \/ pc'[s] = "mailed" /\ mailed'[s] = day /\ misreported' = misreported
        \/ pc'[s] = "failing" /\ SameMail(s)
        \/ pc'[s] = "failing" /\ mailed'[s] = day /\ s \in misreported'
  \/ /\ pc[s] \in {"mailed", "marking", "marked", "repairing"}
     /\ pc'[s] \in {"marking", "marked", "repairing", "done"} /\ SameMail(s)
     /\ SameRow(s) \/ (row'[s] \in Settled /\ updated'[s] = day)
  \/ pc[s] = "failing" /\ pc'[s] = "done" /\ SameMail(s) /\ row'[s] = "failed"

LEMMA SenderMoves ==
  ASSUME TypeOK, NEW s \in Senders, SenderStep(s)
  PROVE  TypeOK' /\ SenderFrame(s) /\ SenderMove(s)
<1> USE DEF SenderFrame, SameRow, SameMail
<1>1. s \in Runs /\ s \in Runs \union Submits
  BY DEF Runs
<1>2. {"idle", "read", "planned", "sending", "mailed", "marking", "marked", "repairing",
       "failing", "done"} \subseteq Pcs
  BY DEF Pcs, SenderPcs
<1>3. CASE SenderSnapshot(s)
  <2>1. Goto(s, "idle", "read") /\ UNCHANGED <<store, day, slot, external, history>>
    BY <1>3 DEF SenderSnapshot
  <2> QED BY <2>1, <1>1, <1>2, GotoFacts DEF store, external, history, TypeOK, SenderMove, Pcs
<1>4. CASE SenderPlan(s)
  <2>1. /\ Goto(s, "read", IF Eligible(s) THEN "planned" ELSE "done")
        /\ UNCHANGED <<store, day, slot, external, history>>
    BY <1>4 DEF SenderPlan
  <2>2. Eligible(s) => s \in Operators \/ saved = {}
    BY DEF Eligible
  <2> QED BY <2>1, <2>2, <1>1, <1>2, GotoFacts DEF store, external, history, TypeOK, SenderMove, Pcs
<1>5. CASE SenderInsert(s)
  <2>1. UNCHANGED <<slotRow, saved, token, day, slot, external, history>>
    BY <1>5 DEF SenderInsert
  <2>2. CASE Goto(s, "planned", "sending") /\ CreateSendAttempt(s)
    <3>1. ActiveAttempts = {} /\ UpdateSendAttempt(s, "sending") /\ "sending" \in SendStatuses
      BY <2>2 DEF CreateSendAttempt, UpdateSendAttempt, SendStatuses
    <3> QED BY <2>1, <2>2, <3>1, <1>1, <1>2, GotoFacts, RowFacts
            DEF external, history, TypeOK, SenderMove, Pcs
  <2>3. CASE Goto(s, "planned", "done") /\ UNCHANGED <<row, updated>>
    BY <2>1, <2>3, <1>1, <1>2, GotoFacts DEF external, history, TypeOK, SenderMove, Pcs
  <2> QED BY <1>5, <2>2, <2>3 DEF SenderInsert
<1>6. CASE SenderMail(s)
  <2>1. /\ SendGmailMessage(s, "mailed", "failing")
        /\ UNCHANGED <<store, day, slot, clickUp, history>>
    BY <1>6 DEF SenderMail
  <2>2. /\ pc' \in [Runs \union Submits -> Pcs] /\ mailed' \in [Runs -> Days \union {NoMail}]
        /\ misreported' \subseteq Runs /\ pc[s] = "sending"
        /\ \/ pc'[s] = "mailed" /\ mailed'[s] = day /\ misreported' = misreported
           \/ pc'[s] = "failing" /\ mailed'[s] = mailed[s] /\ misreported' = misreported
           \/ pc'[s] = "failing" /\ mailed'[s] = day /\ misreported' = misreported \union {s}
        /\ \A q \in (Runs \union Submits) \ {s} : pc'[q] = pc[q]
        /\ \A q \in Runs \ {s} : mailed'[q] = mailed[q]
    BY <2>1, <1>1, <1>2, MailFacts
  <2>3. TypeOK'
    BY <2>1, <2>2 DEF store, history, TypeOK, Pcs
  <2> QED BY <2>1, <2>2, <2>3 DEF store, history, SenderMove
<1>7. ASSUME NEW here \in {"mailed", "marking", "marked", "repairing"},
             NEW there \in {"marking", "marked", "repairing", "done"}, Goto(s, here, there),
             \/ UNCHANGED <<row, updated>>
             \/ \E status \in Settled : UpdateSendAttempt(s, status),
             clickUp' \in {"empty", "requested", "closed"},
             UNCHANGED <<slotRow, saved, token, day, slot, mailed, misreported, history>>
      PROVE  TypeOK' /\ SenderFrame(s) /\ SenderMove(s)
  <2>1. Settled \subseteq SendStatuses /\ there \in Pcs
    BY <1>2 DEF Settled, SendStatuses
  <2>2. /\ pc' \in [Runs \union Submits -> Pcs] /\ pc[s] = here /\ pc'[s] = there
        /\ \A q \in (Runs \union Submits) \ {s} : pc'[q] = pc[q]
    BY <1>1, <1>7, <2>1, GotoFacts
  <2>3. /\ row' \in [Senders -> SendStatuses \union {"none"}] /\ updated' \in [Senders -> Days]
        /\ SameRow(s) \/ (row'[s] \in Settled /\ updated'[s] = day)
        /\ \A t \in Senders \ {s} : SameRow(t)
    BY <1>7, <2>1, RowFacts DEF TypeOK
  <2> QED BY <1>7, <2>2, <2>3 DEF history, TypeOK, SenderMove, Pcs
<1>8. CASE SenderRecord(s) \/ SenderMark(s) \/ SenderClose(s)
  BY <1>7, <1>8 DEF SenderRecord, SenderMark, SenderClose, Fails, Settled, store, external, TypeOK
<1>9. CASE SenderCatch(s)
  <2>1. CASE Goto(s, "repairing", "done")
    BY <1>7, <1>9, <2>1 DEF SenderCatch, Fails, Settled, external, TypeOK, Goto
  <2>2. CASE /\ Goto(s, "failing", "done")
             /\ Fails(UpdateSendAttempt(s, "failed"), UNCHANGED <<row, updated>>)
    <3>1. UNCHANGED <<slotRow, saved, token, day, slot, external, history>>
      BY <1>9 DEF SenderCatch
    <3>2. CASE UpdateSendAttempt(s, "failed")
      <4>1. "failed" \in SendStatuses
        BY DEF SendStatuses
      <4> QED BY <2>2, <3>1, <3>2, <4>1, <1>1, <1>2, GotoFacts, RowFacts
              DEF external, history, TypeOK, SenderMove, Pcs
    <3>3. CASE UNCHANGED <<row, updated>>
      BY <2>2, <3>1, <3>3, <1>1, <1>2, GotoFacts DEF external, history, TypeOK, SenderMove, Pcs
    <3> QED BY <2>2, <3>2, <3>3 DEF Fails
  <2> QED BY <1>9, <2>1, <2>2 DEF SenderCatch
<1> QED BY <1>3, <1>4, <1>5, <1>6, <1>8, <1>9 DEF SenderStep
-----------------------------------------------------------------------------
(* What a step of a reminder run does.                                     *)

ReminderFrame(m) ==
  /\ \A k \in Slots : k # slot'[m] => slotRow'[k] = slotRow[k]
  /\ \A n \in Reminders \ {m} : slot'[n] = slot[n]
  /\ \A q \in Runs \ {m} : mailed'[q] = mailed[q]
  /\ \A q \in (Runs \union Submits) \ {m} : pc'[q] = pc[q]
  /\ misreported \subseteq misreported' /\ misreported' \subseteq misreported \union {m}
  /\ UNCHANGED <<row, updated, saved, token, day, answered>>

\* The step writes one of these statuses to the row of its slot, or nothing.
Writes(m, statuses) ==
  /\ slot'[m] = slot[m] /\ adopted' = adopted
  /\ slotRow'[slot[m]] \in statuses \union {slotRow[slot[m]]}

ReminderMove(m) ==
  \/ pc[m] = "idle" /\ pc'[m] = "read" /\ SameMail(m) /\ UNCHANGED <<slotRow, slot, adopted>>
  \/ pc'[m] = "done" /\ SameMail(m) /\ UNCHANGED <<slotRow, slot, adopted>>
  \/ /\ pc[m] = "read" /\ pc'[m] = "planned" /\ SameMail(m) /\ UNCHANGED <<slotRow, adopted>>
     /\ slot'[m] \in Slots /\ saved = {}
     /\ \E s \in Senders :
          row[s] = "clickup_requested" /\ updated[s] + Offsets[slot'[m]] <= day
  \/ /\ pc[m] = "planned" /\ pc'[m] = "checked" /\ SameMail(m)
     /\ UNCHANGED <<slotRow, slot, adopted>>
  \/ /\ pc[m] = "checked" /\ pc'[m] = "pending" /\ SameMail(m) /\ slot' = slot
     /\ slotRow'[slot[m]] = "pending"
     /\ \/ slotRow[slot[m]] = "none" /\ adopted' = adopted
        \/ slotRow[slot[m]] = "pending" /\ adopted' = adopted \union {m}
  \/ /\ pc[m] = "pending" /\ pc'[m] \in {"sending", "failing"} /\ SameMail(m)
     /\ Writes(m, {"sending"})
  \/ /\ pc[m] = "sending" /\ UNCHANGED <<slotRow, slot, adopted>>
     /\ \/ pc'[m] = "mailed" /\ mailed'[m] = day /\ misreported' = misreported
        \/ pc'[m] = "failing" /\ SameMail(m)
        \/ pc'[m] = "failing" /\ mailed'[m] = day /\ m \in misreported'
  \/ /\ pc[m] \in {"mailed", "repairing"} /\ pc'[m] \in {"repairing", "done"} /\ SameMail(m)
     /\ Writes(m, {"sent", "repair"})
  \/ pc[m] = "failing" /\ pc'[m] = "done" /\ SameMail(m) /\ Writes(m, {"failed"})

LEMMA SlotRowFacts ==
  ASSUME TypeOK, NEW k \in Slots, NEW status \in ReminderStatuses,
         slotRow' = [slotRow EXCEPT ![k] = status]
  PROVE  /\ slotRow' \in [Slots -> ReminderStatuses \union {"none"}] /\ slotRow'[k] = status
         /\ \A j \in Slots \ {k} : slotRow'[j] = slotRow[j]
BY DEF TypeOK

LEMMA ReminderMoves ==
  ASSUME TypeOK, ReminderOK, NEW m \in Reminders, ReminderStep(m)
  PROVE  TypeOK' /\ ReminderFrame(m) /\ ReminderMove(m)
<1> USE DEF ReminderFrame, SameMail
<1>1. m \in Runs /\ m \in Runs \union Submits
  BY DEF Runs
<1>2. {"idle", "read", "planned", "checked", "pending", "sending", "mailed", "repairing",
       "failing", "done"} \subseteq Pcs
  BY DEF Pcs, ReminderPcs
<1>3. ASSUME NEW here \in {"idle", "planned", "checked", "read"}, NEW there \in {"read", "checked", "done"},
             Goto(m, here, there), there = "read" => here = "idle", there = "checked" => here = "planned",
             UNCHANGED <<store, day, slot, external, history>>
      PROVE  TypeOK' /\ ReminderFrame(m) /\ ReminderMove(m)
  <2>1. there \in Pcs
    BY <1>2
  <2> QED BY <1>3, <2>1, <1>1, GotoFacts DEF store, external, history, TypeOK, ReminderMove, Pcs
<1>4. CASE ReminderSnapshot(m)
  BY <1>3, <1>4 DEF ReminderSnapshot
<1>5. CASE ReminderPlan(m)
  <2>1. UNCHANGED <<store, day, external, history>>
    BY <1>5 DEF ReminderPlan
  <2>2. CASE Goto(m, "read", "done") /\ UNCHANGED slot
    BY <1>3, <2>1, <2>2
  <2>3. ASSUME NEW s \in Senders, Remindable(s), Goto(m, "read", "planned"),
               NEW k \in DueSlots(s), slot' = [slot EXCEPT ![m] = k]
        PROVE  TypeOK' /\ ReminderFrame(m) /\ ReminderMove(m)
    <3>1. /\ k \in Slots /\ updated[s] + Offsets[k] <= day
          /\ saved = {} /\ row[s] = "clickup_requested"
      BY <2>3 DEF DueSlots, Remindable
    <3>2. /\ slot' \in [Reminders -> Slots \union {NoSlot}] /\ slot'[m] = k
          /\ \A n \in Reminders \ {m} : slot'[n] = slot[n]
      BY <2>3, <3>1 DEF TypeOK
    <3>3. /\ pc' \in [Runs \union Submits -> Pcs] /\ pc[m] = "read" /\ pc'[m] = "planned"
          /\ \A q \in (Runs \union Submits) \ {m} : pc'[q] = pc[q]
      BY <1>1, <1>2, <2>3, GotoFacts
    <3>4. TypeOK'
      BY <2>1, <3>2, <3>3 DEF store, external, history, TypeOK, Pcs
    <3> QED BY <2>1, <3>1, <3>2, <3>3, <3>4 DEF store, external, history, ReminderMove
  <2> QED BY <1>5, <2>2, <2>3 DEF ReminderPlan
<1>6. CASE ReminderCheck(m)
  BY <1>3, <1>6 DEF ReminderCheck
<1>7. CASE ReminderInsert(m)
  <2>1. /\ UNCHANGED <<row, updated, saved, token, day, slot, external, answered>>
        /\ Goto(m, "checked", IF slotRow[slot[m]] \in {"none", "pending"} THEN "pending" ELSE "done")
        /\ CreateReminder(slot[m])
        /\ adopted' = IF slotRow[slot[m]] = "pending" THEN adopted \union {m} ELSE adopted
    BY <1>7 DEF ReminderInsert
  <2>2. slot[m] \in Slots /\ "pending" \in ReminderStatuses
    BY <2>1 DEF Goto, ReminderOK, AfterPlan, ReminderStatuses
  <2>3. /\ slotRow' \in [Slots -> ReminderStatuses \union {"none"}]
        /\ slotRow[slot[m]] = "none" => slotRow'[slot[m]] = "pending"
        /\ slotRow[slot[m]] # "none" => slotRow' = slotRow
        /\ \A j \in Slots \ {slot[m]} : slotRow'[j] = slotRow[j]
    BY <2>1, <2>2, SlotRowFacts DEF CreateReminder, TypeOK
  <2>4. /\ pc' \in [Runs \union Submits -> Pcs] /\ pc[m] = "checked"
        /\ pc'[m] = IF slotRow[slot[m]] \in {"none", "pending"} THEN "pending" ELSE "done"
        /\ \A q \in (Runs \union Submits) \ {m} : pc'[q] = pc[q]
    BY <1>1, <1>2, <2>1, GotoFacts
  <2>5. TypeOK'
    BY <2>1, <2>3, <2>4 DEF external, TypeOK, Pcs
  <2> QED BY <2>1, <2>3, <2>4, <2>5 DEF external, ReminderMove
<1>8. ASSUME NEW here \in {"pending", "mailed", "repairing", "failing"},
             NEW there \in {"sending", "repairing", "failing", "done"},
             NEW status \in ReminderStatuses, Goto(m, here, there),
             Fails(UpdateReminder(slot[m], status), UNCHANGED slotRow),
             UNCHANGED <<row, updated, saved, token, day, slot, external, history>>
      PROVE  TypeOK' /\ ReminderFrame(m) /\ Writes(m, {status}) /\ pc[m] = here /\ pc'[m] = there
  <2>1. slot[m] \in Slots
    BY <1>8 DEF Goto, ReminderOK, InHand
  <2>2. /\ slotRow' \in [Slots -> ReminderStatuses \union {"none"}]
        /\ slotRow'[slot[m]] \in {status, slotRow[slot[m]]}
        /\ \A j \in Slots \ {slot[m]} : slotRow'[j] = slotRow[j]
    BY <1>8, <2>1, SlotRowFacts DEF Fails, UpdateReminder, TypeOK
  <2>3. /\ pc' \in [Runs \union Submits -> Pcs] /\ pc[m] = here /\ pc'[m] = there
        /\ \A q \in (Runs \union Submits) \ {m} : pc'[q] = pc[q]
    <3>1. there \in Pcs
      BY <1>2
    <3> QED BY <1>1, <1>8, <3>1, GotoFacts
  <2>4. TypeOK'
    BY <1>8, <2>2, <2>3 DEF external, history, TypeOK, Pcs
  <2> QED BY <1>8, <2>2, <2>3, <2>4 DEF external, history, Writes
<1>9. {"sending", "sent", "repair", "failed"} \subseteq ReminderStatuses
  BY DEF ReminderStatuses
<1>10. CASE ReminderStart(m)
  <2>1. PICK there \in {"sending", "failing"} :
          /\ Goto(m, "pending", there)
          /\ Fails(UpdateReminder(slot[m], "sending"), UNCHANGED slotRow)
    BY <1>10 DEF ReminderStart, Fails
  <2>2. UNCHANGED <<row, updated, saved, token, day, slot, external, history>>
    BY <1>10 DEF ReminderStart
  <2>3. TypeOK' /\ ReminderFrame(m) /\ Writes(m, {"sending"}) /\ pc[m] = "pending" /\ pc'[m] = there
    BY <1>8, <1>9, <2>1, <2>2
  <2> QED BY <2>2, <2>3 DEF external, ReminderMove
<1>11. CASE ReminderMail(m)
  <2>1. /\ SendGmailMessage(m, "mailed", "failing")
        /\ UNCHANGED <<store, day, slot, clickUp, history>>
    BY <1>11 DEF ReminderMail
  <2>2. /\ pc' \in [Runs \union Submits -> Pcs] /\ mailed' \in [Runs -> Days \union {NoMail}]
        /\ misreported' \subseteq Runs /\ pc[m] = "sending"
        /\ \/ pc'[m] = "mailed" /\ mailed'[m] = day /\ misreported' = misreported
           \/ pc'[m] = "failing" /\ mailed'[m] = mailed[m] /\ misreported' = misreported
           \/ pc'[m] = "failing" /\ mailed'[m] = day /\ misreported' = misreported \union {m}
        /\ \A q \in (Runs \union Submits) \ {m} : pc'[q] = pc[q]
        /\ \A q \in Runs \ {m} : mailed'[q] = mailed[q]
    BY <2>1, <1>1, <1>2, MailFacts
  <2>3. TypeOK'
    BY <2>1, <2>2 DEF store, history, TypeOK, Pcs
  <2> QED BY <2>1, <2>2, <2>3 DEF store, history, ReminderMove
<1>12. CASE ReminderRecord(m) \/ ReminderCatch(m)
  <2>1. UNCHANGED <<row, updated, saved, token, day, slot, external, history>>
    BY <1>12 DEF ReminderRecord, ReminderCatch
  <2>2. \E here \in {"mailed", "repairing", "failing"}, there \in {"repairing", "done"},
           status \in {"sent", "repair", "failed"} :
          /\ Goto(m, here, there)
          /\ Fails(UpdateReminder(slot[m], status), UNCHANGED slotRow)
          /\ here = "failing" => there = "done" /\ status = "failed"
          /\ here # "failing" => status \in {"sent", "repair"}
    BY <1>12 DEF ReminderRecord, ReminderCatch, Fails
  <2>3. PICK here \in {"mailed", "repairing", "failing"}, there \in {"repairing", "done"},
             status \in {"sent", "repair", "failed"} :
          /\ Goto(m, here, there)
          /\ Fails(UpdateReminder(slot[m], status), UNCHANGED slotRow)
          /\ here = "failing" => there = "done" /\ status = "failed"
          /\ here # "failing" => status \in {"sent", "repair"}
    BY <2>2
  <2>4. TypeOK' /\ ReminderFrame(m) /\ Writes(m, {status}) /\ pc[m] = here /\ pc'[m] = there
    <3>1. /\ here \in {"pending", "mailed", "repairing", "failing"}
          /\ there \in {"sending", "repairing", "failing", "done"}
          /\ status \in ReminderStatuses
      BY <1>9
    <3> QED BY <1>8, <2>1, <2>3, <3>1
  <2>5. SameMail(m)
    BY <2>1 DEF external
  <2>6. CASE here = "failing"
    BY <2>3, <2>4, <2>5, <2>6 DEF ReminderMove
  <2>7. CASE here # "failing"
    <3>1. Writes(m, {"sent", "repair"})
      BY <2>3, <2>4, <2>7 DEF Writes
    <3> QED BY <2>3, <2>4, <2>5, <2>7, <3>1 DEF ReminderMove
  <2> QED BY <2>4, <2>6, <2>7
<1> QED
  BY <1>4, <1>5, <1>6, <1>7, <1>10, <1>11, <1>12 DEF ReminderStep
-----------------------------------------------------------------------------
(* What the other steps do: answers, crashes, people and the clock.        *)

Answers ==
  \/ UNCHANGED <<saved, answered>>
  \/ /\ saved' # {} /\ saved # {} /\ answered' = answered
  \/ saved = {} /\ saved' # {} /\ answered' = day

OtherMove ==
  /\ \A p \in Runs : pc'[p] \in {pc[p], "done"}
  /\ UNCHANGED <<row, updated, slotRow, slot, mailed, misreported, adopted>>
  /\ \/ day' = day /\ Answers
     \/ day' = day + 1 /\ UNCHANGED <<saved, answered>> /\ \A p \in Runs : pc[p] \in {"idle", "done"}

LEMMA OtherMoves ==
  ASSUME TypeOK,
         \/ \E a \in Submits : SubmitStep(a)
         \/ \E p \in Runs \union Submits : Crash(p)
         \/ HumanClose \/ NextDay \/ UNCHANGED vars
  PROVE  TypeOK' /\ OtherMove
<1> USE DEF OtherMove, Answers
<1>1. {"idle", "checked", "saved", "done"} \subseteq Pcs
  BY DEF Pcs, SubmitPcs
<1>2. ASSUME NEW a \in Submits, NEW here, NEW there \in Pcs, Goto(a, here, there)
      PROVE  /\ pc' \in [Runs \union Submits -> Pcs]
             /\ \A p \in Runs : pc'[p] = pc[p]
  BY <1>2, GotoFacts
<1>3. ASSUME NEW a \in Submits, SubmitCheck(a) PROVE TypeOK' /\ OtherMove
  <2>1. PICK t \in Runs :
          /\ Goto(a, "idle", "checked")
          /\ token' = [token EXCEPT ![a] = t]
          /\ UNCHANGED <<row, updated, slotRow, saved, day, slot, external, history>>
    BY <1>3 DEF SubmitCheck
  <2>2. token' \in [Submits -> Runs \union {NoLink}]
    BY <2>1 DEF TypeOK
  <2> QED BY <1>1, <1>2, <2>1, <2>2 DEF external, history, TypeOK, Pcs
<1>4. ASSUME NEW a \in Submits, SubmitSave(a) PROVE TypeOK' /\ OtherMove
  <2>1. UNCHANGED <<row, updated, slotRow, token, day, slot, external, adopted>>
    BY <1>4 DEF SubmitSave
  <2>2. CASE /\ Goto(a, "checked", "saved") /\ SaveResponse(a)
             /\ answered' = IF saved = {} THEN day ELSE answered
    <3>1. saved' = saved \union {a}
      BY <2>2 DEF SaveResponse
    <3> QED BY <1>1, <1>2, <2>1, <2>2, <3>1 DEF external, TypeOK, Pcs
  <2>3. CASE Goto(a, "checked", "done") /\ UNCHANGED <<saved, answered>>
    BY <1>1, <1>2, <2>1, <2>3 DEF external, TypeOK, Pcs
  <2> QED BY <1>4, <2>2, <2>3 DEF SubmitSave
<1>5. ASSUME NEW a \in Submits, SubmitWriteback(a) PROVE TypeOK' /\ OtherMove
  BY <1>1, <1>2, <1>5 DEF SubmitWriteback, Fails, store, history, TypeOK, Pcs
<1>6. ASSUME NEW p \in Runs \union Submits, Crash(p) PROVE TypeOK' /\ OtherMove
  <2>1. Goto(p, pc[p], "done") /\ UNCHANGED <<store, day, slot, external, history>>
    BY <1>6 DEF Crash, Goto
  <2>2. /\ pc' \in [Runs \union Submits -> Pcs]
        /\ \A q \in Runs : pc'[q] \in {pc[q], "done"}
    BY <1>1, <2>1, GotoFacts
  <2> QED BY <2>1, <2>2 DEF store, external, history, TypeOK, Pcs
<1>7. CASE HumanClose
  BY <1>7 DEF HumanClose, store, history, TypeOK
<1>8. CASE NextDay
  BY <1>8 DEF NextDay, store, external, history, TypeOK, Days
<1>9. CASE UNCHANGED vars
  BY <1>9 DEF vars, store, external, history, TypeOK
<1> QED BY <1>3, <1>4, <1>5, <1>6, <1>7, <1>8, <1>9 DEF SubmitStep

LEMMA NextMoves ==
  ASSUME TypeOK, ReminderOK, [Next]_vars
  PROVE  /\ TypeOK'
         /\ \/ \E s \in Senders : SenderFrame(s) /\ SenderMove(s)
            \/ \E m \in Reminders : ReminderFrame(m) /\ ReminderMove(m)
            \/ OtherMove
<1>1. ASSUME NEW s \in Senders, SenderStep(s) PROVE TypeOK' /\ SenderFrame(s) /\ SenderMove(s)
  BY <1>1, SenderMoves
<1>2. ASSUME NEW m \in Reminders, ReminderStep(m) PROVE TypeOK' /\ ReminderFrame(m) /\ ReminderMove(m)
  BY <1>2, ReminderMoves
<1> QED BY <1>1, <1>2, OtherMoves DEF Next

-----------------------------------------------------------------------------
(* Initial requests.                                                       *)

LEMMA SendersKept ==
  ASSUME SenderOK, row' = row, misreported \subseteq misreported',
         \A s \in Senders : mailed'[s] = mailed[s] /\ pc'[s] \in {pc[s], "done"}
  PROVE  SenderOK'
BY DEF SenderOK, Delivered, SenderPcs

LEMMA SenderOKStep ==
  ASSUME TypeOK, SenderOK, NEW s \in Senders, SenderFrame(s), SenderMove(s)
  PROVE  SenderOK'
<1>1. day # NoMail
  BY DEF TypeOK, Days
<1>2. \A t \in Senders \ {s} :
        /\ row'[t] = row[t] /\ mailed'[t] = mailed[t] /\ pc'[t] = pc[t]
        /\ t \in misreported' <=> t \in misreported
  BY DEF SenderFrame, SameRow, Runs
<1>3. /\ pc'[s] \in SenderPcs
      /\ pc'[s] \in {"idle", "read", "planned"} => row'[s] = "none" /\ mailed'[s] = NoMail
      /\ pc'[s] = "sending" => row'[s] = "sending" /\ mailed'[s] = NoMail
      /\ pc'[s] \in {"mailed", "marking", "marked", "repairing"} =>
           mailed'[s] # NoMail /\ row'[s] \in ActiveStatuses
      /\ pc'[s] = "failing" => row'[s] = "sending" /\ (mailed'[s] # NoMail => s \in misreported')
      /\ mailed'[s] # NoMail /\ s \notin misreported' => row'[s] \in ActiveStatuses
      /\ row'[s] \in Settled => mailed'[s] # NoMail
  BY <1>1 DEF SenderMove, SenderOK, Delivered, SenderPcs, SameRow, SameMail, ActiveStatuses, Settled
<1>4. row'[s] \in ActiveStatuses => row[s] \in ActiveStatuses \/ ActiveAttempts = {}
  BY DEF SenderMove, SenderOK, SameRow, Settled, ActiveStatuses
<1>5. \A t, u \in Senders : row'[t] \in ActiveStatuses /\ row'[u] \in ActiveStatuses => t = u
  BY <1>2, <1>4 DEF ActiveAttempts, SenderOK
<1>6. \A t \in Senders \ {s} :
        /\ pc'[t] \in SenderPcs
        /\ pc'[t] \in {"idle", "read", "planned"} => row'[t] = "none" /\ mailed'[t] = NoMail
        /\ pc'[t] = "sending" => row'[t] = "sending" /\ mailed'[t] = NoMail
        /\ pc'[t] \in {"mailed", "marking", "marked", "repairing"} =>
             mailed'[t] # NoMail /\ row'[t] \in ActiveStatuses
        /\ pc'[t] = "failing" => row'[t] = "sending" /\ (mailed'[t] # NoMail => t \in misreported')
        /\ mailed'[t] # NoMail /\ t \notin misreported' => row'[t] \in ActiveStatuses
        /\ row'[t] \in Settled => mailed'[t] # NoMail
  BY <1>2 DEF SenderOK, Delivered
<1> QED BY <1>3, <1>5, <1>6 DEF SenderOK, Delivered

-----------------------------------------------------------------------------
(* Reminders.                                                              *)

LEMMA RemindersKept ==
  ASSUME ReminderOK, SlotOK, slotRow' = slotRow, slot' = slot, adopted' = adopted,
         misreported \subseteq misreported',
         \A m \in Reminders : mailed'[m] = mailed[m] /\ pc'[m] \in {pc[m], "done"}
  PROVE  ReminderOK' /\ SlotOK'
<1>1. \A m \in Reminders : (Delivered(m))' <=> Delivered(m)
  BY DEF Delivered
<1>2. \A m \in Reminders : (InHand(m))' => InHand(m)
  BY <1>1 DEF InHand
<1>3. ReminderOK'
  BY <1>1, <1>2 DEF ReminderOK, ReminderPcs, BeforeMail, AfterPlan
<1>4. SlotOK'
  BY <1>1, <1>2 DEF SlotOK
<1> QED BY <1>3, <1>4

LEMMA ReminderOKStep ==
  ASSUME TypeOK, ReminderOK, NEW m \in Reminders, ReminderFrame(m), ReminderMove(m)
  PROVE  ReminderOK'
<1>1. day # NoMail
  BY DEF TypeOK, Days
<1>2. /\ adopted' = adopted \/ (adopted' = adopted \union {m} /\ pc'[m] = "pending")
      /\ \A n \in Reminders \ {m} :
           /\ slot'[n] = slot[n] /\ mailed'[n] = mailed[n] /\ pc'[n] = pc[n]
           /\ n \in misreported' <=> n \in misreported
  BY DEF ReminderFrame, ReminderMove, Writes, Runs
<1>3. \A n \in Reminders \ {m} :
        /\ pc'[n] \in ReminderPcs
        /\ pc'[n] \in BeforeMail => ~(Delivered(n))'
        /\ pc'[n] \in {"mailed", "repairing"} => (Delivered(n))'
        /\ pc'[n] = "failing" => ((Delivered(n))' => n \in misreported')
        /\ pc'[n] \in AfterPlan \/ (InHand(n))' => slot'[n] \in Slots
        /\ n \in adopted' => pc'[n] \notin {"idle", "read", "planned", "checked"}
  BY <1>2 DEF ReminderOK, Delivered, InHand
<1>4. /\ pc'[m] \in ReminderPcs
      /\ pc'[m] \in BeforeMail => ~(Delivered(m))'
      /\ pc'[m] \in {"mailed", "repairing"} => (Delivered(m))'
      /\ pc'[m] = "failing" => ((Delivered(m))' => m \in misreported')
  BY <1>1 DEF ReminderMove, ReminderOK, Delivered, ReminderPcs, BeforeMail, SameMail
<1>5. pc'[m] \in AfterPlan \/ (InHand(m))' => slot'[m] \in Slots
  BY <1>1 DEF ReminderMove, Writes, ReminderOK, Delivered, InHand, AfterPlan, SameMail
<1>6. m \in adopted' => pc'[m] \notin {"idle", "read", "planned", "checked"}
  BY <1>2 DEF ReminderMove, ReminderOK
<1> QED BY <1>3, <1>4, <1>5, <1>6 DEF ReminderOK
LEMMA SlotOKStep ==
  ASSUME TypeOK, ReminderOK, SlotOK, NEW m \in Reminders, ReminderFrame(m), ReminderMove(m)
  PROVE  SlotOK'
<1>1. day # NoMail
  BY DEF TypeOK, Days
<1>2. /\ adopted \subseteq adopted' /\ misreported \subseteq misreported'
      /\ \A n \in Reminders \ {m} :
           /\ slot'[n] = slot[n] /\ ((Delivered(n))' <=> Delivered(n))
           /\ (InHand(n))' <=> InHand(n)
      /\ Delivered(m) => (Delivered(m))'
  BY <1>1 DEF ReminderFrame, ReminderMove, Writes, Runs, Delivered, InHand, SameMail
\* The run keeps its slot and its hand on it, or takes it now.
<1>3. /\ InHand(m) \/ m \in adopted => slot'[m] = slot[m]
      /\ (InHand(m))' => InHand(m) \/ (pc[m] = "checked" /\ pc'[m] = "pending" /\ slot' = slot)
  BY <1>1 DEF ReminderMove, Writes, ReminderOK, Delivered, InHand, SameMail, BeforeMail
\* The rows of other slots stay, and what is written to its own.
<1>4. /\ \A k \in Slots : slotRow'[k] # slotRow[k] => k = slot[m] /\ slot'[m] = slot[m]
      /\ slotRow'[slot[m]] # slotRow[slot[m]] =>
           \/ slotRow'[slot[m]] \in {"pending", "sending"}
           \/ slotRow'[slot[m]] \in {"sent", "repair"} /\ pc[m] \in {"mailed", "repairing"}
           \/ slotRow'[slot[m]] = "failed" /\ pc[m] = "failing" /\ pc'[m] = "done" /\ SameMail(m)
  <2>1. \A k \in Slots : slotRow'[k] # slotRow[k] => k = slot'[m]
    BY DEF ReminderFrame
  <2>2. slotRow' = slotRow \/ slot'[m] = slot[m]
    BY DEF ReminderMove, Writes
  <2>3. slotRow'[slot[m]] # slotRow[slot[m]] =>
          \/ slotRow'[slot[m]] \in {"pending", "sending"}
          \/ slotRow'[slot[m]] \in {"sent", "repair"} /\ pc[m] \in {"mailed", "repairing"}
          \/ slotRow'[slot[m]] = "failed" /\ pc[m] = "failing" /\ pc'[m] = "done" /\ SameMail(m)
    BY DEF ReminderMove, Writes
  <2> QED BY <2>1, <2>2, <2>3
\* A run that takes the row finds it missing, or pending and adopts it.
<1>5. pc[m] = "checked" /\ pc'[m] = "pending" =>
        /\ slotRow'[slot[m]] = "pending" /\ slot[m] \in Slots /\ slot'[m] = slot[m]
        /\ slotRow[slot[m]] = "none" \/ m \in adopted'
  BY DEF ReminderMove, ReminderOK, AfterPlan, Writes
<1>6. \A n \in Reminders : InHand(n) => slot[n] \in Slots /\ slot'[n] = slot[n]
  BY <1>2, <1>3 DEF ReminderOK
<1>7. ASSUME NEW n \in Reminders, (InHand(n))' PROVE slotRow'[slot'[n]] # "none"
  <2>1. CASE InHand(n)
    BY <1>4, <1>6, <2>1 DEF SlotOK
  <2>2. CASE ~ InHand(n)
    BY <1>2, <1>3, <1>5, <1>7, <2>2
  <2> QED BY <2>1, <2>2
<1>8. ASSUME NEW n \in Reminders, NEW o \in Reminders, n # o, (InHand(n))', (InHand(o))',
             slot'[n] = slot'[o]
      PROVE  {n, o} \intersect adopted' # {}
  <2>1. CASE InHand(n) /\ InHand(o)
    BY <1>2, <1>6, <1>8, <2>1 DEF SlotOK
  <2>2. ASSUME NEW q \in {n, o} \ {m}, InHand(q), ~ InHand(m), (InHand(m))',
               slot'[q] = slot'[m]
        PROVE  m \in adopted'
    BY <1>3, <1>5, <1>6, <2>2 DEF SlotOK
  <2> QED BY <1>2, <1>8, <2>1, <2>2
<1>9. ASSUME NEW n \in Reminders, (InHand(n))', slotRow'[slot'[n]] = "failed"
      PROVE  n \in misreported' \/ \E a \in adopted' : slot'[a] = slot'[n]
  <2>1. InHand(n)
    BY <1>2, <1>3, <1>5, <1>9
  <2>2. slot[n] \in Slots /\ slot'[n] = slot[n]
    BY <1>6, <2>1
  <2>3. \A a \in adopted : slot'[a] = slot[a]
    BY <1>2, <1>3 DEF TypeOK
  <2>4. CASE slotRow[slot[n]] = "failed"
    BY <1>2, <2>1, <2>2, <2>3, <2>4 DEF SlotOK
  <2>5. CASE slotRow[slot[n]] # "failed"
    <3>1. slot[n] = slot[m] /\ pc[m] = "failing" /\ pc'[m] = "done" /\ SameMail(m)
      BY <1>4, <1>9, <2>2, <2>5
    <3>2. CASE n = m
      BY <1>2, <1>9, <3>1, <3>2 DEF InHand, Delivered, SameMail, ReminderOK
    <3>3. CASE n # m
      <4>1. {n, m} \intersect adopted # {}
        BY <2>1, <3>1, <3>3 DEF InHand, SlotOK
      <4> QED BY <1>2, <2>2, <2>3, <3>1, <4>1
    <3> QED BY <3>2, <3>3
  <2> QED BY <2>4, <2>5
<1>10. ASSUME NEW k \in Slots, slotRow'[k] \in {"sent", "repair"}
       PROVE  \E n \in Reminders : slot'[n] = k /\ (Delivered(n))'
  <2>1. CASE slotRow'[k] = slotRow[k]
    <3>1. PICK n \in Reminders : slot[n] = k /\ Delivered(n)
      BY <1>10, <2>1 DEF SlotOK
    <3> QED BY <1>2, <1>6, <3>1 DEF InHand
  <2>2. CASE slotRow'[k] # slotRow[k]
    <3>1. k = slot[m] /\ slot'[m] = slot[m] /\ pc[m] \in {"mailed", "repairing"}
      BY <1>4, <1>10, <2>2
    <3> QED BY <1>2, <3>1 DEF ReminderOK
  <2> QED BY <2>1, <2>2
<1> QED BY <1>7, <1>8, <1>9, <1>10 DEF SlotOK

-----------------------------------------------------------------------------
(* Days.                                                                   *)

\* What a step does to the mails, the answers and the clock.
TimeMove ==
  \/ /\ day' = day /\ UNCHANGED <<saved, answered>>
     /\ \A p \in Runs : mailed'[p] = mailed[p] \/ (mailed'[p] = day /\ pc[p] = "sending")
     /\ \A p \in Runs \ Operators : pc'[p] \in AfterPlan => pc[p] \in AfterPlan \/ saved = {}
  \/ OtherMove

LEMMA TimeMoves ==
  ASSUME TypeOK,
         \/ \E s \in Senders : SenderFrame(s) /\ SenderMove(s)
         \/ \E m \in Reminders : ReminderFrame(m) /\ ReminderMove(m)
         \/ OtherMove
  PROVE  TimeMove
<1>1. ASSUME NEW s \in Senders, SenderFrame(s), SenderMove(s) PROVE TimeMove
  <2>1. /\ day' = day /\ UNCHANGED <<saved, answered>>
        /\ \A p \in Runs \ {s} : mailed'[p] = mailed[p] /\ pc'[p] = pc[p]
    BY <1>1 DEF SenderFrame
  <2>2. mailed'[s] = mailed[s] \/ (mailed'[s] = day /\ pc[s] = "sending")
    BY <1>1 DEF SenderMove, SameMail
  <2>3. s \notin Operators /\ pc'[s] \in AfterPlan => pc[s] \in AfterPlan \/ saved = {}
    BY <1>1 DEF SenderMove, AfterPlan
  <2> QED BY <2>1, <2>2, <2>3 DEF TimeMove
<1>2. ASSUME NEW m \in Reminders, ReminderFrame(m), ReminderMove(m) PROVE TimeMove
  <2>1. /\ day' = day /\ UNCHANGED <<saved, answered>>
        /\ \A p \in Runs \ {m} : mailed'[p] = mailed[p] /\ pc'[p] = pc[p]
    BY <1>2 DEF ReminderFrame
  <2>2. mailed'[m] = mailed[m] \/ (mailed'[m] = day /\ pc[m] = "sending")
    BY <1>2 DEF ReminderMove, SameMail
  <2>3. pc'[m] \in AfterPlan => pc[m] \in AfterPlan \/ saved = {}
    BY <1>2 DEF ReminderMove, AfterPlan
  <2> QED BY <2>1, <2>2, <2>3 DEF TimeMove
<1> QED BY <1>1, <1>2 DEF TimeMove

LEMMA TimeOKStep ==
  ASSUME TypeOK, TimeOK, TimeMove
  PROVE  TimeOK'
<1> USE DEF Delivered
<1>1. day \in Nat /\ day # NoMail /\ (answered # NoMail => answered \in Nat)
  BY DEF TypeOK, Days
<1>2. \A p \in Runs : mailed[p] # NoMail => mailed[p] \in Nat
  BY DEF TypeOK, Days
<1>3. CASE /\ day' = day /\ UNCHANGED <<saved, answered>>
           /\ \A p \in Runs : mailed'[p] = mailed[p] \/ (mailed'[p] = day /\ pc[p] = "sending")
           /\ \A p \in Runs \ Operators : pc'[p] \in AfterPlan => pc[p] \in AfterPlan \/ saved = {}
  <2>1. \A p \in Runs : mailed'[p] # NoMail => mailed'[p] <= day
    BY <1>1, <1>2, <1>3 DEF TimeOK
  <2>2. \A p \in Runs \ Operators : pc'[p] \in AfterPlan /\ answered # NoMail => answered = day
    BY <1>3 DEF TimeOK
  <2>3. \A p \in Runs \ Operators : answered # NoMail /\ mailed'[p] # NoMail => mailed'[p] <= answered
    BY <1>1, <1>3 DEF TimeOK, AnswerEndsMail, AfterPlan
  <2> QED BY <1>3, <2>1, <2>2, <2>3 DEF TimeOK, AnswerEndsMail
<1>4. CASE OtherMove /\ day' = day /\ Answers
  <2>1. /\ mailed' = mailed
        /\ \A p \in Runs \ Operators : pc'[p] \in AfterPlan => pc[p] \in AfterPlan
    BY <1>4 DEF OtherMove, AfterPlan
  <2>2. \/ answered' = answered
        \/ answered = NoMail /\ answered' = day
    BY <1>4 DEF Answers, TimeOK
  <2>3. saved' = {} <=> answered' = NoMail
    BY <1>1, <1>4 DEF Answers, TimeOK
  <2> QED BY <1>1, <1>2, <1>4, <2>1, <2>2, <2>3 DEF TimeOK, AnswerEndsMail
<1>5. CASE /\ OtherMove /\ day' = day + 1 /\ UNCHANGED <<saved, answered>>
           /\ \A p \in Runs : pc[p] \in {"idle", "done"}
  <2>1. /\ mailed' = mailed /\ \A p \in Runs : pc'[p] \notin AfterPlan
    BY <1>5 DEF OtherMove, AfterPlan
  <2> QED BY <1>1, <1>2, <1>5, <2>1 DEF TimeOK, AnswerEndsMail
<1> QED BY <1>3, <1>4, <1>5 DEF TimeMove, OtherMove
-----------------------------------------------------------------------------
(* The cadence of reminders.                                               *)

LEMMA SenderCadence ==
  ASSUME TypeOK, SenderOK, TimeOK, CadenceOK, NEW s \in Senders, SenderFrame(s), SenderMove(s)
  PROVE  CadenceOK'
<1> DEFINE Undelivered == \A t \in Senders : mailed'[t] = mailed[t]
<1>1. /\ day' = day /\ slot' = slot
      /\ \A t \in Senders \ {s} : SameRow(t) /\ mailed'[t] = mailed[t]
      /\ \A m \in Reminders : mailed'[m] = mailed[m] /\ pc'[m] = pc[m]
  BY DEF SenderFrame, Runs
\* Once a request is settled it stays so, and no other is delivered.
<1>2. \A u \in Senders : row[u] \in Settled => row'[u] \in Settled /\ Undelivered
  <2>1. row[s] \in Settled => row'[s] \in Settled
    BY DEF SenderMove, SenderOK, SameRow, Settled
  <2>2. pc[s] = "sending" => \A u \in Senders : row[u] \notin Settled
    BY DEF SenderOK, Settled, ActiveStatuses
  <2>3. pc[s] # "sending" => mailed'[s] = mailed[s]
    BY DEF SenderMove, SameMail
  <2> QED BY <1>1, <2>1, <2>2, <2>3 DEF SameRow
<1>3. ASSUME NEW u \in Senders, NEW t \in Senders, row'[u] \in Settled, (Delivered(t))'
      PROVE  mailed'[t] <= updated'[u]
  <2>1. CASE SameRow(u)
    BY <1>2, <1>3, <2>1 DEF SameRow, CadenceOK, Delivered
  <2>2. CASE ~ SameRow(u)
    <3>1. u = s /\ updated'[s] = day /\ Undelivered
      BY <1>1, <1>3, <2>2 DEF SenderMove, SameMail, Settled
    <3> QED BY <1>3, <3>1 DEF TimeOK, Delivered, Runs
  <2> QED BY <2>1, <2>2
<1>4. ASSUME NEW m \in Reminders, NEW d, Ready(m, d)
      PROVE  /\ \E u \in Senders : row'[u] \in Settled
             /\ \A t \in Senders : mailed'[t] # NoMail => mailed'[t] + Offsets[slot[m]] <= d
  BY <1>2, <1>4 DEF Ready, Delivered
<1>5. \A m \in Reminders : (pc[m] \in AfterPlan => Ready(m, day)) /\ (Delivered(m) => Ready(m, mailed[m]))
  BY DEF CadenceOK
<1> HIDE DEF Undelivered
<1>6. ASSUME NEW m \in Reminders, pc'[m] \in AfterPlan PROVE (Ready(m, day))'
  BY <1>1, <1>4, <1>5, <1>6 DEF Ready, Delivered
<1>7. ASSUME NEW m \in Reminders, (Delivered(m))' PROVE (Ready(m, mailed[m]))'
  BY <1>1, <1>4, <1>5, <1>7 DEF Ready, Delivered
<1> QED BY <1>3, <1>6, <1>7 DEF CadenceOK

LEMMA ReminderCadence ==
  ASSUME TypeOK, ReminderOK, CadenceOK, NEW m \in Reminders, ReminderFrame(m), ReminderMove(m)
  PROVE  CadenceOK'
<1>1. /\ row' = row /\ updated' = updated /\ day' = day
      /\ \A s \in Senders : mailed'[s] = mailed[s]
      /\ \A n \in Reminders \ {m} : slot'[n] = slot[n] /\ mailed'[n] = mailed[n] /\ pc'[n] = pc[n]
  BY DEF ReminderFrame, Runs
<1>2. ASSUME NEW n \in Reminders, NEW d, slot'[n] = slot[n], Ready(n, d)
      PROVE  /\ \E s \in Senders : row'[s] \in Settled
             /\ \A s \in Senders : mailed'[s] # NoMail => mailed'[s] + Offsets[slot'[n]] <= d
  BY <1>1, <1>2 DEF Ready, Delivered
<1>3. CASE pc[m] = "read" /\ pc'[m] = "planned"
  <2>1. PICK s \in Senders :
          row[s] = "clickup_requested" /\ updated[s] + Offsets[slot'[m]] <= day
    BY <1>3 DEF ReminderMove
  <2>2. slot'[m] \in Slots
    BY <1>3 DEF ReminderMove
  <2>3. Offsets[slot'[m]] \in Nat /\ updated[s] \in Nat /\ day \in Nat
    BY <2>2 DEF Slots, TypeOK, Days
  <2>4. \A t \in Senders : mailed[t] # NoMail => mailed[t] \in Nat /\ mailed[t] <= updated[s]
    BY <2>1 DEF CadenceOK, Settled, Delivered, TypeOK, Days, Runs
  <2>5. \A t \in Senders : mailed[t] # NoMail => mailed[t] + Offsets[slot'[m]] <= day
    BY <2>1, <2>3, <2>4
  <2>6. (Ready(m, day))'
    BY <1>1, <2>1, <2>5 DEF Ready, Delivered, Settled
  <2>7. mailed'[m] = NoMail
    BY <1>3 DEF ReminderMove, SameMail, ReminderOK, Delivered, BeforeMail
  <2>8. \A n \in Reminders \ {m} :
          (pc'[n] \in AfterPlan => (Ready(n, day))') /\ ((Delivered(n))' => (Ready(n, mailed[n]))')
    BY <1>1, <1>2 DEF CadenceOK, Ready, Delivered
  <2>9. \A s2, t \in Senders : row'[s2] \in Settled /\ (Delivered(t))' => mailed'[t] <= updated'[s2]
    BY <1>1 DEF CadenceOK, Delivered
  <2> QED BY <2>6, <2>7, <2>8, <2>9 DEF CadenceOK, Delivered
<1>4. CASE ~ (pc[m] = "read" /\ pc'[m] = "planned")
  <2>1. slot'[m] = slot[m] /\ (pc'[m] \in AfterPlan => pc[m] \in AfterPlan)
    BY <1>4 DEF ReminderMove, Writes, AfterPlan
  <2>2. mailed'[m] = mailed[m] \/ (mailed'[m] = day /\ pc[m] \in AfterPlan)
    BY DEF ReminderMove, SameMail, AfterPlan
  <2>3. ASSUME NEW n \in Reminders, pc'[n] \in AfterPlan PROVE (Ready(n, day))'
    BY <1>1, <1>2, <2>1, <2>3 DEF CadenceOK, Ready, Delivered
  <2>4. ASSUME NEW n \in Reminders, (Delivered(n))' PROVE (Ready(n, mailed[n]))'
    BY <1>1, <1>2, <2>1, <2>2, <2>4 DEF CadenceOK, Ready, Delivered
  <2>5. \A s, t \in Senders : row'[s] \in Settled /\ (Delivered(t))' => mailed'[t] <= updated'[s]
    BY <1>1 DEF CadenceOK, Delivered
  <2> QED BY <2>3, <2>4, <2>5 DEF CadenceOK
<1> QED BY <1>3, <1>4

LEMMA OtherCadence ==
  ASSUME CadenceOK, OtherMove
  PROVE  CadenceOK'
<1>1. UNCHANGED <<row, updated, slot, mailed>>
  BY DEF OtherMove
<1>2. \A m \in Reminders : pc'[m] \in AfterPlan => pc[m] \in AfterPlan /\ day' = day
  BY DEF OtherMove, AfterPlan, Runs
<1> QED BY <1>1, <1>2 DEF CadenceOK, Ready, Delivered

-----------------------------------------------------------------------------
(* Theorems.                                                               *)

LEMMA FeedbackStep == FeedbackInv /\ [Next]_vars => FeedbackInv'
<1> SUFFICES ASSUME FeedbackInv, [Next]_vars
             PROVE  FeedbackInv'
  OBVIOUS
<1> USE DEF FeedbackInv
<1>1. /\ TypeOK'
      /\ \/ \E s \in Senders : SenderFrame(s) /\ SenderMove(s)
         \/ \E m \in Reminders : ReminderFrame(m) /\ ReminderMove(m)
         \/ OtherMove
  BY NextMoves
<1>2. TimeOK'
  BY <1>1, TimeMoves, TimeOKStep
<1>3. ASSUME NEW s \in Senders, SenderFrame(s), SenderMove(s) PROVE FeedbackInv'
  <2>1. /\ slotRow' = slotRow /\ slot' = slot /\ adopted' = adopted /\ misreported \subseteq misreported'
        /\ \A m \in Reminders : mailed'[m] = mailed[m] /\ pc'[m] \in {pc[m], "done"}
    BY <1>3 DEF SenderFrame, Runs
  <2>2. ReminderOK' /\ SlotOK'
    BY <2>1, RemindersKept
  <2> QED BY <1>1, <1>2, <1>3, <2>2, SenderOKStep, SenderCadence
<1>4. ASSUME NEW m \in Reminders, ReminderFrame(m), ReminderMove(m) PROVE FeedbackInv'
  <2>1. /\ row' = row /\ misreported \subseteq misreported'
        /\ \A s \in Senders : mailed'[s] = mailed[s] /\ pc'[s] \in {pc[s], "done"}
    BY <1>4 DEF ReminderFrame, Runs
  <2>2. SenderOK'
    BY <2>1, SendersKept
  <2> QED BY <1>1, <1>2, <1>4, <2>2, ReminderOKStep, SlotOKStep, ReminderCadence
<1>5. CASE OtherMove
  <2>1. /\ UNCHANGED <<row, slotRow, slot, mailed, misreported, adopted>>
        /\ \A p \in Runs : pc'[p] \in {pc[p], "done"}
    BY <1>5 DEF OtherMove
  <2>2. SenderOK'
    BY <2>1, SendersKept DEF Runs
  <2>3. ReminderOK' /\ SlotOK'
    BY <2>1, RemindersKept DEF Runs
  <2> QED BY <1>1, <1>2, <1>5, <2>2, <2>3, OtherCadence
<1> QED BY <1>1, <1>3, <1>4, <1>5

\* The inductive invariant of the feedback ledgers holds in every reachable
\* state, whatever fails and whoever dies.
THEOREM FeedbackInvariant == Spec => []FeedbackInv
BY InitFeedbackInv, FeedbackStep, PTL DEF Spec

\* Every variable of the feedback ledgers, of the runs and of the services has
\* its type.
THEOREM FeedbackTypeCorrect == Spec => []TypeOK
<1>1. FeedbackInv => TypeOK
  BY DEF FeedbackInv
<1> QED BY <1>1, FeedbackInvariant, PTL

\* Two runs deliver the initial request only if Gmail reported one delivered
\* mail as failed.
THEOREM OneRequest == Spec => []OneInitialMail
<1>1. FeedbackInv => OneInitialMail
  BY DEF FeedbackInv, SenderOK, OneInitialMail
<1> QED BY <1>1, FeedbackInvariant, PTL

\* The statuses that the catch blocks leave behind tell what became of the mail.
THEOREM HonestLedger == Spec => []LedgerIsHonest
<1>1. FeedbackInv => LedgerIsHonest
  <2>1. FeedbackInv => \A s \in Senders :
          /\ row[s] \in {"sent", "clickup_requested"} => Delivered(s)
          /\ row[s] = "failed" /\ Delivered(s) => s \in misreported
    BY DEF FeedbackInv, SenderOK, Settled, ActiveStatuses
  <2> QED BY <2>1 DEF FeedbackInv, SlotOK, InHand, LedgerIsHonest
<1> QED BY <1>1, FeedbackInvariant, PTL

\* A reminder comes after a delivered request, and not before its slot's day
\* counted from any delivery.
THEOREM CadenceKept == Spec => []RemindersKeepCadence
<1>1. ASSUME FeedbackInv, NEW m \in Reminders, Delivered(m)
      PROVE  /\ \E s \in Senders : Delivered(s)
             /\ \A s \in Senders : Delivered(s) => mailed[m] >= mailed[s] + Offsets[slot[m]]
  <2>1. Ready(m, mailed[m])
    BY <1>1 DEF FeedbackInv, CadenceOK
  <2>2. slot[m] \in Slots /\ Offsets[slot[m]] \in Nat
    BY <1>1 DEF FeedbackInv, ReminderOK, InHand, Slots
  <2>3. \A p \in Runs : Delivered(p) => mailed[p] \in Nat
    BY <1>1 DEF FeedbackInv, TypeOK, Delivered, Days
  <2>4. \E s \in Senders : Delivered(s)
    BY <1>1, <2>1 DEF Ready, FeedbackInv, SenderOK
  <2> QED BY <1>1, <2>1, <2>2, <2>3, <2>4 DEF Ready, Runs
<1>2. FeedbackInv => RemindersKeepCadence
  BY <1>1 DEF RemindersKeepCadence
<1> QED BY <1>2, FeedbackInvariant, PTL

\* No job delivers anything on a day after the answer's.
THEOREM AnswerIsTheEnd == Spec => []AnswerEndsMail
<1>1. FeedbackInv => AnswerEndsMail
  BY DEF FeedbackInv, TimeOK
<1> QED BY <1>1, FeedbackInvariant, PTL

\* Of two reminders for one slot, one was sent by a run that took the other's
\* pending row over.
THEOREM SecondIsAdopted == Spec => []SecondReminderIsAdopted
<1>1. FeedbackInv => SecondReminderIsAdopted
  BY DEF FeedbackInv, SlotOK, InHand, SecondReminderIsAdopted
<1> QED BY <1>1, FeedbackInvariant, PTL
=============================================================================
