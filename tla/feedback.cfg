SPECIFICATION Spec
CONSTANTS
  s1 = s1
  s2 = s2
  m1 = m1
  m2 = m2
  a1 = a1
  a2 = a2
  NoMail = NoMail
  NoSlot = NoSlot
  NoLink = NoLink
  Senders = {s1, s2}
  Operators = {s2}
  Reminders = {m1, m2}
  Submits = {a1, a2}
  Offsets <- TwoSlots
  MaxReminders = 2
  MaxAge = 2
  LastDay = 2
SYMMETRY FeedbackSymmetry
INVARIANTS
  OneInitialMail
  LedgerIsHonest
  RemindersKeepCadence
  AnswerEndsMail
  SecondReminderIsAdopted
