SPECIFICATION Spec
CONSTANTS
  s1 = s1
  s2 = s2
  m1 = m1
  m2 = m2
  a1 = a1
  a2 = a2
  NoMail = NoMail
  NoSlot = NoSlot
  NoLink = NoLink
  Senders = {s1}
  Operators = {}
  Reminders = {m1, m2}
  Submits = {}
  Offsets <- TwoSlots
  MaxReminders = 2
  MaxAge = 2
  LastDay = 1
INVARIANT
  NoDuplicateReminders
