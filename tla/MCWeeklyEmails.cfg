SPECIFICATION FairMailSpec
CONSTANTS
  mail = mail
  lock = lock
  NoSlot = NoSlot
  Calls = {c1, c2}
  Slots <- MCSlots
  MailSlots <- MCMailSlots
  DueAt <- MCDueAt
  Kind = "reminder"
  Recipients = {m1, m2}
  Muted = {}
  StaleAfter = 1
  JobLimit = 1
  MaxDeaths = 1
  MaxFailures = 1
  MaxTime = 2
INVARIANTS
  MailTypeOK
  CommitNeverConflicts
  ExtraEmailsArePaidFor
PROPERTIES
  RecordedMeansNoMore
  EveryoneIsMailed
