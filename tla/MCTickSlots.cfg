SPECIFICATION FairSpec
CONSTANTS
  NoSlot = NoSlot
  Calls = {c1, c2}
  Slots <- MCSlots
  DueAt <- MCDueAt
  Config <- LateReport
  StaleAfter = 2
  JobLimit = 2
  MaxDeaths = 1
  MaxTime = 4
INVARIANTS
  TypeOK
  NoConcurrentRuns
  RowDescribesItsRun
  ReportFollowsSync
PROPERTIES
  SuccessIsFinal
  SlotsRunOnce
  AbandonedIsRetaken
