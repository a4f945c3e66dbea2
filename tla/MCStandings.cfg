SPECIFICATION Spec
CONSTANTS
  Members <- MCMembers
  LastWeek = 1
  WeekOf <- MCWeekOf
  Card <- MCCard
  Week = 1
  Formal = {1}
  Debtors = {1}
  SundayNight = {"s"}
  MondayNight = {"m", "n"}
  Kickoff <- MCKickoff
  Endings <- MCEndings
INVARIANTS
  TypeOK
  ScenariosComeTrue
PROPERTIES
  FlagsAreRight
  MostIsReachable
  EliminationIsFinal
