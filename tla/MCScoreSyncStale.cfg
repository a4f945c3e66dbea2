SPECIFICATION Spec
CONSTANTS
  s1 = s1
  s2 = s2
  Members <- MCMembers
  LastWeek = 1
  WeekOf <- OneWeek
  Card <- OneWeekCards
  Scorers = {s1, s2}
  UnpaidSets <- NobodyUnpaid
  Endings = {"home", "away"}
  MaxFails = 0
INVARIANTS
  CompleteWeeksAreSettled
CHECK_DEADLOCK FALSE
