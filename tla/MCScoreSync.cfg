SPECIFICATION FairSpec
CONSTANTS
  s1 = s1
  s2 = s2
  Members <- MCMembers
  LastWeek = 2
  WeekOf <- TwoWeeks
  Card <- TwoWeekCards
  Scorers = {s1}
  UnpaidSets <- MayVoid
  Endings = {"home", "cancelled"}
  MaxFails = 1
INVARIANTS
  TypeOK
  CompleteWeeksAreSettled
  SeasonMissesAtMostOneWeek
  VoidedPicksEarnNothing
  CompleteMeansOver
PROPERTIES
  WeeksComplete
