SPECIFICATION ViewSpec
CONSTANTS
  g1 = g1
  g2 = g2
  g3 = g3
  Nobody = Nobody
  Games = {g1, g2, g3}
  LastWeek = 2
  Buffer = 0
  Feeds <- MCFeeds
  MayPostpone = FALSE
  MaxTime = 2
  Users = {u1}
  Requests = {r1, r2}
  Payloads <- MCPayloads
  NightTimes = {2}
INVARIANTS
  PickWeekIsOpen
  ConfidencesAreUnique
  InsertsNeverConflict
  EntryRulesAgree
PROPERTIES
  LockedCardsAreFrozen
  UnseenVoidsSurvive
  NoChangeOfMind
SYMMETRY RequestSymmetry
