SPECIFICATION PageSpec
CONSTANTS
  picks = picks
  other = other
  card = card
  button = button
  away = away
  f1 = f1
  f2 = f2
  f3 = f3
  g1 = g1
  g2 = g2
  Tabs = {picks, other}
  Callers = {f1, f2, f3, card, button, away}
  TabOf <- MCTabOf
  Games = {g1, g2}
  Slots = {f1, f2, f3}
  Loader = card
  Submitter = button
  FirstCards <- MCFirstCards
  OpenTabs = {picks}
  MaxEvents = 0
  MaxSignOuts = 1
  Choices <- MCChoices
  MaxEdits = 2
INVARIANTS
  SubmitWaitsForTheLatestDraft
