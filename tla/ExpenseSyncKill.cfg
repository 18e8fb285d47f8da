SPECIFICATION FairSpec

CONSTANTS
  d1 = d1
  d2 = d2
  e1 = e1
  e2 = e2
  Devices = {d1}
  Expenses = {e1, e2}
  Ammount <- MCAmmount
  Refused <- AddAndDeletionRefused
  MaxDeletes = 1
  MaxBreaks = 0
  MaxOutages = 1
  MaxKills = 1
  MaxListeners = 2

INVARIANTS
  AcceptedIsAccountedFor
  WrittenStaysShown
PROPERTIES
  ImplementsBook
  Converges
CHECK_DEADLOCK FALSE
