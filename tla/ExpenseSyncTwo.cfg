SPECIFICATION Spec
CONSTANTS
  d1 = d1
  d2 = d2
  e1 = e1
  e2 = e2
  Devices = {d1, d2}
  Expenses = {e1}
  Ammount <- MCAmmount
  Refused <- NothingRefused
  MaxDeletes = 1
  MaxBreaks = 1
  MaxOutages = 0
  MaxKills = 0
  MaxListeners = 2
SYMMETRY DeviceSymmetry
INVARIANTS
  CacheCoherent
  ErasedStaysHidden
PROPERTIES
  BookTransitions
CHECK_DEADLOCK FALSE
