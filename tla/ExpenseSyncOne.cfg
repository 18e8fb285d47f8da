SPECIFICATION Spec
CONSTANTS
  d1 = d1
  d2 = d2
  e1 = e1
  e2 = e2
  Devices = {d1}
  Expenses = {e1, e2}
  Ammount <- MCAmmount
  Refused <- NothingRefused
  MaxDeletes = 1
  MaxBreaks = 1
  MaxOutages = 2
  MaxKills = 0
  MaxListeners = 3
INVARIANTS
  TypeOK
  LabelIsTotal
  ScreenWillShowView
  AcksMatchQueue
PROPERTIES
  CacheNeverGoesBack
CHECK_DEADLOCK FALSE
