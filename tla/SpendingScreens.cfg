SPECIFICATION FairSpec

CONSTANTS
  MaxInt = 3
  Numerals = {1, 3, 4}
  Wordy = TRUE
  MaxExpenses = 3
  MaxRemotes = 1
  MaxKills = 1

INVARIANTS
  TypeOK
  DeletesWhatWasSwiped
  TableShowsList
  TotalIsExact

PROPERTIES
  TooMuchEndsEveryLaunch
