SPECIFICATION Spec

CONSTANTS
  MaxInt = 3
  Numerals = {1}
  Wordy = FALSE
  MaxExpenses = 1
  MaxRemotes = 0
  MaxKills = 0

PROPERTIES
  AddsOnlyBoth
