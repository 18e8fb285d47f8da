SPECIFICATION Spec
CONSTANTS
  a = a
  b = b
  None = None
  Users = {a, b}
  Existing = {a, b}
  OpenRules = FALSE
  Offline = FALSE
  MaxRequests = 2
  MaxAdds = 1
  MaxRemotes = 0
  MaxRevocations = 0
  MaxKills = 0
INVARIANTS AddsAreOwn
