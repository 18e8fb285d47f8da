SPECIFICATION Spec
CONSTANTS
  a = a
  b = b
  None = None
  Users = {a, b}
  Existing = {a}
  OpenRules = FALSE
  Offline = FALSE
  MaxRequests = 1
  MaxAdds = 0
  MaxRemotes = 0
  MaxRevocations = 1
  MaxKills = 0
INVARIANTS NeverTraps
