SPECIFICATION FairSpec
CONSTANTS
  a = a
  b = b
  None = None
  Users = {a, b}
  Existing = {a}
  OpenRules = FALSE
  Offline = FALSE
  MaxRequests = 2
  MaxAdds = 0
  MaxRemotes = 0
  MaxRevocations = 1
  MaxKills = 1
PROPERTIES  SignInLeadsHome
