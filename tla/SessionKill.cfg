SPECIFICATION Spec
CONSTANTS
  a = a
  b = b
  None = None
  Users = {a, b}
  Existing = {a}
  OpenRules = FALSE
  Offline = FALSE
  MaxRequests = 2
  MaxAdds = 1
  MaxRemotes = 1
  MaxRevocations = 1
  MaxKills = 1
INVARIANTS TypeOK OwnSessionsOnly SignedOutLeavesHome BalanceWillBeOwn
PROPERTIES NameFollowsAuth NamesAreOwn
