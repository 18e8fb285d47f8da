SPECIFICATION FairSpec
CONSTANTS
  ann = ann
  bob = bob
  None = None
  Users = {ann, bob}
  Refusable = {2}
  MaxPending = 2
  MaxWrites = 2
  MaxChanges = 1
  MaxFailures = 1
INVARIANTS TypeOK OwnName CallCarriesPipeline AssertionsHold TokenUnderWay
PROPERTIES LostOnlySignedOut ImplementsOutbox Delivered
CHECK_DEADLOCK FALSE
