SPECIFICATION SilentSpec
CONSTANTS
  t1 = t1
  t2 = t2
  Targets = {t1}
  MaxListens = 2
  MaxFailures = 0
  MaxUpsets = 0
PROPERTIES NeverWaitsIndefinitely
CHECK_DEADLOCK FALSE
