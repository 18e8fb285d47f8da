SPECIFICATION FairSpec
CONSTANTS
  t1 = t1
  t2 = t2
  Targets = {t1, t2}
  MaxListens = 2
  MaxFailures = 2
  MaxUpsets = 1
INVARIANTS TypeOK TrackerInStep RunsWhenNeeded ServesWhatIsListened CountsRequests DataIsOfThisListen
PROPERTIES Served
CHECK_DEADLOCK FALSE
