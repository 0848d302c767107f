CONSTANTS
  Clients = {c1, c2}
  MaxListener = 3
SPECIFICATION FairSpec
INVARIANTS TypeOK NoStrayListener CleanupReleasesAll
PROPERTIES IdleEvicted StopEndsMain
CHECK_DEADLOCK FALSE
