CONSTANTS
  Clients = {c1, c2}
  Purger = purger
  Disposer = disposer
  Devices = {d1, d2}
  NoDevice = none
  MaxSessions = 3
SPECIFICATION FairSpec
INVARIANTS Accounted
PROPERTIES PoppedCloses ImplementsOwners
CHECK_DEADLOCK FALSE
