CONSTANTS
  Devices = {d1, d2}
  Workers = {w1, w2}
  UiMax = 2
  BusMax = 2
  PollBatch = 2
  EventBatch = 2
  MaxEvents = 3
  MaxPlain = 2
  MaxRebuilds = 1
SPECIFICATION FairSpec
INVARIANTS  CriticalNeverLost
PROPERTY Settles
CHECK_DEADLOCK FALSE
