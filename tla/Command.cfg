CONSTANTS
  Devices = {d1}
  NoDevice = none
  Workers = {w1, w2}
  NoWorker = nobody
  Retries = 2
  MaxHandles = 2
  MaxRequests = 4

  Writers = {w1, w2, w3}
  NoWriter = NoWriter
  TornWrites = FALSE
  MaxEntries = 4
  MaxCrashes = 2
SPECIFICATION MCSpec
INVARIANTS
  OnlyReplacedLeak
   AckedDurable
PROPERTIES GuiReturns ImplementsLine 
CHECK_DEADLOCK FALSE
