CONSTANTS
  NumDevices = 3
  Serviced = {2}
  MaxDevices = 2
  MinInterval = 2
  DefaultInterval = 3
  MaxInterval = 4
  TickFloor = 1
  HistorySize = 2
  Outputs = {a, b}
  MaxSpawned = 1
SPECIFICATION PollingFairSpec
 
PROPERTIES Rests ChosenPolled
CHECK_DEADLOCK FALSE
