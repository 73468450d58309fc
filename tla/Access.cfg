SPECIFICATION FairSpec
CONSTANTS
  Timeout = 2
  Period = 2
  MaxDialogs = 2
  MaxMoves = 3
  UiMax = 1
INVARIANTS
  NoPileUp
  IdleBounded
  TopologyFresh
  
PROPERTIES
  ScansGoOn
CHECK_DEADLOCK FALSE
