CONSTANTS
  Devices = {d1, d2}
  Workers = {w1, w2}
  Lines = {a}
  MaxCommands = 1
  MaxLinks = 2
SPECIFICATION Spec
INVARIANT RollsBackOwnDevice
CHECK_DEADLOCK FALSE
