CONSTANTS
  Devices = {d1, d2}
  Types = {"SWITCH", "LOAD-BALANCER"}
  Secretless = {d2}
  NoDevice = none
  Edits = 1
  Dials = 1
  Picks = 1

  Pages <- PagesDef
  NoPage = none
  MaxThemes = 2

  Apps = {a1, a2}
  MainApp = a1
  Installers = {setup}
  MaxDialogs = 2
  MaxAttempts = 2
  LockoutSecs = 2
  MaxNow = 3
  MaxJobs = 2
  MaxLines = 3
  FlushEvery = 2
  MaxTurns = 1
SPECIFICATION Spec
INVARIANT NoneDangles
CHECK_DEADLOCK FALSE
