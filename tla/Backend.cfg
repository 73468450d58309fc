CONSTANTS
  Producers = {p1, p2}
  Subscribers = {s1, s2}
  Priorities = {0, 10}
  Capacity = 2
  PollMax = 2
  MaxEvents = 3
  MaxChanges = 1

  ManagedDevices = {d1}
  Publishers = {p1, p2}
  Timers = {k1}
  NoTimer = none
  MaxObjects = 2
  MaxCalls = 2
  MaxCoreStarts = 1
  MaxStops = 1
  MaxCrashes = 1

  Sources <- SourcesDef
  Datagrams <- DatagramsDef
  Digits <- DigitsDef
  MaxThreads = 2

  Count = 2
  EnvDevices = {2}
  Kinds = {"vault", "sops"}
  Json <- JsonDef
  MaxStarts = 2
  MaxTexts = 3
SPECIFICATION Spec
INVARIANTS
   PushComplete
  
  OneReader 
   PasswordsKept
CHECK_DEADLOCK FALSE
SYMMETRY Symmetry
