CONSTANTS
  Workers = {w1, w2}
  Gui = gui
  MaxId = 3
  Stored = {2}
  UiMax = 1
  SlowProbes = FALSE
  MaxTasks = 1
  MaxChanges = 2
SPECIFICATION FairSpec
INVARIANT ChangesKept
PROPERTY UiConverges
CHECK_DEADLOCK FALSE
