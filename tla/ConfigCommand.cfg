CONSTANTS
  Devices = {d1}
  Workers = {w1, w2}
  Lines = {a}
  MaxCommands = 2
  MaxLinks = 2
SPECIFICATION Spec
INVARIANTS ChangesAudited RestoredWhenAlone
PROPERTY UndoKept
CHECK_DEADLOCK FALSE
SYMMETRY Symmetry
