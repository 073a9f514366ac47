SPECIFICATION Spec
CONSTANTS
  Threads = {t1}
  Symbols = {s1, s2}
  Shapes = {x, y}
  None = None
  Unread = Unread
  MaxVersion = 4
SYMMETRY Symmetry
INVARIANTS RemovedNotServed
CHECK_DEADLOCK FALSE
