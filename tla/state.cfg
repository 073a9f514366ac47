SPECIFICATION Spec
CONSTANTS
  Threads = {t1, t2}
  Symbols = {s1, s2}
  Shapes = {x, y}
  None = None
  Unread = Unread
  MaxVersion = 3
SYMMETRY Symmetry
INVARIANTS VersionNamesOneGraph HotMirrorsGraph
PROPERTIES StoreRefinement
CHECK_DEADLOCK FALSE
