SPECIFICATION Spec
CONSTANTS
  Threads = {t1, t2, t3}
  Objects = {o1, o2, o3, o4}
  NoThread = NoThread
  Serialized = TRUE
  MaxDepth = 2
  FlushThreshold = 2
  ReclaimThreshold = 2
SYMMETRY Symmetry
INVARIANTS TagsCoverReaders NoUseAfterFree ApproxExact
CHECK_DEADLOCK FALSE
