SPECIFICATION SessionsSpec
CONSTANTS
  Branches = {b1, b2, b3}
  Executing = {}
  Graphs = {g1}
  None = None
  Torn = Torn
  MaxActive = 1
  MaxTracked = 2
  MaxRetained = 2
  Sessions = {s1, s2}
  Metadata = Metadata
  MaxSeq = 9
  MaxOverlapping = 3
SYMMETRY Symmetry
INVARIANTS SessionsTypeOK SnapshotsIntact CommitsDurable CreationsDurable
CHECK_DEADLOCK FALSE
