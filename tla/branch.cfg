SPECIFICATION Spec
CONSTANTS
  Branches = {b1, b2, b3}
  Executing = {b1}
  Graphs = {g1, g2}
  None = None
  Torn = Torn
  MaxActive = 1
  MaxTracked = 2
  MaxRetained = 2
  MaxSeq = 12
SYMMETRY Symmetry
INVARIANTS TypeOK NoDanglingSnapshot PersistenceKeepsSnapshots
PROPERTIES RollbackRestoresOrigin FinishedStaysFinished
