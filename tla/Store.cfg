SPECIFICATION StoreSpec
CONSTANTS
  Labels = {l1}
  Types = {y1}
  MaxNode = 2
  MaxEdge = 2
  MaxMutations = 3
  MaxGen = 3
  FlushAt = 2
  TableNames = {ta, tb}
  DupTables = {tb}
  Keys = {k}
  Values = {v1, v2}
  Readers = {r1}
  Writers = {w1, w2}
  Places = {1, 2, 3}
SYMMETRY MemSymmetry
CHECK_DEADLOCK FALSE
INVARIANTS TablesConsistent ReadsOwnWrites
PROPERTIES ImplementsGraph ChangeDescribesCommit IdsNeverReused ImplementsSnapshots
