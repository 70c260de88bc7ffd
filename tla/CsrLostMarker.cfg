SPECIFICATION Spec
CONSTANTS
  Readers = {r1}
  r1 = r1
  Workloads <- Removal
  Weights = {1, 2}
  DefaultWeight = 1
  MaxNode = 1
  MaxEdge = 2
  None = None
INVARIANT RemovalsReachSnapshot
