SPECIFICATION Spec
CONSTANTS
  Readers = {r1}
  r1 = r1
  Workloads <- Growing
  Weights = {1, 2}
  DefaultWeight = 1
  MaxNode = 2
  MaxEdge = 2
  None = None
INVARIANTS NoLostWrite WeightsCurrent ReadsItsPast ExactWhenFresh
