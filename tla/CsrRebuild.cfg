SPECIFICATION FairSpec
CONSTANTS
  Readers = {r1}
  r1 = r1
  Workloads <- Changing
  Weights = {1, 2}
  DefaultWeight = 1
  MaxNode = 2
  MaxEdge = 1
  None = None
INVARIANT FullBuildExact
PROPERTY ReaderServed
