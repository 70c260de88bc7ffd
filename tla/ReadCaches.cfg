SPECIFICATION CachesSpec
CONSTANTS
  Threads = {t1, t2}
  Nodes = {n1}
  MaxWrites = 2
  MaxCalls = 3
  Capacity = 2
  Workloads <- Apart
  None = None
  Callers = {c1, c2}
  Disks <- MCDisks
  Menus <- MCMenus
  Labelled = {2, 3}
  MaxId = 3
  MaxIssued = 3
  MaxChanges = 1
  MaxStops = 1
  MaxVersion = 5
  MaxDatabases = 2
  MaxWriteGen = 3
  Missing = Missing
CHECK_DEADLOCK FALSE
SYMMETRY Symmetry
INVARIANTS LabelScanCurrent PrunedPlansSound IndexAgrees SearchRight FileTrustworthy SnapshotCurrent
