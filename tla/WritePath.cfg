SPECIFICATION PathSpec
CONSTANTS
  Null = Null
  Raised = Raised
  Labels = {"A", "B"}
  Types = {"R"}
  MaxClauses = 5
  MaxStatements = 2
  MaxRows = 4
  Menu <- MCMenu
  Committed <- MCCommitted
  Threshold = 2
  Mod = 64
  Counts = {1, 2}
  MaxNoted = 6
  Passes = {t1, t2}
  Failures = TRUE
CHECK_DEADLOCK FALSE
INVARIANTS OverlayExact OneCompaction
PROPERTIES ClausesRight InstallsInOrder ClaimReleased
