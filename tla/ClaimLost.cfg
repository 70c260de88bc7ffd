SPECIFICATION ClaimSpec
CONSTANTS
  Threshold = 2
  Mod = 64
  Counts = {1, 2}
  MaxNoted = 6
  Passes = {t1, t2}
  Failures = FALSE
CHECK_DEADLOCK FALSE
INVARIANT WritesStayCounted
