SPECIFICATION ColumnsSpec
CONSTANTS
  Ids = {i1}
  Callers = {c1}
  Uses = {"group"}
  MaxWrites = 2
  MaxCrashes = 0
  Absent = Absent
PROPERTY HitsRecorded
