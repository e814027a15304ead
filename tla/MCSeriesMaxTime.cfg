CONSTANTS
  MaxTime = 6
  Value = {v}
  Unset = v
  WriteTimes <- MCAllTimes
  MaxBatch = 2
  MaxRead = 1
  GrowIncrement = 2
SPECIFICATION Spec
INVARIANT StoredAscending
CHECK_DEADLOCK FALSE
