CONSTANTS
  MaxTime = 6
  Value = {v}
  Unset = v
  WriteTimes <- MCWriteTimes
  MaxBatch = 2
  MaxRead = 1
  GrowIncrement = 2
  InOrder = FALSE
  MaxCrashes = 1
SPECIFICATION CrashSpec
INVARIANT AllAckedSurvive
