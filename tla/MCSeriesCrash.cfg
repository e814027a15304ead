CONSTANTS
  MaxTime = 7
  Value = {v}
  Unset = v
  WriteTimes <- MCWriteTimes
  MaxBatch = 2
  MaxRead = 1
  GrowIncrement = 2
  InOrder = TRUE
  MaxCrashes = 2
SPECIFICATION CrashSpec
INVARIANTS CrashTypeOK AckedSurvive
