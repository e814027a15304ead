CONSTANTS
  MaxTime = 5
  Value = {v, w}
  Unset = v
  WriteTimes <- MCWriteTimes
  MaxBatch = 3
  MaxRead = 2
  GrowIncrement = 2
SPECIFICATION Spec
INVARIANTS TypeOK StoredAscending CountIsRecoverable
PROPERTY ImplementsStore
