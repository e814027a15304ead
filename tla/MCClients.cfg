CONSTANTS
  MaxPoints = 4
  MaxBatch = 2
  PacketPoints = 1
  PagePoints = 2
  Commands = {"write", "read", "truncate", "latest", "calls", "python", "dotnet"}
  MaxBatches = 3
  WritePoints = 1
  Readers = {r}
SPECIFICATION ClientsSpec
INVARIANTS ClientsTypeOK InStep WriteResultIsTrue ReadIsComplete SuccessIsTrue LibraryWriteIsTrue IterationIsComplete
PROPERTIES CommandsEnd LibraryCallsEnd
CHECK_DEADLOCK FALSE
