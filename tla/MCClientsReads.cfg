CONSTANTS
  MaxPoints = 2
  MaxBatch = 2
  PacketPoints = 1
  PagePoints = 2
  Commands = {"python"}
  MaxBatches = 0
  WritePoints = 1
  Readers = {r1, r2}
SPECIFICATION ClientsSpec
INVARIANT OneActiveRead
CHECK_DEADLOCK FALSE
