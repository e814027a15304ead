CONSTANTS
  MaxPoints = 4
  MaxBatch = 2
  PacketPoints = 1
  PagePoints = 2
  Commands = {"latest"}
  MaxBatches = 3
SPECIFICATION CtlSpec
PROPERTY LatestEnds
CHECK_DEADLOCK FALSE
