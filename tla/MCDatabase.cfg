CONSTANTS
  MaxTime = 3
  Value = {v, w}
  SeriesId = {0, 1, 2}
  MaxSeries = 2
  PointSize = {12, 16}
  Descriptors = {0, 2}
  MaxBatch = 1
  MaxRead = 1
SPECIFICATION Spec
INVARIANTS TypeOK OneFilePerSeries
PROPERTY ImplementsDatabase
