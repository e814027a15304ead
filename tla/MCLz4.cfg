CONSTANTS
  Nibble = 2
  MINMATCH = 3
  COPYLENGTH = 4
  LASTLITERALS = 3
  SKIPSTRENGTH = 1
  HashSize = 5
  BoundSlack = 2
  ShortLen = 11
  EdgeLen = 4
  LongLens = {21, 22, 28}
  Sources <- MCSources
  Spare <- MCSpare
SPECIFICATION Spec
INVARIANTS TypeOK OffsetsFit RoundTrip SmallBufferIsRefused WithinBound
