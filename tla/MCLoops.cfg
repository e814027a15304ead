CONSTANTS
  MaxTime = 4
  Value = {v, w}
  MaxCount = 4
  MaxPerPacket = 3
  Chunk = 2
  StringSize = {4, 8}
  Buffers = {6, 10}
  Rounded <- MCRounded
  Cut <- MCCut
  Length <- MCLength
SPECIFICATION Spec
INVARIANTS ListsTypeOK FindIsCorrect MergedSoFar MergeIsCorrect KeptSoFar PreparedIsCorrect SentSoFar AnswerIsTheWindow CsvLosesNothing
PROPERTY LoopsEnd
CHECK_DEADLOCK FALSE
