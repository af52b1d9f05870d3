SPECIFICATION FairSpec
CONSTANTS
  NoFile = NoFile
  Empty = Empty
  Torn = Torn
  i1 = i1
  i2 = i2
  i3 = i3
  i4 = i4
  i5 = i5
  Loops = {loop}
  Workers = {w1}
  Flushers = {w1}
  Inodes = {i1, i2, i3, i4, i5}
  PowerLoss = TRUE
  SyncFails = TRUE
  RenameFails = TRUE
  MaxVersion = 2
  MaxFaults = 1
  MaxCrashes = 2
CONSTRAINT NotOverlapped
CHECK_DEADLOCK FALSE
INVARIANTS TypeOK AckedSurvives CleanMeansSaved
PROPERTIES EverySaved
