SPECIFICATION Spec
CONSTANTS
  Files = {1, 2}
  Pieces = {1, 2}
  Layout <- MCLayout
  Selections <- MCSelections
  UserFiles <- MCUserFiles
  MaxSessions = 3
  MaxRuns = 2
  Threads = {t1}
  MaxRequests = 1
  MaxCrashes = 1
CHECK_DEADLOCK FALSE
INVARIANTS
  VerifiedIsOnDisk
  PausedIsQuiet
PROPERTIES
  CompletedIsWhole
  UserFilesUntouched
