SPECIFICATION Spec
CONSTANTS
  Total = 6
  MinSegment = 1
  MaxConnections = 3
  Connections = {2, 3}
  Adaptive = TRUE
  Block = 2
  MaxId = 3
  MaxDecisions = 1
  MaxRuns = 2
CHECK_DEADLOCK FALSE
INVARIANTS
  ResumedOutputIsWhole
