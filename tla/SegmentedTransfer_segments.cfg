SPECIFICATION Spec
CONSTANTS
  Total = 10
  MinSegment = 1
  MaxConnections = 3
  Connections = {2}
  Adaptive = TRUE
  Block = 4
  MaxId = 4
  MaxDecisions = 2
  MaxRuns = 2
CHECK_DEADLOCK FALSE
INVARIANTS
  GeometryCovers
  OwnPartsMergeWhole
  AdoptionHasCause
