SPECIFICATION Spec
CONSTANTS
  c1 = c1
  Clients = {c1}
  Resolver = resolver
  Requests = {"create", "pause", "redownload", "delete"}
  CreateModes = {"start"}
  Watchdog = TRUE
  Attempts = 1
  OtherSlots = 0
  MaxCalls = 2
  MaxGen = 5
CHECK_DEADLOCK FALSE
INVARIANTS
  TypeOK
  UncancelledWorkerOwnsTask
  FailedHasReason
PROPERTIES
  RefinesLifecycle
