SPECIFICATION Spec
CONSTANTS
  c1 = c1
  Clients = {c1}
  Resolver = resolver
  Requests = {"create", "pause", "resume", "redownload", "delete", "list"}
  CreateModes = {"start", "hold"}
  Watchdog = FALSE
  Attempts = 2
  OtherSlots = 1
  MaxCalls = 2
  MaxGen = 5
CHECK_DEADLOCK FALSE
INVARIANTS
  SlotsMatchStatus
