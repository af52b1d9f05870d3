SPECIFICATION FairSpec
CONSTANTS
  c1 = c1
  Clients = {c1}
  Resolver = resolver
  Requests = {"create", "pause", "resume"}
  CreateModes = {"start", "resolve"}
  Watchdog = FALSE
  Attempts = 2
  OtherSlots = 1
  MaxCalls = 3
  MaxGen = 7
CHECK_DEADLOCK FALSE
PROPERTIES
  WorkersEnd
  RequestsReturn
