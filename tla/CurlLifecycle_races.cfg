SPECIFICATION Spec
CONSTANTS
  c1 = c1
  c2 = c2
  Clients = {c1, c2}
  Resolver = resolver
  Requests = {"create", "pause", "resume", "delete"}
  CreateModes = {"start", "resolve"}
  Watchdog = FALSE
  Attempts = 1
  OtherSlots = 1
  MaxCalls = 4
  MaxGen = 9
SYMMETRY ClientSymmetry
CHECK_DEADLOCK FALSE
INVARIANTS
  OwnershipInv
PROPERTIES
  PausedUntilRequested
