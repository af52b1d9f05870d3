SPECIFICATION FairSpec
CONSTANTS
  Keys = {"a", "b"}
  Invalid = {"b"}
  JobIds = {1, 2}
  Flights = {1, 2}
  MAX_ATTEMPTS = 2
  MAX_OUTBOX_JOBS = 1
  MAX_PENDING_CAPTURE_REVIEWS = 2
  MaxCaptures = 2
  MaxKills = 1
  MaxLate = 1
  MaxStops = 1
  MaxConsumes = 1
CHECK_DEADLOCK FALSE
INVARIANTS SentWasAccepted RetriesAreDeduplicated
PROPERTIES SentIsFinal EveryJobSettles
