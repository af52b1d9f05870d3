SPECIFICATION FairSpec
CONSTANTS
    Threads = {t1, t2}
    OtherSlots = 1
    MaxRuns = 3
    MaxRequests = 2
INVARIANTS ActiveHasRun SlotFollowsRun
PROPERTIES LifecycleRespected StaleRunsAreInert PausingEnds SlotComesBack SeedingEnds
CHECK_DEADLOCK FALSE
