SPECIFICATION Spec
CONSTANTS
    Window = 2
    MaxSeq = 3
    MapChange = 3
    Requests = {"pause", "resume", "finish", "redownload", "delete"}
    MaxRequests = 2
    MaxCrashes = 1
INVARIANTS SlotFollowsStatus CompletedIsPlayable RecordingIsKept 
PROPERTIES StaleRunsAreInert
CONSTRAINT OneOldRun
CHECK_DEADLOCK FALSE
