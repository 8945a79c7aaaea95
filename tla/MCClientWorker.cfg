SPECIFICATION FairSpec
CONSTANTS
    BackoffCap = 4
    FetchAfterResume = TRUE
    MaxClips = 1
    MaxCalls = 3
INVARIANTS TypeOK HonestState SessionScope
PROPERTIES ImplementsOutbox IdleSuspends ResumeReconnects StopTerminatesWhenReachable ClipLeavesQueue
CHECK_DEADLOCK FALSE
