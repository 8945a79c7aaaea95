SPECIFICATION FairSpec
CONSTANTS
    BackoffCap = 4
    FetchAfterResume = FALSE
    MaxClips = 0
    MaxCalls = 2
PROPERTIES ResumeReconnects
CHECK_DEADLOCK FALSE
