SPECIFICATION FairSpec
CONSTANTS
    Delays = {1, 5}
    Limit = 4
    MaxTimers = 2
    MaxTime = 2
    MaxJobs = 2
    MaxDepth = 3
INVARIANTS
    OnceEach
PROPERTIES
    ClearedStaysQuiet
    MicrotasksFirst
    DueGetsCalled
CHECK_DEADLOCK FALSE
