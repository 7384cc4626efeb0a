SPECIFICATION LiveSpec
CONSTANTS
    MaxJobs = 2
    MaxDepth = 6
    MaxTasks = 1
    MaxLoads = 1
    MaxEvals = 1
    CanNest = TRUE
    CanExit = TRUE
    CanDebug = FALSE
INVARIANTS
    NothingLeft
PROPERTIES
    NoJobAfterExit
    RunsMicrotasks
    JobsGetRun
    ExitEnds
