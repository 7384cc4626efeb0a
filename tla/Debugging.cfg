SPECIFICATION Spec
CONSTANTS
    MaxJobs = 3
    MaxDepth = 6
    MaxTasks = 1
    MaxLoads = 1
    MaxEvals = 2
    CanNest = FALSE
    CanExit = TRUE
    CanDebug = TRUE
INVARIANTS
    OneDrainAtATime
    DispatcherReady
    HoldsAccounted

    
