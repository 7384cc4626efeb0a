SPECIFICATION LiveSpec
CONSTANTS
    Insts = {i1}
    Threads = {main, t1}
    Main = main
    GObjects = {g1}
    NoThread = NoThread
    NoObj = NoObj
    NoInst = NoInst
    SerialNotify = FALSE
    CanDispose = TRUE
    ThreadsDispose = TRUE
INVARIANTS
    QueuedAreAlive
    DisposedGetsUnrooted
    NoPendingUpFault
    AllReleasedAtEnd
PROPERTIES
    NotificationsDelivered
    ContextDisposeEnds
