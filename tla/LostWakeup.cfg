SPECIFICATION LiveSpec
CONSTANTS
    Insts = {i1}
    Threads = {main, t1}
    Main = main
    GObjects = {g1}
    NoThread = NoThread
    NoObj = NoObj
    NoInst = NoInst
    SerialNotify = TRUE
    CanDispose = FALSE
    ThreadsDispose = FALSE
PROPERTIES
    QueuedIsHandled
