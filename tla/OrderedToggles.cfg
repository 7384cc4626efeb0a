SPECIFICATION Spec
CONSTANTS
    Insts = {i1, i2}
    Threads = {main, t1}
    Main = main
    GObjects = {g1, g2}
    NoThread = NoThread
    NoObj = NoObj
    NoInst = NoInst
    SerialNotify = TRUE
    CanDispose = FALSE
    ThreadsDispose = FALSE
SYMMETRY Symmetry
INVARIANTS
    RootingAgrees
    DeadStaysUnrooted
    OneWrapperPerObject
    NoPendingDownFault
