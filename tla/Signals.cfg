SPECIFICATION Spec
CONSTANTS
    Names = {bar, bonk}
    MaxConnections = 4
    MaxDepth = 2
INVARIANTS
    IndexesAgree
PROPERTIES
    KeepsItsPromise
CHECK_DEADLOCK FALSE
SYMMETRY Symmetry
