SPECIFICATION Spec
CONSTANTS
    Lines = {1, 2}
    MaxFrames = 3
    MaxStops = 2
INVARIANTS
    TopIsNewest
    StepsKeepControl
PROPERTIES
    PromptsAreClean
CHECK_DEADLOCK FALSE
