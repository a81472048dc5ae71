SPECIFICATION Spec
CONSTANTS
    Capacity = 1
    MayStop = TRUE
CHECK_DEADLOCK FALSE
PROPERTY StopEnds
