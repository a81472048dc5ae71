SPECIFICATION Spec
CONSTANTS
    Thread = {t1, t2}
    Time = {2}
    Command = {"plain", "clearSched"}
    MaxSent = 3
    OscSize = 2
    FromSize = 1
    SchedSize = 2
    Blocks = 2
    Inc = 1
    Jitter = 1
    Horizon = 2
CHECK_DEADLOCK FALSE
INVARIANTS OneOwner SendOrder
PROPERTIES OnTime Performed
