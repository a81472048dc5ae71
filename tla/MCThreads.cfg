SPECIFICATION ThreadsSpec
CONSTANTS
    N = 4
    Msg = {m1, m2, m3}
    Moved = Moved
    Capacity = 1
    MayStop = TRUE
    Helpers = 2
    MaxBehind = 2
    Queues <- TreeQueues
    Node = {1, 2, 3, 4, 7, 8}
    Root = 0
    None = 99
INVARIANTS SlotExclusive InOrder IdleIsClean
PROPERTIES Implements Drains QuietDrains TickEnds ThreadsEnd
CHECK_DEADLOCK FALSE
