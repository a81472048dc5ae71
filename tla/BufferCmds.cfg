SPECIFICATION Spec
CONSTANTS
    Buf = {b1}
    MaxCmds = 3
    Uses <- MCUses
CHECK_DEADLOCK FALSE
INVARIANTS NeverDangling ReleasedOnce Settled SyncedIsSynced
