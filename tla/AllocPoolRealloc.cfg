SPECIFICATION StructuresSpec
CONSTANTS
    Address = {a1, a2, a3, a4}
    MaxUsers = 3
    Wish <- Wishes
    N = 5
    Time = {1, 2}
    MaxTime = 3
    Packet = {"p", "q"}
    MaxCount = 6
    Outs <- FourUnits
    MaxIns = 0
    Kind = {"audio", "audioNoAlias", "control", "demand"}
    RefMod = 5
    MaxBufs = 4
    UintMod = 16
    MaxStack = 3
    MaxWireBufs = 3
    Request = {3, 16, 17, 22}
    Pools <- ThePools
    Places = {50, 100}
    MaxSize = 49
    MaxBlocks = 3
    Key = {1, 2}
    Item <- Items
    HashValue <- Hashes
    FirstMax = {1, 2}
    LeastSize = 4
INVARIANT ReallocKeeps
CHECK_DEADLOCK FALSE
