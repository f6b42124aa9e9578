CONSTANTS
    t1 = t1
    Ticks = {t1}
    NumPackets <- SixPackets
    Payload = 3
    LastLen <- ShortLast
    FirstFlag <- AllFirst
    BufLens = {12}
    InitialLens = {7}
    NoCopies = {FALSE}
    MaxStored = 3
    HeaderBytes = 1
    Two32 = 64
    MaxSkew = 0
    MaxDups = 0
    MaxLosses = 0
    RecvMayFail = FALSE
    MallocMayFail = FALSE
SPECIFICATION GBSpec
CHECK_DEADLOCK FALSE
INVARIANTS
    GrowsAsNeeded
