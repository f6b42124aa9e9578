CONSTANTS
    t1 = t1
    t2 = t2
    Ticks = {t1}
    NumPackets <- FivePackets
    Payload = 2
    LastLen <- ShortLast
    FirstFlag <- AllFirst
    BufLens = {4}
    MaxStored = 4
    HeaderBytes = 1
    Two32 = 64
    MaxSkew = 4
    MaxDups = 0
    MaxLosses = 0
    RecvMayFail = FALSE
    MallocMayFail = FALSE
SPECIFICATION Spec
CHECK_DEADLOCK FALSE
INVARIANTS
    StopsBeforeFull
