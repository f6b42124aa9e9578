CONSTANTS
    t1 = t1
    t2 = t2
    Ticks = {t1, t2}
    NumPackets <- ThreeAndTwo
    Payload = 2
    LastLen <- FullThenShort
    FirstFlag <- AllFirst
    BufLens = {8}
    MaxStored = 4
    HeaderBytes = 1
    Two32 = 64
    MaxSkew = 1
    MaxDups = 0
    MaxLosses = 0
    RecvMayFail = FALSE
    MallocMayFail = FALSE
SPECIFICATION Spec
CHECK_DEADLOCK FALSE
INVARIANTS
    WholeMessage
