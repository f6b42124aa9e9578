CONSTANTS
    t1 = t1
    t2 = t2
    Ticks = {t1}
    NumPackets <- FivePackets
    Payload = 2
    LastLen <- ShortLast
    FirstFlag <- AllFirst
    BufLens = {3, 4, 5, 9, 10}
    MaxStored = 3
    HeaderBytes = 1
    Two32 = 64
    MaxSkew = 4
    MaxDups = 2
    MaxLosses = 1
    RecvMayFail = TRUE
    MallocMayFail = TRUE
SPECIFICATION FairSpec
CHECK_DEADLOCK FALSE
INVARIANTS
    TypeOK
    InSequence
    StoredAhead
    NothingDropped
    WholeMessage
    FailuresHaveCauses
PROPERTIES
    DeliversInOrder
    EventuallyReturns
