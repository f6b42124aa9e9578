CONSTANTS
    t1 = t1
    Ticks = {t1}
    NumPackets <- FourPackets
    Payload = 3
    LastLen <- ShortLast
    FirstFlag <- AllFirst
    BufLens = {8, 13, 16}
    Readers = {"recvmsg", "recvfrom", "fast"}
    InitialLens = {7, 8}
    NoCopies = {FALSE, TRUE}
    MaxStored = 3
    HeaderBytes = 1
    Two32 = 64
    MaxSkew = 4
    MaxDups = 1
    MaxLosses = 1
    RecvMayFail = TRUE
    MallocMayFail = TRUE
SPECIFICATION BMFairSpec
CHECK_DEADLOCK FALSE
INVARIANTS
    BMTypeOK
    RoomIsAccountedFor
    FilledIsWhole
    DataIntact
    FilledWithTheMessage
    AmpleRoomSuffices
PROPERTIES
    EventuallyBack
