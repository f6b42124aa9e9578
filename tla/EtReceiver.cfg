CONSTANTS
    Ticks = {1, 2}
    Ids = {1, 2, 9}
    BufIds = {1, 2}
    Messages <- WithAStranger
    Unmarked <- TheStranger
    Overlap = FALSE
    Entries = {e1, e2}
    Capacity = 3
    BufSizes = {3, 4}
    MaxStored = 1
    MaxFaults = 1
    CallsMayFail = TRUE
    RingItems = 1
    MayClose = TRUE
    MaxFifoErrors = 1
SPECIFICATION ERFairSpec
CHECK_DEADLOCK FALSE
INVARIANTS
    ERTypeOK
    StoredAhead
    BuffersInSequence
    QueuedIsWhole
    PublishedWholeAndOnce
PROPERTIES
    LeavesQueuedAlone
    
