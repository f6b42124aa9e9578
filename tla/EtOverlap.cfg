CONSTANTS
    Ticks = {1, 2}
    Ids = {1, 2}
    BufIds = {1, 2}
    Messages <- TwoEach
    Unmarked = {}
    Overlap = TRUE
    Entries = {e1, e2}
    Capacity = 2
    BufSizes = {4, 5}
    MaxStored = 2
    MaxFaults = 0
    CallsMayFail = FALSE
SPECIFICATION Spec
CHECK_DEADLOCK FALSE
INVARIANTS
    AllSourcesEnded
