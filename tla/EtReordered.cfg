CONSTANTS
    Ticks = {1}
    Ids = {1}
    BufIds = {1}
    Messages <- FourEach
    Unmarked = {}
    Overlap = FALSE
    Entries = {e1}
    Capacity = 2
    BufSizes = {4, 5}
    MaxStored = 2
    MaxFaults = 0
    CallsMayFail = FALSE
SPECIFICATION Spec
CHECK_DEADLOCK FALSE
INVARIANTS
    CopiesWhatCame
