CONSTANTS
    RingSize = 4
    Stream <- ThenABadOne
    MayBreak = TRUE
    MayClose = TRUE
SPECIFICATION FairSpec
CHECK_DEADLOCK FALSE
INVARIANTS
    TypeOK
    NotOverwritten
    GivenInOrder
PROPERTIES
    PublishedIsGiven
    IsAQueue
