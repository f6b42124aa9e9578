CONSTANTS
    t1 = t1
    t2 = t2
    Messages <- SomeMessages
    SeriesStarts <- AllButLast
    Mtus = {0, 40, 60}
    InterfaceMtus = {63}
    PathLimits = {2, 5, 7}
    MaxPathChanges = 2
    MaxSendErrors = 1
    Two31 = 16
    TickOf <- SomeTicks
    Routable <- LastTwo
    BufLens = {5, 20}
    MaxStored = 2
    Two32 = 64
    MaxSkew = 2
    MaxDups = 1
    MaxLosses = 1
SPECIFICATION EESpec
INVARIANTS
    TypeOK
    NumberedInOrder
    BitsMarkTheEnds
    SentAsCut
    RetrySuffices
    DeliversWhatWasSent
PROPERTIES
    EventuallySent
    ArrivesEventually
CHECK_DEADLOCK FALSE
