CONSTANTS
    b1 = b1
    b2 = b2
    i1 = i1
    i2 = i2
    Attempts = {i1, i2}
    BackendIds = {b1}
    Capacity <- CapacityOne
    Conforming = TRUE
    SeenLimit = 2
    MaxSeq = 0
    MaxSessions = 2
SPECIFICATION FairSpec
INVARIANTS
    NeverBusy
    CleanStart
PROPERTIES
    EveryAttemptEnds
    SilentGatewayLeft
    InterruptStops
CHECK_DEADLOCK FALSE
