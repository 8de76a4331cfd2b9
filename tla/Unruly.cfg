CONSTANTS
    b1 = b1
    b2 = b2
    i1 = i1
    i2 = i2
    Attempts = {i1, i2}
    BackendIds = {b1, b2}
    Capacity <- CapacityOne
    Conforming = FALSE
    SeenLimit = 2
    MaxSeq = 2
    MaxSessions = 1
SPECIFICATION Spec
INVARIANTS
    TerminalFreesSlot
    SlotsCounted
    WireOrdered
SYMMETRY AttemptSymmetry
CHECK_DEADLOCK FALSE
