CONSTANTS
    h1 = h1
    h2 = h2
    Handlers = {h1, h2}
    MaxRuns = 3
    MaxRequests = 3
SPECIFICATION Spec
INVARIANTS
    Controlled
    OneRunPerAgent
    OffersInForce
    FileWhole
    Saved
SYMMETRY HandlerSymmetry
CHECK_DEADLOCK FALSE
