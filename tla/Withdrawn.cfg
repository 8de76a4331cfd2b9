CONSTANTS
    h1 = h1
    h2 = h2
    Handlers = {h1}
    MaxRuns = 2
    MaxRequests = 2
SPECIFICATION Spec
INVARIANT Allowlisted
CHECK_DEADLOCK FALSE
