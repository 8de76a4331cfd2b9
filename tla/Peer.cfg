SPECIFICATION FairSpec
CONSTANTS
    Senders = {a, b}
    QueueCap = 1
    MaxSends = 2
\* A peer that is closed, or has nothing to write, stops.
CHECK_DEADLOCK FALSE
INVARIANTS
    SendOrder
    SentIsWritten
    ControlFirst
PROPERTIES
    SendReturns
    CloseCompletes
