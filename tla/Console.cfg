CONSTANTS
    m1 = m1
    cheap = cheap
    dear = dear
    here = here
    there = there
    None = None
    Names <- MCNames
    PriceValues = {dear}
    Urls = {there}
    FirstConfig <- MCUnpriced
    MaxChanges = 2
    MaxTasks = 2
    MaxFaults = 1
SPECIFICATION Spec
INVARIANTS
    BusyWhileActing
PROPERTIES
    OwnActionShown
    PollsKeepDrafts
    Recovers
