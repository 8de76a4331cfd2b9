CONSTANTS
    m1 = m1
    cheap = cheap
    dear = dear
    here = here
    there = there
    None = None
    Names <- MCNames
    PriceValues = {dear}
    Urls = {there}
    FirstConfig <- MCFirstConfig
    MaxChanges = 1
    MaxTasks = 2
    MaxFaults = 1
SPECIFICATION Spec
INVARIANT AdoptsUnedited
