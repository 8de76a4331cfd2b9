CONSTANTS
    Quarter = 3
    Hour = 12
    Midnights <- MCMidnights
    MonthFirst <- MCMonthFirst
    NoModel <- NoModelId
    Tabs <- MCTabs
    Backends = {"ollama", "proxy"}
    Names = {"m"}
    Templates <- MCTemplates
    Instants <- MCInstants
    PriceLists <- MCPriceLists
    Listings <- MCListings
    Cells <- MCCells
    Storages <- MCStorages
    MaxEvents = 3
    MaxSteps = 3
SPECIFICATION MCSpec
INVARIANTS
    NearestRank
    BucketsPartition
    FiguresAgree
    ChartDrawable
    PreferencesKept
CHECK_DEADLOCK FALSE
