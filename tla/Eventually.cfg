CONSTANTS
    h1 = h1
    h2 = h2
    s1 = s1
    s2 = s2
    r1 = r1
    r2 = r2
    None = None
    HostIds = {h1, h2}
    Sessions = {s1, s2}
    Owner <- OwnerRetry
    Requests = {r1}
    BackendIds = {"b", "c"}
    Models = {"m"}
    Digests = {"d1", "d2"}
    Offers <- MCOffers
    Catalogs <- CatalogsEventually
    Capacity <- CapacityRetry
    EventSlots = 1
    QueueBytes = 1
    ChunkSizes = {1}
    MaxSeq = 0
    MaxDisruptions = 1
SPECIFICATION FairSpec
PROPERTIES
    SilentHostEvicted
    ShutdownDrains
    Answered
    Reclaimed
CHECK_DEADLOCK FALSE
