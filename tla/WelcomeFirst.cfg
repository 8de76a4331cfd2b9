CONSTANTS
    h1 = h1
    h2 = h2
    s1 = s1
    s2 = s2
    r1 = r1
    r2 = r2
    None = None
    HostIds = {h1}
    Sessions = {s1, s2}
    Owner <- OwnerContention
    Requests = {r1}
    BackendIds = {"b", "c"}
    Models = {"m"}
    Digests = {"d1", "d2"}
    Offers <- MCOffers
    Catalogs <- CatalogsContention
    Capacity <- CapacityOne
    EventSlots = 3
    QueueBytes = 3
    ChunkSizes = {1, 2}
    MaxSeq = 1
    MaxDisruptions = 3
SPECIFICATION Spec
INVARIANT WelcomeFirst
CHECK_DEADLOCK FALSE
