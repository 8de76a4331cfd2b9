CONSTANTS
    h1 = h1
    h2 = h2
    s1 = s1
    s2 = s2
    r1 = r1
    r2 = r2
    None = None
    HostIds = {h1}
    Sessions = {s1, s2}
    Owner <- OwnerContention
    Requests = {r1, r2}
    BackendIds = {"b", "c"}
    Models = {"m"}
    Digests = {"d1", "d2"}
    Offers <- MCOffers
    Catalogs <- CatalogsContention
    Capacity <- CapacityOne
    EventSlots = 1
    QueueBytes = 1
    ChunkSizes = {1}
    MaxSeq = 0
    MaxDisruptions = 1
SPECIFICATION Spec
INVARIANTS
    Registration
    CapacityRespected
    NoLostWakeup
    NoOrphan
CHECK_DEADLOCK FALSE
SYMMETRY RequestSymmetry
