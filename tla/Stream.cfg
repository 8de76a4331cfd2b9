CONSTANTS
    h1 = h1
    h2 = h2
    s1 = s1
    s2 = s2
    r1 = r1
    r2 = r2
    None = None
    HostIds = {h1, h2}
    Sessions = {s1, s2}
    Owner <- OwnerRetry
    Requests = {r1}
    BackendIds = {"b", "c"}
    Models = {"m"}
    Digests = {"d1", "d2"}
    Offers <- MCOffers
    Catalogs <- CatalogsStream
    Capacity <- CapacityRetry
    EventSlots = 2
    QueueBytes = 3
    ChunkSizes = {2}
    MaxSeq = 2
    MaxDisruptions = 1
SPECIFICATION Spec
INVARIANTS
    TypeOK
    RetryDiscipline
    StreamGapless
    QueueBounded
PROPERTY GatewayPromise
CHECK_DEADLOCK FALSE
