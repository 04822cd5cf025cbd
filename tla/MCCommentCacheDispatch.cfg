CONSTANTS
    d1 = d1
    b1 = b1
    b2 = b2
    o1 = o1
    o2 = o2
    Domains = {d1}
    Readers = {}
    Batches = {b1, b2}
    Owners = {o1, o2}
    OwnerOf <- DistinctOwners
    NoOwner = NoOwner
    StartGen = 0
    MaxGen = 2
    Stamps = {1, 2}
    BatchSize = 2
    RedisLoss = FALSE
SPECIFICATION Spec
INVARIANTS RedisNeverAhead PublishedReachedRedis
PROPERTIES LiveLeaseRespected RedisGenerationMonotone
CHECK_DEADLOCK FALSE
