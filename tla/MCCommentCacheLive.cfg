CONSTANTS
    d1 = d1
    b1 = b1
    b2 = b2
    o1 = o1
    o2 = o2
    Domains = {d1}
    Readers = {r1}
    Batches = {b1}
    Owners = {o1}
    OwnerOf <- OneOwner
    NoOwner = NoOwner
    StartGen = 1
    MaxGen = 2
    Stamps = {1}
    BatchSize = 1
    RedisLoss = FALSE
SPECIFICATION FairSpec
PROPERTIES EveryEventPublished FeedConverges ImplementsFeed
