\* Two uploads of the same new block at the same time.
CONSTANTS
    A = A
    B = B
    s1 = s1
    s2 = s2
    p1 = p1
    m1 = m1
    m2 = m2
    t1 = t1
    t2 = t2
    t3 = t3
    NoMeta = NoMeta
    Hash = {A}
    LocalServer = {s1, s2}
    PeerServer = {}
    MetaServer = {m1}
    Self = m1
    Task = {t1, t2}
    Shard <- TwoShards
    Chains <- OneBlockChain
    Batches <- NoBatches
    PeerUpdates <- NoUpdates
    MaxRequests = 2
SPECIFICATION FairSpec
PROPERTIES
    EmptyIntersectionDeletes
CHECK_DEADLOCK FALSE
