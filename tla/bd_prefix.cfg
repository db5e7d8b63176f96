\* One request at a time: a token sequence uploaded, then extended.
CONSTANTS
    A = A
    B = B
    s1 = s1
    s2 = s2
    p1 = p1
    m1 = m1
    m2 = m2
    t1 = t1
    t2 = t2
    t3 = t3
    NoMeta = NoMeta
    Hash = {A, B}
    LocalServer = {s1, s2}
    PeerServer = {}
    MetaServer = {m1}
    Self = m1
    Task = {t1}
    Shard <- TwoShards
    Chains <- MCChains
    Batches <- MCBatches
    PeerUpdates <- NoUpdates
    MaxRequests = 2
SPECIFICATION Spec
INVARIANTS
    SearchFindsLongestPrefix
CHECK_DEADLOCK FALSE
