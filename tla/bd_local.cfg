\* Requests of this domain only, two tasks, two blocks on two shards.
CONSTANTS
    A = A
    B = B
    s1 = s1
    s2 = s2
    p1 = p1
    m1 = m1
    m2 = m2
    t1 = t1
    t2 = t2
    t3 = t3
    NoMeta = NoMeta
    Hash = {A, B}
    LocalServer = {s1, s2}
    PeerServer = {}
    MetaServer = {m1}
    Self = m1
    Task = {t1, t2}
    Shard <- TwoShards
    Chains <- MCChains
    Batches <- MCBatches
    PeerUpdates <- NoUpdates
    MaxRequests = 3
SPECIFICATION FairSpec
INVARIANTS
    TypeOK
    ListedIsClaimed
    EmptyOnlyWhileDropping
    EveryListingQueued
PROPERTIES
    
    RequestsFinish
CHECK_DEADLOCK FALSE
