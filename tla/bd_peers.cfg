\* Requests of this domain and updates from a peer, one block.
CONSTANTS
    A = A
    B = B
    s1 = s1
    s2 = s2
    p1 = p1
    m1 = m1
    m2 = m2
    t1 = t1
    t2 = t2
    t3 = t3
    NoMeta = NoMeta
    Hash = {A}
    LocalServer = {s1, s2}
    PeerServer = {p1}
    MetaServer = {m1, m2}
    Self = m1
    Task = {t1, t2, t3}
    Shard <- OneShard
    Chains <- OneBlockChain
    Batches <- OneBlockBatch
    PeerUpdates <- MCUpdates
    MaxRequests = 3
SPECIFICATION Spec
INVARIANTS
    ListedIsClaimed
    EmptyOnlyWhileDropping
    EveryListingQueued
    CountsCoverIndex
PROPERTIES
    ReplicaLossExplained
    ImplementsRegistry
SYMMETRY Symmetry
CHECK_DEADLOCK FALSE
