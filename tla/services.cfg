CONSTANTS
    A = A
    B = B
    C = C
    n1 = n1
    n2 = n2
    n3 = n3
    d1 = d1
    q1 = q1
    q2 = q2
    s1 = s1
    s2 = s2
    x1 = x1
    x2 = x2
    m1 = m1
    m2 = m2
    Thread = {t1, t2}
    t3 = t3
    Hash <- Counted
    Task <- Handlers
    Batches <- Uploads
    MaxCountRounds = 1
    Node = {n1, n2, n3}
    Data = {d1}
    None = None
    Configured <- ConfiguredAt
    RegistersAt <- Registering
    MaxRounds = 1
    MaxFailures = 1
    MovedHash <- Moved
    Request <- Requests
    Chain <- ChainOf
    Source <- SourceOf
    Local <- LocalServer
    AllServers <- Ring
    Worker <- Thread
    Placed <- PlacedAt
    NoTask = NoTask
    TransferOn = TRUE
    Ttl = 1
    Cooldown = 1
    MaxTime = 2
    MaxWork = 12
    RankedHash <- Block
    Root = Root
    LocalList <- LocalInOrder
    Remote <- RemoteServer
    ReachableRemote <- RemoteReached
    CountsTried <- CountsSeen
    Predecessors <- PredecessorMaps
    Described <- Descriptions
    Placements <- PlacementSets
    K = 2
    StoredHash <- Block
    Query <- Prompt
    Server <- LocalServer
    Model <- ModelOf
    Reachable <- LocalServer
    Asked <- AskedSets
    MaxChanges = 1
    BlockSize = 2
    Width = 2
    Digest <- Digests
    SeedDigest <- Seed
    Inputs <- TokenLists
SPECIFICATION MCSpec
INVARIANTS
    ServicesTyped
    CountsAddUp
    NewcomerMissesNothing
    RemovedIsGone
    TypeOK
    IndexStillRight
    ListedForAReason
    SyncedIsMutual
    MappedIsGrouped
    RepeatedOnlyWhenOutrun
    
    BestAreChosen
    PredecessorPulledFirst
    CreditIsBracketed
    HashNamesPrefix
    CborReadsBack
PROPERTIES
    CleanupSparesTheFresh
    
SYMMETRY Symmetry
CHECK_DEADLOCK FALSE
