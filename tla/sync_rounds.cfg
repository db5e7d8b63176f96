\* Two metadata servers, one block that two data servers may hold, failures.
CONSTANTS
    n1 = n1
    n2 = n2
    s1 = s1
    p1 = p1
    A = A
    NoMeta = NoMeta
    None = None
    Node = {n1, n2}
    Server = {s1, p1}
    Home <- MCHome
    Hash = {A}
    MaxRequests = 2
    MaxFailures = 2
SPECIFICATION FairSpec
INVARIANTS
    TypeOK
    
PROPERTIES
    RoundsEnd
    
    ImplementsGossip
CHECK_DEADLOCK FALSE
