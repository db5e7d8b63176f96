\* A replica operation reaches a peer.
CONSTANTS
    n1 = n1
    n2 = n2
    s1 = s1
    p1 = p1
    A = A
    NoMeta = NoMeta
    None = None
    Node = {n1, n2}
    Server = {s1, p1}
    Home <- MCHome
    Hash = {A}
    MaxRequests = 3
    MaxFailures = 0
SPECIFICATION Spec
PROPERTIES
    AddOpAddsReplica
CHECK_DEADLOCK FALSE
