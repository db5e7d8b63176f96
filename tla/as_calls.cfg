\* Four calls for two requests that share a block; the timer runs out once.
CONSTANTS
    r1 = r1
    r2 = r2
    A = A
    B = B
    c1 = c1
    c2 = c2
    c3 = c3
    c4 = c4
    None = None
    Request = {r1, r2}
    Block = {A}
    Call = {c1, c2, c3, c4}
    Tokens <- OneBlockTokens
    Expiry = 1
    MaxTime = 1
SPECIFICATION Spec
INVARIANTS
    TypeOK
    
    NoActiveForgotten
    ExactUnlessRaced
SYMMETRY Symmetry
CHECK_DEADLOCK FALSE
