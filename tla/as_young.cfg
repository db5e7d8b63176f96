\* A request that starts just before the timer runs out.
CONSTANTS
    r1 = r1
    r2 = r2
    A = A
    B = B
    c1 = c1
    c2 = c2
    c3 = c3
    c4 = c4
    None = None
    Request = {r1, r2}
    Block = {A, B}
    Call = {c1, c2}
    Tokens <- MCTokens
    Expiry = 2
    MaxTime = 3
SPECIFICATION Spec
INVARIANTS
    OnlyStaleExpired
CHECK_DEADLOCK FALSE
