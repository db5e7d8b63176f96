\* Three calls, every one of which must return.
CONSTANTS
    r1 = r1
    r2 = r2
    A = A
    B = B
    c1 = c1
    c2 = c2
    c3 = c3
    c4 = c4
    None = None
    Request = {r1, r2}
    Block = {A, B}
    Call = {c1, c2, c3}
    Tokens <- EmptyOrTwo
    Expiry = 1
    MaxTime = 1
SPECIFICATION FairSpec
PROPERTIES
    HandlersFinish
CHECK_DEADLOCK FALSE
