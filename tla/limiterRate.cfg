SPECIFICATION FairSpec
CONSTANTS
    c1 = c1
    c2 = c2
    Callers = {c1, c2}
    MaxReq = 2
INVARIANTS
    TypeOK
PROPERTIES
    ImplementsTokenBucket
    WaitReturns
