SPECIFICATION Spec
CONSTANTS
    c1 = c1
    c2 = c2
    c3 = c3
    c4 = c4
    c5 = c5
    docA = docA
    docB = docB
    docX = docX
    m1 = m1
    m2 = m2
    mX = mX
    Chunks = {c1, c2, c3, c4, c5}
    DocOf <- MCDocOf
    DomainOf <- MCDomainOf
    OwnerOf <- MCOwnerOf
    Caller = "caller"
    Tokens <- MCTokens
    Queries <- MCQueries
    Threshold = 1
    TopK = 3
    Budget = 3
    None = None
INVARIANTS TypeOK OnlyReachable BestWithinBudget Grounded
CHECK_DEADLOCK FALSE
