SPECIFICATION Spec
CONSTANTS
    d1 = d1
    m1 = m1
    Docs = {d1}
    Reprocs = {}
    Deletes = {x1}
    Domains = {m1}
    Workers = {w1, w2}
    ChunkSets = {c1, c2, c3}
    DocOf <- MCDocOf
    DomainOf <- MCDomainOf
    MaxRetries = 1
    MaxFaults = 0
    NoMessage = NoMessage
INVARIANT ProcessingNotDeleted
CHECK_DEADLOCK FALSE
