SPECIFICATION Spec
CONSTANTS
    d1 = d1
    m1 = m1
    Docs = {d1}
    Reprocs = {r1}
    Deletes = {}
    Domains = {m1}
    Workers = {w1, w2}
    ChunkSets = {c1, c2, c3}
    DocOf <- MCDocOf
    DomainOf <- MCDomainOf
    MaxRetries = 1
    MaxFaults = 0
    NoMessage = NoMessage
INVARIANT NoDuplicateChunks
CHECK_DEADLOCK FALSE
