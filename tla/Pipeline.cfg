SPECIFICATION Spec
CONSTANTS
    d1 = d1
    m1 = m1
    Docs = {d1}
    Reprocs = {r1}
    Deletes = {x1}
    Domains = {m1}
    Workers = {w1, w2, w3}
    ChunkSets = {c1, c2, c3, c4}
    DocOf <- MCDocOf
    DomainOf <- MCDomainOf
    MaxRetries = 1
    MaxFaults = 1
    NoMessage = NoMessage
SYMMETRY Symmetry
INVARIANTS TypeOK ProcessingIsOwned PendingHasJob GoneIsEmpty ChunkSetsBounded OneChunkSet
 
CHECK_DEADLOCK FALSE
