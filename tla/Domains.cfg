SPECIFICATION FairSpec
CONSTANTS
    d1 = d1
    d2 = d2
    d3 = d3
    DomainIds = {d1, d2, d3}
    OwnerOf <- MCOwnerOf
    Names = {n1, n2}
    Texts = {t1, NoText}
    NoText = NoText
    Requests = {r1, r2}
    Keep = Keep
    None = None
    Absent = Absent
    Gone = Gone
INVARIANTS TypeOK NamesStayUnique ScopeExists
PROPERTIES OnlyAskedChanges EveryRequestAnswered NameIsUsed
CHECK_DEADLOCK FALSE
