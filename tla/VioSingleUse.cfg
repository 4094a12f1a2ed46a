SPECIFICATION Spec
CONSTANTS
    Users = {u1, a1}
    Staff = {a1}
    Clients = {c1, c2}
    Requests = {r1, r2}
    Tokens = {t1, t2, t3}
    MaxFaults = 1
    None = None
SYMMETRY Symmetry
INVARIANT SingleUse
CHECK_DEADLOCK FALSE
