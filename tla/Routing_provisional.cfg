SPECIFICATION Spec
CONSTANTS
    a = a
    b = b
    c = c
    x = x
    k = k
    p = p
    q = q
    None = None
    Names = {a, b, c, x}
    Messages = {1, 2, 3}
    AliasRequests <- EarlyRequests
    Sends <- MCSends
    Provisional = {c}
    Retirable = {a, b}
    MaxRevision = 3
INVARIANTS
    NamesStayDisjoint
CHECK_DEADLOCK FALSE
