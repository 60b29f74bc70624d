SPECIFICATION Spec
CONSTANTS
    a = a
    b = b
    c = c
    x = x
    k = k
    p = p
    q = q
    None = None
    Names = {a, b, c, x}
    Messages = {1, 2, 3}
    AliasRequests <- MCAliasRequests
    Sends <- MCSends
    Provisional = {c}
    Retirable = {a, b}
    MaxRevision = 3
INVARIANTS
    NamesStayDisjoint
    SendRetryIsRecognised
    AnswersAreStable
    AliasTargetIsActive
CHECK_DEADLOCK FALSE
