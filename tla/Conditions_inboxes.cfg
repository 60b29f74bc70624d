SPECIFICATION MCSpec
CONSTANTS
    a1 = a1
    c1 = c1
    p1 = p1
    p2 = p2
    host = host
    startup = startup
    None = None
    Actors = {a1}
    Others = {c1}
    Reasons = {host, startup}
    Presenters = {p1, p2}
    MaxGeneration = 3
    MaxFaults = 1
INVARIANTS
    HiddenWasShown
PROPERTIES
    StaleUnreadIsRaised
    ReadInboxIsResolved
CHECK_DEADLOCK FALSE
