SPECIFICATION FairSpec
CONSTANTS
    s1 = s1
    s2 = s2
    c1 = c1
    c2 = c2
    None = None
    Sessions = {s1}
    Calls = {c1, c2}
    MaxAttempts = 2
    MaxRegistrations = 1
    MaxStarts = 2
    MaxFaults = 2
    Lapsing = {s1}
PROPERTIES
    AcceptedNoticeSurfaces
CHECK_DEADLOCK FALSE
