SPECIFICATION MCSpec
CONSTANTS
    s1 = s1
    s2 = s2
    c1 = c1
    c2 = c2
    None = None
    Sessions = {s1, s2}
    Calls = {c1, c2}
    MaxAttempts = 1
    MaxRegistrations = 2
    MaxStarts = 2
    MaxFaults = 1
    Lapsing = {}
SYMMETRY SessionSymmetry
INVARIANTS
    NoStrandedWait
PROPERTIES
    AcceptedNoticeIsHeard
    WaitsAreHandedOff
CHECK_DEADLOCK FALSE
