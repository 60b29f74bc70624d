SPECIFICATION MCSpec
CONSTANTS
    b = b
    x = x
    y = y
    r1 = r1
    r2 = r2
    s1 = s1
    s2 = s2
    i1 = i1
    i2 = i2
    c1 = c1
    c2 = c2
    None = None
    Bases = {b}
    Suffixes = {x, y}
    Runs = {r1, r2}
    Sessions = {s1, s2}
    Instances = {i1, i2}
    Conns = {c1, c2}
    Hellos <- AllHellos
    Requests <- Operations
    Addressees <- Actors
    Retirable <- Actors
SYMMETRY ConnSymmetry
INVARIANTS
    HandleReachesActor
    ProvisionalIsInvisible
    AdoptedIsNotLive
    ArchivedIsUnreachable
PROPERTIES
    HandleMovesOnlyFromRetired
    NewInstanceNeverSteals
CHECK_DEADLOCK FALSE
