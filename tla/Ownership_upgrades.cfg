SPECIFICATION Spec
CONSTANTS
    d1 = d1
    d2 = d2
    d3 = d3
    None = None
    Daemons = {d1, d2, d3}
    Build <- TwoBuilds
    MaxStarts = 2
    MaxWrites = 2
INVARIANTS
    OneOwner
    UpgradeKeepsThePast
CHECK_DEADLOCK FALSE
