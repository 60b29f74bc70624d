SPECIFICATION Spec
CONSTANTS
    Names = {1, 2}
    Session = resumed
    None = None
    Keys = {k1}
    Ops = {"claim", "invoke_write_capability", "check_inbox", "who"}
    Connections = {1, 2, 3}
    MaxCalls = 1
    MaxBeats = 1
    MaxFaults = 1
INVARIANTS
    SentOnce
CHECK_DEADLOCK FALSE
