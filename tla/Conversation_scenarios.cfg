SPECIFICATION MCSpec
CONSTANTS
    a = a
    b = b
    h = h
    k = k
    p = p
    q = q
    n = n
    None = None
    Agents = {a, b}
    Humans = {h}
    Channels = {1, 2, 3}
    Messages = {1, 2, 3}
    Creations <- AllCreations
    Drafts <- AllDrafts
    Intents <- SideIntents
    CommitKeys = {q, n}
    Admissible = {a, b, h}
    Supervised = {a, b}
    Calls = {"enroll", "adopt", "archive", "claim", "attend"}
    MaxRevision = 3
    MaxClaims = 2
    MaxAttempts = 2
    MaxCrashes = 1
INVARIANTS
    PostReachesShownAudience
    NothingPendsOnTheRemoved
    AnsweredExactlyOnce
    AttemptsAreLimited
    ObserversAreDeclared
    ArchivedIsNoParticipant
PROPERTIES
    JoinForward
    ContinuationLandsAsShown
    ManagedDeliveriesAreFenced
CHECK_DEADLOCK FALSE
