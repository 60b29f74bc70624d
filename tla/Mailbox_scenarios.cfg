SPECIFICATION MCSpec
CONSTANTS
    m1 = m1
    Actors = {1, 2, 3}
    Messages = {m1}
    MaxClaims = 3
    MaxAttempts = 2
    MaxCrashes = 1
    Archivable = {1}
    StaleClock = TRUE
    Recipients = {1, 2}
    Wakes = {TRUE, FALSE}
INVARIANTS
    SettledByNewestClaim
    RevokedIsFenced
    ForwardingReachesAnInbox
    AdoptedIsNotWoken
    ClaimSilencesWake
    WakeFollowsDelivery
PROPERTIES
    DeliveriesAreFenced
    JobsAreResolved
CHECK_DEADLOCK FALSE
