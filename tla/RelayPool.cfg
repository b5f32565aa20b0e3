SPECIFICATION FairSpec
CONSTANTS
    s1 = s1
    Subs = {s1}
    MaxGen = 2
    MaxEvents = 4
    MayDeny = TRUE
    MayFlood = TRUE
INVARIANTS
    PoolTypeOK
    DeadWorkerIsReplaceable
    ConnectedIsKnown
    PreambleFirst
    NoOrphanSubscription
PROPERTIES
    SilentReconnectReplays
    ClosedWorkersEnd
CHECK_DEADLOCK FALSE
