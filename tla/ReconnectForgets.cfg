SPECIFICATION FairSpec
CONSTANTS
    s1 = s1
    Subs = {s1}
    MaxGen = 1
    MaxEvents = 3
    MayDeny = FALSE
    MayFlood = FALSE
PROPERTIES
    ReconnectRestoresSubs
CHECK_DEADLOCK FALSE
