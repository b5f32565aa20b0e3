\* One publish to two relays that come and go; the process may crash, and the
\* host stops and starts it; under the fairness of the actor loop.
CONSTANTS
    Handles = {h1}
    Relays = {r1, r2}
    PrivateHandles = {}
    Cids = {}
    NoCid = NoCid
    MaxAttempts = 2
    InflightDeadline = 1
    BackoffBase = 1
    BackoffFactor = 2
    StoreMayFail = FALSE
    MayCrash = TRUE
    MayStop = TRUE
SPECIFICATION FairSpec
INVARIANTS
    DeadlineIsHonest
PROPERTIES
    UnreachableIsNotFailure
    SettlesWhenAvailable
    DeadRelayDoesNotBlock
