\* The host sends Start again while it waits on a dispatched publish.
CONSTANTS
    Handles = {h1}
    Relays = {r1}
    PrivateHandles = {}
    Cids = {c1}
    NoCid = NoCid
    MaxAttempts = 2
    InflightDeadline = 1
    BackoffBase = 1
    BackoffFactor = 2
    StoreMayFail = FALSE
    MayCrash = FALSE
    MayStop = TRUE
    EarlyPublish = FALSE
    IndexCap = 1
    QueueCap = 2
SPECIFICATION KernelSpec
INVARIANTS
    EveryPromiseIsBacked
