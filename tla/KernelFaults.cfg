\* One publish dispatched twice; store writes and loads may fail, the process may crash,
\* and the host stops and starts the actor;
\* under the fairness of the actor loop.
CONSTANTS
    Handles = {h1}
    Relays = {r1}
    PrivateHandles = {}
    Cids = {c1, c2}
    NoCid = NoCid
    MaxAttempts = 1
    InflightDeadline = 1
    BackoffBase = 1
    BackoffFactor = 2
    StoreMayFail = TRUE
    MayCrash = TRUE
    MayStop = TRUE
    EarlyPublish = FALSE
    IndexCap = 2
    QueueCap = 1
SPECIFICATION FairKernelSpec
PROPERTIES
    OnlyStartBreaksPromises
    HostHearsBack
