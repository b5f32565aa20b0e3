\* One private publish, dispatched twice; the host stops and starts the actor, publishes while it is stopped, and the process crashes.
CONSTANTS
    Handles = {h1}
    Relays = {r1}
    PrivateHandles = {h1}
    Cids = {c1, c2}
    NoCid = NoCid
    MaxAttempts = 1
    InflightDeadline = 1
    BackoffBase = 1
    BackoffFactor = 2
    StoreMayFail = FALSE
    MayCrash = TRUE
    MayStop = TRUE
    EarlyPublish = TRUE
    IndexCap = 1
    QueueCap = 2
SPECIFICATION KernelSpec
SYMMETRY KernelSymmetry
INVARIANTS
    KernelTypeOK
    NoContradictoryVerdict
    WithdrawnStaysWithdrawn
PROPERTIES
    CancelledIsFinal
