\* One publish to two relays; the process crashes, and the host stops and starts it.
CONSTANTS
    Handles = {h1}
    Relays = {r1, r2}
    PrivateHandles = {}
    Cids = {}
    NoCid = NoCid
    MaxAttempts = 3
    InflightDeadline = 2
    BackoffBase = 1
    BackoffFactor = 2
    StoreMayFail = FALSE
    MayCrash = TRUE
    MayStop = TRUE
SPECIFICATION Spec
SYMMETRY RelaySymmetry
INVARIANTS
    TypeOK
    NoCompletedRowLingers
    IntentIsDurable
    SettlementAgrees
    NoGhostRecord
PROPERTIES
    AcceptedNeverResent
    ImplementsOutbox
