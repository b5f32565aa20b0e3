\* A public and a private publish share one relay, which comes and goes; store writes and loads may fail, and the process may crash.
CONSTANTS
    Handles = {h1, h2}
    Relays = {r1}
    PrivateHandles = {h2}
    Cids = {}
    NoCid = NoCid
    MaxAttempts = 2
    InflightDeadline = 1
    BackoffBase = 1
    BackoffFactor = 2
    StoreMayFail = TRUE
    MayCrash = TRUE
    MayStop = FALSE
SPECIFICATION Spec
INVARIANTS
    PrivateStaysPinned
