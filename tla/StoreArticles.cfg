\* Articles, a stranger's deletion, expiry, eviction and coverage.
CONSTANTS
    Ids = {1, 2, 3, 4, 5}
    Event <- ArticleEvents
    Authors = {"alice", "bob"}
    Dtags = {"x"}
    NoD = NoD
    Never = Never
    RelayUrls = {"r1", "r2"}
    Serves <- ArticleServes
    MaxProvenance = 2
    MaxPerStep = 1
    MaxTotal = 2
    TombstoneMaxAge = 0
    PinSets <- ArticlePins
    Shapes = {"notes"}
    Matches <- ArticleMatches
    AskedAt <- ArticleAsked
    LastSecond = 2
SPECIFICATION Spec
INVARIANTS
    StoreTypeOK
    TombstoneExcludes
    IndexesAgree
    NoUnjustifiedLoss
    HeadIsNewest
    LogTellsAll
    CoverageHonest
    DeletionSticks
