SPECIFICATION FairSpec
CONSTANTS
    c1 = c1
    p1 = p1
    Cursors = {c1}
    Protected = {c1}
    GlobalLog = {c1}
    Pagers = {p1}
    MaxLag = 2
    MaxCursors = 2
    LogMax = 1
    PageSize = 2
    ScanBudget = 2
    LastSeq = 3
    InboxCap = 2
    Oversize = {2}
INVARIANTS TypeOK SkipsAreReported ProtectedKeepsItsEntries LogStaysBounded WakesMatchLag
PROPERTIES CursorNeverRewinds EntriesReachTheirHost
CHECK_DEADLOCK FALSE
