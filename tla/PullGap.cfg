SPECIFICATION Spec
CONSTANTS
    c1 = c1
    p1 = p1
    Cursors = {c1}
    Protected = {c1}
    GlobalLog = {c1}
    Pagers = {p1}
    MaxLag = 2
    MaxCursors = 2
    LogMax = 1
    PageSize = 2
    ScanBudget = 2
    LastSeq = 3
    InboxCap = 2
    Oversize = {}
INVARIANT NoEntrySkipped
CHECK_DEADLOCK FALSE
