\* A note, its author's kind:5 and a stranger's, in any order.
CONSTANTS
    Ids = {1, 2, 3}
    Event <- StrangerEvents
    Authors = {"alice", "bob"}
    Dtags = {"x"}
    NoD = NoD
    Never = Never
    RelayUrls = {"r1"}
    Serves <- StrangerServes
    MaxProvenance = 2
    MaxPerStep = 1
    MaxTotal = 3
    TombstoneMaxAge = 2
    PinSets = {{}}
    Shapes = {}
    Matches <- NoMatches
    AskedAt <- NoMatches
    LastSecond = 1
SPECIFICATION Spec
INVARIANT DeletionIsFinal
