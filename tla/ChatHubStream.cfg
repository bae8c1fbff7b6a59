SPECIFICATION FairSpec
CONSTANTS
    None = None
    Requests <- SmallRequests
    Messages <- TwoMessages
    SnapshotsOf = {1}
    Tools = {"search", "fetch"}
    MaxInside = 2
    MaxExtra = 3
INVARIANTS
    StreamFollows
    ToolsCounted
PROPERTIES
    PromiseKept
    EveryCallReturns
CHECK_DEADLOCK FALSE
