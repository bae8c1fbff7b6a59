SPECIFICATION FairSpec
CONSTANTS
    None = None
    c1 = c1
    c2 = c2
    c3 = c3
    n1 = n1
    Calls = {c1, c2, c3, n1}
    Refreshes = {c1}
    Notifications = {n1}
    Size <- MCSize
    Capacity = 1
    MaxUnasked = 1
INVARIANTS
    AlignedUntilDisturbed
    LeavesOnlyReaders
PROPERTIES
    EveryCallReturns
CHECK_DEADLOCK FALSE
