SPECIFICATION Spec
CONSTANTS
    None = None
    c1 = c1
    c2 = c2
    c3 = c3
    n1 = n1
    Calls = {c1, c2, c3, n1}
    Notifications = {n1}
    Size <- MCSize
    Refreshes = {c1}
    Capacity = 2
    MaxUnasked = 0
INVARIANTS
    OwnAnswer
CHECK_DEADLOCK FALSE
