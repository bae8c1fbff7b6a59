SPECIFICATION FairSpec
CONSTANTS
    Nil = Nil
    Flows = {f1, f2}
    Callbacks = {b1, b2}
    People = {p1, p2}
    f1 = f1
    f2 = f2
    p1 = p1
    p2 = p2
    Codes <- MCCodes
INVARIANTS
    ToldTruly
PROPERTY
    PollSettles
