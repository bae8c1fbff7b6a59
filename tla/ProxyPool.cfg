SPECIFICATION Spec
CONSTANTS
    N = 3
    Cap = 2
    Clients = {c1}
    Dials = {d1, d2}
INVARIANTS
    NotStarved
    CooldownEarned
    StickyIsFresh
