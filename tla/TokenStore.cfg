SPECIFICATION Spec
CONSTANTS
    u1 = u1
    u2 = u2
    e1 = e1
    e2 = e2
    None = None
    Users = {u1, u2, u3}
    Opaque = {u3}
    ClockIds = {k1}
    EmailOf <- OwnEmails
    Callers = {c1, c2}
    Positions = {1, 2, 3}
    MaxGrants = 3
    MaxFaults = 2
SYMMETRY Symmetry
CONSTRAINT FewPeople
INVARIANTS
    TypeOK
    TokensMatchOwner
    OneEntryPerAccount
    DeadTokenExplained
    FileHoldsMemory
PROPERTIES
    AppearsOnlyFresh
CHECK_DEADLOCK FALSE
