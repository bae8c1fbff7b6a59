SPECIFICATION Spec
CONSTANTS
    None = None
    Calls = {"list", "write"}
    ReadOnly = {"list"}
    Outcomes = {"done", "empty"}
    CallLimit = 2
    MaxRounds = 2
    MaxBatch = 2
    MaxMessages = 6
INVARIANTS
    ForwardedIsPaired
    IdsFresh
    RefusedForCause
    CallsBounded
    SerialWrites
    NotRepeated
CHECK_DEADLOCK FALSE
