SPECIFICATION AdapterFairSpec
CONSTANTS
    MaxParts = 3
    MaxCalls = 3
    CallTypes = {"function", "custom"}
    LongLines = TRUE
INVARIANTS
    StreamGrammar
    NothingLost
    TerminalTellsOutcome
PROPERTIES
    FittingStreamEnds
CHECK_DEADLOCK FALSE
