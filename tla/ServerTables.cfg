SPECIFICATION TablesSpec
CONSTANTS
    Keys = {k1, k2}
    Clients = {c1, c2}
    Addresses = {a1, a2}
    blanks = blanks
    plain = plain
    padded = padded
    Passwords = {d, plain, padded, blanks}
    Trim <- MCTrim
    Default = d
    Configured = d
    Limit = 2
    Window = 1
    MaxAddresses = 1
    MaxClock = 1
    MaxChanges = 2
    Requests = {r1, r2}
    Workers = {w1, w2}
    MaxOps = 4
    MaxFaults = 3
    MaxSaveFaults = 1
    None = None
    NoStore = NoStore
SYMMETRY Alike
CONSTRAINT FewPasswords
INVARIANTS
    AdmittedKnowsPassword
    PasswordKept
    FailuresBounded
    DeployedStays
PROPERTIES
    KeysPromiseKept
CHECK_DEADLOCK FALSE
