SPECIFICATION MemorySpec
CONSTANTS
    None = None
    Callers = {c1, c2}
    Keys = {k1, k2}
    Accounts = {a1, a2}
    Explicit = {a1}
    Apis = {"openai", "openaiStream"}
    Routers = {TRUE, FALSE}
    MaxConvs = 2
    MaxFaults = 1
    MaxRestarts = 1
    Nil = Nil
    Users = {u}
    Protocols = {"previous", "replay", "anthropic"}
    Ids = {i1, i2}
    MaxCalls = 2
    MaxTurns = 3
SYMMETRY Symmetry
CONSTRAINT OneTrouble
INVARIANTS
    KeysIsolated
    AccountOwnsConversation
    AnsweredKeyMapped
    StoredIsConversation
    PoliteIsServed
CHECK_DEADLOCK FALSE
