SPECIFICATION EndsSpec
CONSTANTS
    Users = {u1}
    Clients = {k1}
    Codes = {g1}
    TokenReqs = {r1, r2}
    NoOwner = none
    MaxTokens = 3
    Pods = {p1}
    Events = {e1}
    PoolSize = 1
    Nobody = nobody
    MaxChanges = 2
    MaxFaults = 2
INVARIANTS RevocationHolds
PROPERTIES ImplementsLineage EveryTokenRequestEnds EveryCallEnds
CHECK_DEADLOCK FALSE
