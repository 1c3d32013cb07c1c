CONSTANTS
    Pods = {p1}
    Calls = {c1, c2}
    Events = {e1}
    PoolSize = 1
    Nobody = nobody
    MaxChanges = 2
    MaxFaults = 1
SPECIFICATION Spec
INVARIANTS AppliedOnce
