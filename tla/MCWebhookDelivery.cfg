CONSTANTS
    Pods = {p1, p2}
    Calls = {c1, c2}
    Events = {e1}
    PoolSize = 1
    Nobody = nobody
    MaxChanges = 3
    MaxFaults = 2
SPECIFICATION Spec
SYMMETRY CallSymmetry
INVARIANTS TypeOK AtMostOnce SkippedWasApplied
