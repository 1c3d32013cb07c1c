CONSTANTS
    Pods = {p1}
    Apps = {a}
    System = sys
    Requests = {r1, r2}
    MaxVersion = 2
    MaxFaults = 2
SPECIFICATION FairSpec
INVARIANTS TypeOK CaughtUp
PROPERTIES SyncNeverRollsBack KeepsPromise EveryPodReachesTheVersion
CHECK_DEADLOCK FALSE
