CONSTANTS
    Pods = {p1}
    Apps = {}
    System = sys
    Requests = {r1}
    MaxVersion = 2
    MaxFaults = 1
    Tokens = {t1, t2}
    Checks = {c1}
    Revokers = {v1}
SPECIFICATION FairTSpec
INVARIANTS TokenTypeOK RevokedTokenGone
PROPERTIES RevocationReachesEveryPod
CHECK_DEADLOCK FALSE
