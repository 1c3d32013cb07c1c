SPECIFICATION FairSpec
CONSTANTS
    Pods = {p1}
    Apps = {a1}
    System = System
    Requests = {r1}
    MaxVersion = 2
    MaxFaults = 0
PROPERTY EveryPodConverges
CHECK_DEADLOCK FALSE
