SPECIFICATION DashSpec
CONSTANTS
    Users = {1, 2}
    Apps = {a1}
    Reqs = {r1, r2}
    Nobody = nobody
    Slugs = {s1}
    FReqs = {r1, r2}
    MaxFronts = 2
    MaxServices = 1
    KReqs = {r1, r2}
    MaxKeys = 2
    SetReqs = {r1, r2}
    HubApps = {g1, g2}
    MaxEdits = 2
    NoHub = none
    BuildReqs = {r1, r2}
    AppNames = {x, y}
    PlanTables = {t1}
    Undefined = undefined
    MaxChats = 1
    MaxBuilt = 2
    EditReqs = {r1, r2}
    MaxEditChats = 2
    MaxOps = 2
SYMMETRY RequestSymmetry
PROPERTY RecordedServiceIsKept
CHECK_DEADLOCK FALSE
