SPECIFICATION AppsSpec
CONSTANTS
    Emails = {e1, e2}
    GoogleIds = {g1}
    MailOf <- OneMail
    SReqs = {r1, r2}
    Nil = nil
    MaxAccounts = 2
    MaxSessions = 1
    MaxRotations = 1
    MaxResets = 1
    PolReqs = {r1, r2}
    PolTables = {d1, d2}
    PolNames = {p1, p2}
    Roles = {a}
    Nothing = nothing
    MaxPolicies = 2
    MaxClauses = 3
    RowReqs = {r1, r2}
    EndUsers = {d1, d2}
    NoUser = nobody
    MaxRows = 1
    FileReqs = {r1, r2}
    Buckets = {b1, b2}
    NoBucket = none
    MaxFiles = 2
    Clients = {d1, d2}
    Window = 2
    Budgets = {1, 2}
    Threshold = 2
    MaxTime = 8
    ColReqs = {r1, r2}
    ValueSets = {{e1}, {e1, e2}}
    NoDefault = none
SYMMETRY AppsSymmetry
INVARIANT WindowSlides
CHECK_DEADLOCK FALSE
