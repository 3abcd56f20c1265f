CONSTANTS
    Users = {u1}
    Searches = {r1, r2}
    Replicas = {p1, p2}
    PoolSize = 2
    Requests = {s1, s2}
    Quota = 1
    MaxPerUser = 1
    Interval = 1
    MaxFaults = 1
SPECIFICATION Spec
SYMMETRY Symmetry
INVARIANTS
    TypeOK
    QuotaBounded
    SearchesBounded
    RunsAreMarked
    LaunchedOncePerInterval
