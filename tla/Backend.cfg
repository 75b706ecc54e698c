CONSTANTS
    Alerts = {}
    Geofences = {g1, g2}
    Scans = {}
    Locations = {}
    Orphans = {}
    Workers = {w1, w2}
    BatchSize = 2
    Rounds = 2
    Cap = 4
    DropBatch = 1
    Faults = {"lost", "late", "cancel", "kill", "detached"}
    Handsets = {p1, p2}
    Holders = {u1, u2}
    Openings = {r1, r2}
    Closers = {a1}
    MaxOpened = 2
    News = {n1, n2}
    Channels = {webhook, email}
    HourlyCeiling = 1
    Logins = {l1, l2, l3}
    Vouchers = {v1}
    MaxFailures = 3
    MaxTries = 4
    Grants = {k1, k2}
    Pages = {x1, x2}
    Mishaps = {"lost", "error", "age"}
    MaxWrites = 3
    MaxWired = 3
    Trips = {s1, s2}
    Fleet = {u1}
    GraphDays = 2
    FinalDay = 1
SPECIFICATION BackendSpec
SYMMETRY Symmetry
INVARIANTS
    SessionInv
    AccessInv
    ToldInv

PROPERTY GeofencesInOrder
