CONSTANTS
    Commands = {c1, c2}
    Workers = {w1}
    MaxSessions = 1
    MaxTime = 3
    TTL = 1
    Faults = {"lost", "fail", "slow"}
    Accounts = {a1, a2}
    Companies = {k1, k2, k3}
    Calls = {1}
    Desks = {d1}
    Visits = {v1}
    Tries = 2
    MaxDecisions = 1
    Alerts = {o1}
    Geofences = {g1}
    Scans = {s1}
    Orphans = {o1}
    Pushers = {w1}
    BatchSize = 2
    Rounds = 2
    Cap = 4
    DropBatch = 1
    Mishaps = {"lost", "kill", "detached"}
SPECIFICATION PromiseSpec
INVARIANTS
    OnceInv
    LinkInv

PROPERTIES
    PromiseKept
    EverySettled
    HealthyDelivered
    AccountAlwaysServed
