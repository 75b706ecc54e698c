CONSTANTS
    NoSession = NoSession
    OnlineSessions = {o1}
    OfflineSessions = {f1}
    Scans = {s1}
    Syncs = {y1}
    Alarm = alarm
    Worker = worker
    LockTimes = {}
    Duration = 9
    CheckPeriod = 1
    Window = 2
    MaxTime = 0
    DepotAtStart = {TRUE}
    Faults = {"kill"}
    Packages = {m1}
    Badges = {b1, b2}
    Works = {w1, w2}
    MaxEdits = 1
    MaxMishaps = 1
    MaxCalls = 1
SPECIFICATION PullSpec
INVARIANT FleetInv

PROPERTIES
    DivergenceResolved
    ConfigurationDelivered
