CONSTANTS
    NoSession = NoSession
    OnlineSessions = {o1}
    OfflineSessions = {}
    Scans = {s1}
    Syncs = {y1}
    Alarm = alarm
    Worker = worker
    LockTimes = {2}
    Duration = 9
    CheckPeriod = 1
    Window = 2
    MaxTime = 4
    DepotAtStart = {TRUE}
    Faults = {}
SPECIFICATION Spec
INVARIANTS
    LockedInTime
