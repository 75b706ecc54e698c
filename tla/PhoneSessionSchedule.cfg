CONSTANTS
    NoSession = NoSession
    OnlineSessions = {o1, o2}
    OfflineSessions = {f1}
    Scans = {s1}
    Syncs = {}
    Alarm = alarm
    Worker = worker
    LockTimes = {2}
    Duration = 2
    CheckPeriod = 1
    Window = 2
    MaxTime = 6
    DepotAtStart = {TRUE}
    Faults = {"loseAlarm"}
SPECIFICATION Spec
INVARIANT ScheduleInv
