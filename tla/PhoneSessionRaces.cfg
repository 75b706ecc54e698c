CONSTANTS
    NoSession = NoSession
    OnlineSessions = {o1}
    OfflineSessions = {}
    Scans = {s1, s2}
    Syncs = {y1}
    Alarm = alarm
    Worker = worker
    LockTimes = {}
    Duration = 9
    CheckPeriod = 1
    Window = 2
    MaxTime = 0
    DepotAtStart = {TRUE, FALSE}
    Faults = {"kill", "cancelSync", "powerOff", "closeUI"}
SPECIFICATION Spec
SYMMETRY Symmetry
INVARIANTS
    UsableHasSession
    SessionWasStored
    Inv
PROPERTY EndedStaysEnded
