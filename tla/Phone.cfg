CONSTANTS
    NoSession = NoSession
    OnlineSessions = {o1}
    OfflineSessions = {f1}
    Scans = {s1}
    Syncs = {}
    Alarm = alarm
    Worker = worker
    LockTimes = {}
    Duration = 2
    CheckPeriod = 1
    Window = 2
    MaxTime = 5
    DepotAtStart = {TRUE, FALSE}
    Faults = {"kill", "powerOff"}
    Tickets = {t1}
    Creds = {k1, k2, k3}
    Calls = {x1, x2}
    Requests = {q1, q2}
    Troubles = {{"late"}, {"kill", "age"}, {"gateway", "lost"}}
    Units = {p1}
    Apks = {a1, a2}
    Desks = {d1}
    Jobs = {j1}
    Versions = {1, 2}
    Signers = {g1}
    Viewers = {v1}
    MaxShares = 2
    MaxCalls = 2
    MaxHour = 1
    AnswerTime = 1
    ShareTime = 1
    Callers = {c1}
    Codes = {b1}
    Attempts = {r1, r2, r3}
    CallerQuota = 3
    CodeQuota = 4
    LockoutFailures = 2
SPECIFICATION PhoneSpec
INVARIANTS
    ExpiryInv
    IdentityInv
    AppInv
    ShareInv
    LimiterInv
