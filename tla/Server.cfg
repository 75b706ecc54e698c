CONSTANTS
    k1 = k1
    k2 = k2
    b1 = b1
    b2 = b2
    Commands = {c1, c2}
    Workers = {w1}
    MaxSessions = 1
    MaxTime = 2
    TTL = 1
    Faults = {"lost", "cancel", "fail"}
    Phones = {p1}
    Drivers = {u1, u2}
    Badges = {g1, g2}
    Barcodes = {n1}
    Scanners = {x1}
    Editors = {a1}
    Handhelds = {p1}
    Monitors = {m1, m2}
    MaxAlerts = 2
    DaySlots = 4
    Depots = {1, 2}
    Terminals = {t1}
    Instances = {i1, i2}
    Schedules <- MCSchedules
    Window = 2
    MaxOutage = 1
    OrderTTL = 2
    LastSlot = 4
    Wakes = {w1, w2}
    Interval = 2
    Lifetime = 3
    Margin = 1
    MaxInstant = 5
    Firms = {k1, k2}
    Records = {r1, r2}
    Flights = {f1, f2}
    Bearers = {b1, b2, b3}
SPECIFICATION ServerSpec
INVARIANTS
    ExecutedWasRun
    Inv
    IsolationInv
    BadgeInv
    AlertInv
    OrdersInv
PROPERTY NeverRunExpired
