CONSTANTS
    Alerts = {a1}
    Geofences = {g1}
    Scans = {}
    Locations = {l1}
    Orphans = {}
    Workers = {w1, w2}
    BatchSize = 1
    Rounds = 1
    Cap = 1
    DropBatch = 1
    Faults = {"lost", "error", "kill", "cancel", "detached"}
SPECIFICATION Spec
CONSTRAINT FewAtOnce
SYMMETRY Symmetry
INVARIANTS
    ExactlyOnce
    Inv
PROPERTIES
    NothingLost
    OrderKept
