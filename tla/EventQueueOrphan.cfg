CONSTANTS
    Alerts = {o1}
    Geofences = {}
    Scans = {}
    Locations = {}
    Orphans = {o1}
    Workers = {w1}
    BatchSize = 2
    Rounds = 2
    Cap = 4
    DropBatch = 1
    Faults = {}
SPECIFICATION FairSpec
PROPERTY OfflineLikeOnline
