CONSTANTS
    Commands = {c1}
    Workers = {w1}
    MaxSessions = 1
    MaxTime = 3
    TTL = 1
    Faults = {"lost"}
SPECIFICATION FairSpec
PROPERTY ExecutedIsReported
