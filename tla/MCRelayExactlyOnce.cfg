SPECIFICATION FairSpec
CONSTANTS
    p1 = p1
    p2 = p2
    NoOne = NoOne
    Relays = {r1, r2}
    Partitions = {p1, p2}
    Log <- ShortLogs
    MaxBatch = 2
    MaxRestarts = 2
    MaxRevokes = 0
    MaxExpels = 0
    MaxAborts = 0
    MaxFaults = 2
PROPERTIES RelaysExactlyOnce EverythingRelayed
