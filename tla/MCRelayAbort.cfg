SPECIFICATION Spec
CONSTANTS
    p1 = p1
    p2 = p2
    NoOne = NoOne
    Relays = {r1}
    Partitions = {p1}
    Log <- OnePartition
    MaxBatch = 2
    MaxRestarts = 0
    MaxRevokes = 0
    MaxExpels = 0
    MaxAborts = 1
    MaxFaults = 2
INVARIANT AbortedIsReprocessed
