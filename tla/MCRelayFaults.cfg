SPECIFICATION Spec
CONSTANTS
    p1 = p1
    p2 = p2
    NoOne = NoOne
    Relays = {r1, r2}
    Partitions = {p1, p2}
    Log <- ShortLogs
    MaxBatch = 2
    MaxRestarts = 1
    MaxRevokes = 1
    MaxExpels = 1
    MaxAborts = 1
    MaxFaults = 2
INVARIANTS TransactionsAreWhole
SYMMETRY Symmetry
