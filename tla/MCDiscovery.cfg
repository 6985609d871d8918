CONSTANTS
    Log <- ThenMalformed
    Families = {f1}
    Promoters = {p1}
    MinSamples = 1
    CommitEvery = 2
    MaxFaults = 3
    MaxExpiries = 1
    MaxReindexes = 1
    MaxRejects = 1
    MaxEvents = 3
SPECIFICATION FairSpec
INVARIANTS  NoMessageSkipped
PROPERTY EveryMessageHandled
