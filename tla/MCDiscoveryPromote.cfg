CONSTANTS
    Log <- TwoVariants
    Families = {f1}
    Promoters = {p1, p2}
    MinSamples = 1
    CommitEvery = 2
    MaxFaults = 1
    MaxExpiries = 1
    MaxReindexes = 0
    MaxRejects = 0
    MaxEvents = 1
SPECIFICATION Spec
INVARIANTS OneSchemaPerCandidate StagedHasSchema 
PROPERTY PublishesLikeVault
SYMMETRY Symmetry
