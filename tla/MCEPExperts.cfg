\* One call of one rank, every combination of the flags.
CONSTANTS
    MaxRows = 2
    TopK = 3
    LocalE = 2
    NumRanks = 2
    Dims <- MCDims
    WeightOnly = FALSE
SPECIFICATION ExpertsSpec
INVARIANTS
    OutputExact
    CaptureNeverSyncs
