\* Every configuration without data parallelism under the monokernel.
CONSTANTS
    Sizes <- MCSizes
    MaxTokens = 3
    FusedSizes <- MCFusedSizes
    Thresholds <- MCThresholds
    MonoWithDP = FALSE
    Models <- MCModels
    Naming <- MCNaming
    Streams <- MCStreams
    Checkpoints <- MCCheckpoints
    Slices <- MCSlices
SPECIFICATION MCSpec
INVARIANTS
    OutputRight
    ForwardRight
    OpsRight
    WeightsRight
