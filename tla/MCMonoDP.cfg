\* The monokernel as it is offered, data-parallel layers included.
CONSTANTS
    Sizes <- MCSizes
    MaxTokens = 3
    FusedSizes <- MCFusedSizes
    Thresholds <- MCThresholds
    MonoWithDP = TRUE
    Models <- MCNoModels
    Naming <- MCNaming
    Streams <- MCStreams
    Checkpoints <- MCNoCheckpoints
    Slices <- MCSlices
SPECIFICATION MCSpec
INVARIANT OutputRight
