\* One library, two layers.
CONSTANTS
    Builds <- MCBuilds
    Layers <- MCLayers
    MaxTokens = 3
    Counts = {1, 2}
    Measured = {2}
SPECIFICATION GroupsSpec
INVARIANT GroupsFit
CHECK_DEADLOCK FALSE
