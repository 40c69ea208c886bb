CONSTANTS
    Builds <- MCBuilds
    Layers <- MCLayers
    MaxTokens = 3
    Counts = {1, 2, 3, 4}
    Measured = {2}
    HDim = 7168
    Grid = 132
    W = 16
    Mm = 8
    Align = 32
    MaxC = 16
    TokenCounts <- MCTokenCounts
    ChunkCounts <- MCChunkCounts
    Worlds <- MCWorlds
    CommCounts <- MCCommCounts
    Ranks = {r0, r1}
    NumUbatches = 2
    NumLayers = 2
    NumForwards = 2
    Garbage = 9
    World = 3
    Arms <- MCArms
    Repeats = 3
    Scale = 2
SPECIFICATION LaunchSpec
INVARIANTS
    WeightsFit
    CallRight
    CutsAgree
    OutputIntact
    TrialsRight
PROPERTIES
    AllServed
    TrialsEnd
