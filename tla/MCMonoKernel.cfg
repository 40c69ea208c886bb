\* Two blocks; up to three tokens accepted, two experts each; two launches.
\* Two tiles of a block, two warps in each of two warpgroups.
CONSTANTS
    Grid = 2
    Warps = 1
    Threads = 1
    MaxTokens = 4
    TopK = 2
    KBlocks = 2
    NumExperts = 3
    ExpertMap <- MCExpertMap
    BlockM = 2
    MaxTiles = 6
    Routings <- MCRoutings
    MaxLaunches = 2
    NumWg = 2
    WgWarps = 2
    NKblk = 4
    GatePasses = 4
    DownPasses = 4
    MSubs = 2
    AStages = 3
    UpPipe = 2
    DnPipe = 2
    BlockTiles = 2
SPECIFICATION BothSpec
INVARIANTS
    ScheduleRight
    OutputExact
    OperandsRight
PROPERTY LaunchEnds
