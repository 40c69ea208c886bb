\* Two ranks, two grids, three launches.
CONSTANTS
    World = 2
    Grids <- MCGrids
    NChunks <- MCNChunks
    MaxLaunches = 3
SPECIFICATION FairSpec
INVARIANTS
    RetiredComplete
    PadsSafe
PROPERTIES
    ImplementsAllReduce
    AllRetire
