\* Four blocks in one arrival set, one alone; three sites; two launches.
\* Four experts, two per token, up to four tokens, seven tile entries.
CONSTANTS
    b0 = b0
    b1 = b1
    b2 = b2
    b3 = b3
    b4 = b4
    Blocks <- MCBlocks
    Ids <- MCIds
    IdOf <- MCIdOf
    SeedOf <- MCSeedOf
    Calls = 3
    Slots <- MCSlots
    SlotOf <- MCSlotOf
    HighBit = 8
    Garbage <- MCGarbage
    SMCounts <- MCSMCounts
    MaxLaunches = 2
    NumExperts = 4
    TopK = 2
    MaxTokens = 4
    BlockMs <- MCBlockMs
    MaxTiles = 7
SPECIFICATION BarriersSpec
INVARIANTS
    TypeOK
    BarrierSafe
    CounterExact
    ScanExact
PROPERTIES
    ImplementsBarrier
    EveryLaunchRetires
    ScanEnds
