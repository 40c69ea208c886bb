\* Four ranks of an elastic group and four managers; two layers; three layers.
CONSTANTS
    MaxRanks = 4
    MaxManagers = 4
    Regrows = FALSE
    Layouts <- MCLayouts
    MaxBatch = 2
    Forwards = 2
    Stages = {1, 2}
    GroupSize = 2
    Models <- MCModels
    Setups <- MCSetups
    EnvSms <- MCEnvSms
    WantedSms <- MCWanted
    PeerRanks = {0, 1}
    LibrarySms = 20
SPECIFICATION ManagersSpec
INVARIANTS
    FaultsExact
    WorkspaceFits
    RoundTrip
    HandlesRight
PROPERTY EveryoneBuilds
