\* A service that only warns of a variable it does not know; the plan rests.
CONSTANTS
    Ranks = {r0}
    Sizes <- MCSizes
    MaxTokens = 3
    SharedFirst <- MCSharedFirst
    Tables <- MCTables
    Ncomms <- MCNcomms
    Binaries <- MCBinaries
    Local <- MCVoted
    NumCalls = 0
    Paths = {"here"}
    Builds <- MCBuilds
    Strict = FALSE
    Rebuilds = FALSE
    NumStarts = 2
SPECIFICATION MCSpec
INVARIANT RestartKeepsOutput
CHECK_DEADLOCK FALSE
