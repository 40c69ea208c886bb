\* Enable flags and binaries differ, the rest is the same on every rank; a
\* service that refuses variables it does not know, and files that stay.
CONSTANTS
    Ranks = {r0, r1, r2}
    Sizes <- MCSizes
    MaxTokens = 3
    SharedFirst <- MCSharedFirst
    Tables <- MCTables
    Ncomms <- MCNcomms
    Binaries <- MCBinaries
    Local <- MCVoted
    NumCalls = 2
    Paths = {"here", "there"}
    Builds <- MCBuilds
    Strict = TRUE
    Rebuilds = FALSE
    NumStarts = 2
SPECIFICATION MCSpec
INVARIANTS
    PathsAgree
    RestartKeepsOutput
PROPERTY NobodyStranded
