SPECIFICATION MCSpec
CONSTANTS
    NumFiles = 3
    Pattern <- MCPattern
    Rows <- MCRows
    InsertOnly <- MCInsertOnly
    Writes <- MCWrites
    Passes = {p1, p2}
    MaxSaves = 2
    MayFail = TRUE
    Symbols = {s1, s2}
    Users = {u1, u2}
    Syncs = {y1}
    WatchedSymbols = {s1}
    WatchUsers = {u1}
    Roles <- MCRoles
    Metrics <- MCMetrics
    Archives <- MCArchives
    MaxFailures = 2
    Days = {1, 2}
    Quantities = {1, 2}
    Prices = {0, 1, 3}
    Multiplier = 2
    MaxTrades = 3
SYMMETRY PassesAreAlike
CHECK_DEADLOCK FALSE
INVARIANTS MarkedIsStored NoSilentGaps FailuresLeaveNoTrace LotsAreTheHolding
    OnlyMovedAreMissed RequiredIsOffered
PROPERTIES ExclusionIsKept
