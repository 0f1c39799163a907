SPECIFICATION MCSpec
CONSTANTS
    Keys = {k1}
    Requests = {r1, r2, r3}
    Imports = {i1}
    Ttl = 1
    Interval = 1
    MaxTime = 2
    MayAmend = FALSE
    MaxRequests = 1
    Window = 2
    Threads = {t1}
    Configured = FALSE
    Lifetimes = {0, 1}
    Skew = 1
    PendingTtl = 1
    MaxRetries = 1
    MaxHours = 1
    MaxStarts = 1
    MaxTokens = 2
CHECK_DEADLOCK FALSE
INVARIANTS GetNeverRaises
