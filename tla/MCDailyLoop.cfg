SPECIFICATION MCSpec
CONSTANTS
    OptionSets <- MCOptionSets
    MayRaise = TRUE
    MayCrash = TRUE
    Triggers = {t1, t2, t3}
    Window = 1
    MayForce = TRUE
    Senders = {s1, s2, s3}
    NumAlerts = 2
    MayDie = TRUE
INVARIANTS SuccessDidEverything TaskTellsTheRun DuplicateNeedsAnExcuse PendingHasAnOwner
PROPERTIES DocumentIsAppendOnly LoopEnds SkippedForARunThatEnds PendingIsSent
