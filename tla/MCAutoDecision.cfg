SPECIFICATION Spec
CONSTANTS
    Runs = {r1, r2}
    Symbols = {nvda, amd}
    Requests <- MCRequests
    DuplicateHours = 1
    MaxTime = 2
    MayDie = TRUE
INVARIANTS RepeatsAreApart EndedRunIsHonest
