\* Two tasks, two callers of guarded operations, failing writes, one restart.
SPECIFICATION FairSpec
CONSTANTS
    t1 = t1
    t2 = t2
    Tasks <- MCTasks
    Callers = {c1, c2}
    Ops <- MCOps
    DbMayFail = TRUE
    MaxRestarts = 1
\* Every task may be over and nobody obliged to create another one.
CHECK_DEADLOCK FALSE
INVARIANTS FinishedOwnerSettlesTask
PROPERTIES OutcomeOnlyLostToStaleCall EveryTaskSettles
