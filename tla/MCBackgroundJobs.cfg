SPECIFICATION MCSpec
CONSTANTS
    Runs = {r1, r2}
    Kinds = {"daily_review", "trade_review", "risk_assessment", "position_analysis"}
    Dates = {d1, d2}
    Portfolios <- MCPortfolios
    NoValue = NoValue
    MaxRestarts = 1
    TaskNodes = {a, b, c}
    TaskPreds <- MCTaskPreds
    NoNode = none
    MaxEvents = 4
    Faults = {"build_account_facts", "market_trend", "bear_rebuttal", "compose_decision", "persist_decision"}
    Raising = {"ai_policy_assessment"}
    MaxTime = 1
    Jobs = {j1, j2}
    NumQueries = 1
    MaxAttempts = 3
    MaxClock = 4
    MayFail = TRUE
CHECK_DEADLOCK FALSE
INVARIANTS PublicDataIsOfTheDate DateIsPushedOnce NoFactsNoDecision
    NoReportIsLost PollingMissesNothing AnswerIsTheRow SavedIsArchived
PROPERTIES ImplementsGraphRun TaskEnds JobEnds
