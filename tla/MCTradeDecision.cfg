SPECIFICATION MCSpec
CONSTANTS
    Packs <- MCPacks
    Answers <- MCAnswers
    Cases <- MCCases
    Cards <- MCCards
    Drafts <- MCDrafts
    Symbols = {s1, s2}
    Loops = {l1}
    Users = {u1}
    Gradings <- MCGradings
    Barred <- MCBarred
    QueueLimit = 3
    MaxRuns = 2
CHECK_DEADLOCK FALSE
INVARIANTS AddMeetsEveryRule BrokenThesisIsLeft ConfidenceIsEarned PlanMovesAsItSays
    AddsAsTheGraphDoes OnePassAddIsEarned DecisionsFitTheScan
