--------------------------- MODULE MCBackgroundJobs ---------------------------
(***************************************************************************)
(* The work that goes on in threads of its own: the report agents, the     *)
(* graph that makes a trade decision, the progress report of a graph task, *)
(* and the jobs that fetch Flex statements.  They share no state, so each  *)
(* is checked by itself: part says which of them moves in a behavior, and  *)
(* the others stay where they begin.                                       *)
(***************************************************************************)
EXTENDS TradeGraph, Integers, TLC

CONSTANTS
    TaskNodes, TaskPreds, NoNode, MaxEvents,      \* of TaskProgress
    MayFail,                                      \* whether a node may raise
    Kinds, Dates, Portfolios, NoValue, MaxRestarts,
    Jobs, NumQueries, MaxAttempts, MaxClock       \* of FlexFetch

ASSUME ProgressAssumption == NoNode \notin TaskNodes /\ MaxEvents \in Nat \ {0}
ASSUME FlexAssumption == NumQueries \in Nat \ {0} /\ MaxClock \in Nat

VARIABLES
    part,
    taskDoc, copy, lock, threads, outcome, runner, cursor, heard,
    kind, about, at, out, context, cache, cacheDate, reviews, reports, sent, pushes, restarts,
    mixed, raced,
    now, file, ref, jobPhase, scheduled, since, query, attempt, code, result

Position(share) == [position_value |-> share, percent_of_nav |-> share]
Account(lines) == [equity |-> 1000, rows |-> lines]

(* No account, one large position, a spread, and a margin account: in the  *)
(* worst scenario they lose nothing, 24, 14 and 26 percent.                *)
MCPortfolios ==
    {[equity |-> 0, rows |-> <<>>],
     Account(<<Position(800)>>),
     Account(<<Position(300), Position(200), Position(200)>>),
     Account(<<Position(500), Position(400), Position(400)>>)}

(* A node before the others, which run side by side.                       *)
MCTaskPreds ==
    LET first == CHOOSE n \in TaskNodes : TRUE
    IN  [n \in TaskNodes |-> IF n = first THEN {} ELSE {first}]

Progress == INSTANCE TaskProgress WITH
    Nodes <- TaskNodes, Preds <- TaskPreds, MayDie <- MayFail, doc <- taskDoc, phase <- threads

Agents == INSTANCE ReportAgents

Flex == INSTANCE FlexFetch WITH MaxTime <- MaxClock, phase <- jobPhase

progress == <<taskDoc, copy, lock, threads, outcome, runner, cursor, heard>>
agents == <<kind, about, at, out, context, cache, cacheDate, reviews, reports, sent, pushes, restarts,
            mixed, raced>>
flex == <<now, file, ref, jobPhase, scheduled, since, query, attempt, code, result>>
all == <<part, vars, progress, agents, flex>>

MCInit ==
    /\ part \in {"reports", "progress", "graph", "flex"}
    /\ Init /\ Progress!Init /\ Agents!Init /\ Flex!Init
    /\ part # "reports" => kind = [r \in Runs |-> "daily_review"]

ReportStep == part = "reports" /\ Agents!Next /\ UNCHANGED <<part, vars, progress, flex>>
ProgressStep == part = "progress" /\ Progress!Next /\ UNCHANGED <<part, vars, agents, flex>>
GraphStep == part = "graph" /\ Next /\ UNCHANGED <<part, progress, agents, flex>>
FlexStep == part = "flex" /\ Flex!Next /\ UNCHANGED <<part, vars, progress, agents>>

MCNext == ReportStep \/ ProgressStep \/ GraphStep \/ FlexStep

(* The threads of the progress report and of the fetch go on, in the       *)
(* behaviors that are theirs.                                              *)
MCFairness ==
    /\ WF_progress(part = "progress" /\ Progress!Run)
    /\ \A n \in TaskNodes : /\ WF_progress(part = "progress" /\ Progress!Begin(n))
                            /\ WF_progress(part = "progress" /\ Progress!Report(n))
    /\ \A j \in Jobs : WF_flex(part = "flex" /\ Flex!Work(j))

MCSpec == MCInit /\ [][MCNext]_all /\ MCFairness

(* See NoReportIsLost, PollingMissesNothing and TaskEnds in TaskProgress.  *)
NoReportIsLost == Progress!NoReportIsLost
PollingMissesNothing == Progress!PollingMissesNothing
TaskEnds == part = "progress" => Progress!TaskEnds

(* See PublicDataIsOfTheDate, DateIsPushedOnce and WorstCaseIsScored in    *)
(* ReportAgents.                                                           *)
PublicDataIsOfTheDate == Agents!PublicDataIsOfTheDate
DateIsPushedOnce == Agents!DateIsPushedOnce
WorstCaseIsScored == Agents!WorstCaseIsScored

(* See SavedIsArchived and JobEnds in FlexFetch.                           *)
SavedIsArchived == Flex!SavedIsArchived
JobEnds == part = "flex" => Flex!JobEnds
=============================================================================
