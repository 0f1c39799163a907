----------------------------- MODULE ReportAgents -----------------------------
(***************************************************************************)
(* The agents that write a report in one pass: daily review, trade review, *)
(* risk assessment and position analysis (agents/*/agent.py).  A run is a  *)
(* thread of the task service, of a request or of the daily loop.  It      *)
(* reads its data, asks the model through the structured output runtime,   *)
(* stores a document and pushes a notification.                            *)
(*                                                                         *)
(* What the runs share is in the memory of the process, and a restart      *)
(* loses it: the daily review's cache of public data, which is a value and *)
(* a date in two module variables, and the notification service's set of   *)
(* the review dates it has sent.  A value of public data is known by the   *)
(* date it was fetched for.  The translation of a report has no effect but *)
(* on its text and is left out, as is every exception that is swallowed.   *)
(***************************************************************************)
EXTENDS StructuredOutput, RiskReport

CONSTANTS
    Runs,
    Kinds,        \* the agents that run: "daily_review", "trade_review",
                  \* "risk_assessment" or "position_analysis"
    Dates,        \* report dates of daily reviews
    Portfolios,   \* what a risk assessment may find
    NoValue,      \* "", None or {}
    MaxRestarts   \* bound on the restarts of the process

VARIABLES
    kind,         \* per run: its agent
    about,        \*   the date or the portfolio it is about
    at,           \*   where it is
    out,          \*   its use of the runtime
    context,      \*   the public data it has: a date
    cache,        \* _longbridge_cache
    cacheDate,    \* _longbridge_cache_date
    reviews,      \* daily_position_reviews: a row per date
    reports,      \* the tables whose rows have fresh ids
    sent,         \* _recently_sent_reviews
    pushes,       \* per date: how often its review was handed to the notifier
    restarts,
    mixed,        \* whether fetches of different dates have overlapped
    raced         \* the dates of which two runs were in the notifier at once

local == <<kind, about>>
public == <<context, cache, cacheDate, mixed>>
stored == <<reviews, reports>>
pushed == <<sent, pushes, raced>>
vars == <<local, at, out, public, stored, pushed, restarts>>

Ended == {"done", "skipped", "failed", "killed"}
Active(r) == at[r] \notin Ended \union {"idle"}
Goto(r, place) == at' = [at EXCEPT ![r] = place]

Contract == [repairEnabled |-> TRUE, maxRepairAttempts |-> 1, builder |-> "fits"]

Init ==
    /\ kind \in [Runs -> Kinds]
    /\ about = [r \in Runs |-> NoValue]
    /\ at = [r \in Runs |-> "idle"]
    /\ out = [r \in Runs |-> Fresh]
    /\ context = [r \in Runs |-> NoValue]
    /\ cache = NoValue /\ cacheDate = NoValue /\ mixed = FALSE
    /\ reviews = [d \in Dates |-> NoValue] /\ reports = {}
    /\ sent = {} /\ pushes = [d \in Dates |-> 0] /\ raced = {}
    /\ restarts = 0

Subjects(k) ==
    CASE k = "daily_review" -> Dates
      [] k = "risk_assessment" -> Portfolios
      [] OTHER -> {NoValue}

(* A run is called, and reads the account and the positions.  Without an   *)
(* account (for the position analysis: or without positions) it returns    *)
(* and stores nothing; the analysis asks only a model that has a key.      *)
Load(r) ==
    /\ at[r] = "idle"
    /\ \E s \in Subjects(kind[r]) : about' = [about EXCEPT ![r] = s]
    /\ CASE kind[r] = "daily_review" -> Goto(r, "cache") \/ Goto(r, "skipped")
         [] kind[r] = "position_analysis" -> Goto(r, "chat") \/ Goto(r, "save") \/ Goto(r, "skipped")
         [] OTHER -> Goto(r, "ask")
    /\ UNCHANGED <<kind, out, public, stored, pushed, restarts>>

Fetching(r, places) == \E q \in Runs \ {r} : at[q] \in places /\ about[q] # about[r]

(* A plausible bug, used as a mutant only: the date is not compared.       *)
LookUp_AnyDate(r) ==
    /\ at[r] = "cache"
    /\ Goto(r, IF cache # NoValue THEN "reuse" ELSE "fetch")
    /\ mixed' = (mixed \/ Fetching(r, {"stamp"}))
    /\ UNCHANGED <<local, out, context, cache, cacheDate, stored, pushed, restarts>>

(* "Use cache if same date"                                                *)
LookUp(r) ==
    /\ at[r] = "cache"
    /\ Goto(r, IF cacheDate = about[r] /\ cache # NoValue THEN "reuse" ELSE "fetch")
    /\ mixed' = (mixed \/ Fetching(r, {"stamp"}))
    /\ UNCHANGED <<local, out, context, cache, cacheDate, stored, pushed, restarts>>

(* return _longbridge_cache                                                *)
Reuse(r) ==
    /\ at[r] = "reuse"
    /\ context' = [context EXCEPT ![r] = cache]
    /\ Goto(r, "ask")
    /\ UNCHANGED <<local, out, cache, cacheDate, mixed, stored, pushed, restarts>>

(* The data is fetched, or the client is unavailable and nothing is kept.  *)
Fetch(r) ==
    /\ at[r] = "fetch"
    /\ \/ context' = [context EXCEPT ![r] = about[r]] /\ Goto(r, "keep")
       \/ UNCHANGED context /\ Goto(r, "ask")
    /\ UNCHANGED <<local, out, cache, cacheDate, mixed, stored, pushed, restarts>>

(* _longbridge_cache = result                                              *)
Keep(r) ==
    /\ at[r] = "keep"
    /\ cache' = context[r]
    /\ mixed' = (mixed \/ Fetching(r, {"reuse", "stamp"}))
    /\ Goto(r, "stamp")
    /\ UNCHANGED <<local, out, context, cacheDate, stored, pushed, restarts>>

(* _longbridge_cache_date = report_date                                    *)
Stamp(r) ==
    /\ at[r] = "stamp"
    /\ cacheDate' = about[r]
    /\ Goto(r, "ask")
    /\ UNCHANGED <<local, out, context, cache, mixed, stored, pushed, restarts>>

(* The trade review writes its report files before it stores the review.   *)
AfterModel(r) == IF kind[r] = "trade_review" THEN "files" ELSE "save"

Ask(r) ==
    /\ at[r] = "ask"
    /\ \E answer \in Answers :
          out' = [out EXCEPT ![r] = IF @.stage = "generate" THEN Generate(@, Contract, answer)
                                    ELSE Repair(@, Contract, answer)]
    /\ Goto(r, IF out'[r].stage = "done" THEN AfterModel(r) ELSE "ask")
    /\ UNCHANGED <<local, public, stored, pushed, restarts>>

(* The position analysis asks once and scores by itself when the answer is *)
(* not JSON with a score_detail.                                           *)
Chat(r) ==
    /\ at[r] = "chat"
    /\ \E answer \in Answers :
          out' = [out EXCEPT ![r] = Done(@, IF answer = "fits" THEN "model" ELSE "none")]
    /\ Goto(r, "save")
    /\ UNCHANGED <<local, public, stored, pushed, restarts>>

(* save_report is not guarded.                                             *)
WriteFiles(r) ==
    /\ at[r] = "files"
    /\ Goto(r, "save") \/ Goto(r, "failed")
    /\ UNCHANGED <<local, out, public, stored, pushed, restarts>>

(* What a report says: the model's text, a payload the runtime has built,  *)
(* or one the agent builds when the runtime fails.                         *)
Text(r) == IF out[r].ok THEN out[r].payload ELSE "agent"

Document(r) ==
    [run           |-> r,
     text          |-> Text(r),
     fallback_used |-> kind[r] # "position_analysis" /\ ~out[r].ok,
     public        |-> context[r],
     stress_test   |-> IF kind[r] = "risk_assessment" THEN StressTest(about[r]) ELSE NoValue]

AfterSave(r) == IF kind[r] = "risk_assessment" THEN "done" ELSE "notify"

(* The daily review's row has the id of its date, the others a fresh one.  *)
(* The write may raise, and the run with it.                               *)
Save(r) ==
    /\ at[r] = "save"
    /\ \/ /\ IF kind[r] = "daily_review"
             THEN reviews' = [reviews EXCEPT ![about[r]] = Document(r)] /\ UNCHANGED reports
             ELSE reports' = reports \union {Document(r)} /\ UNCHANGED reviews
          /\ Goto(r, AfterSave(r))
       \/ UNCHANGED stored /\ Goto(r, "failed")
    /\ UNCHANGED <<local, out, public, pushed, restarts>>

Notifying(d) == {r \in Runs : kind[r] = "daily_review" /\ at[r] \in {"send", "sent"} /\ about[r] = d}

(* notify_daily_review_completed: a date that was sent is skipped, and a   *)
(* review whose text says that there is no data.                           *)
Notify(r) ==
    /\ at[r] = "notify"
    /\ \/ kind[r] # "daily_review" /\ Goto(r, "done") /\ UNCHANGED raced
       \/ /\ kind[r] = "daily_review" /\ about[r] \notin sent
          /\ Goto(r, "send")
          /\ raced' = IF Notifying(about[r]) = {} THEN raced ELSE raced \union {about[r]}
       \/ kind[r] = "daily_review" /\ Goto(r, "done") /\ UNCHANGED raced
    /\ UNCHANGED <<local, out, public, stored, sent, pushes, restarts>>

(* _send swallows what goes wrong: delivered or lost, the run goes on.     *)
Send(r) ==
    /\ at[r] = "send"
    /\ pushes' = [pushes EXCEPT ![about[r]] = @ + 1]
    /\ Goto(r, "sent")
    /\ UNCHANGED <<local, out, public, stored, sent, raced, restarts>>

(* A plausible bug, used as a mutant only: the date is not remembered.     *)
Remember_Forgotten(r) ==
    /\ at[r] = "sent"
    /\ Goto(r, "done")
    /\ UNCHANGED <<local, out, public, stored, pushed, restarts>>

(* _recently_sent_reviews.add(report_date)                                 *)
Remember(r) ==
    /\ at[r] = "sent"
    /\ sent' = sent \union {about[r]}
    /\ Goto(r, "done")
    /\ UNCHANGED <<local, out, public, stored, pushes, raced, restarts>>

(* The process restarts: its runs die, its memory is lost.                 *)
Restart ==
    /\ restarts < MaxRestarts
    /\ \E r \in Runs : at[r] # "idle"
    /\ restarts' = restarts + 1
    /\ at' = [r \in Runs |-> IF Active(r) THEN "killed" ELSE at[r]]
    /\ cache' = NoValue /\ cacheDate' = NoValue /\ sent' = {}
    /\ UNCHANGED <<local, out, context, mixed, stored, pushes, raced>>

Step(r) ==
    \/ LookUp(r) \/ Reuse(r) \/ Fetch(r) \/ Keep(r) \/ Stamp(r)
    \/ Ask(r) \/ Chat(r) \/ WriteFiles(r) \/ Save(r)
    \/ Notify(r) \/ Send(r) \/ Remember(r)

Next == Restart \/ \E r \in Runs : Load(r) \/ Step(r)

(* A thread goes on; nothing makes anybody start a run.                    *)
Spec == Init /\ [][Next]_vars /\ \A r \in Runs : WF_vars(Step(r))

-----------------------------------------------------------------------------
(* Unless fetches of different dates have overlapped, a stored review has  *)
(* public data of its own date or none: the cache is two variables, which  *)
(* are compared, read and written one by one (daily_review/agent.py:40-130).*)
PublicDataIsOfTheDate ==
    mixed \/ \A d \in Dates : reviews[d] # NoValue => reviews[d].public \in {d, NoValue}

(* In the life of a process the review of a date is pushed once however    *)
(* often it is generated, unless two runs of the date were in the notifier *)
(* at once (notification_service.py:57-101).                               *)
DateIsPushedOnce ==
    \A d \in Dates \ raced : pushes[d] <= 1 + restarts

(* The table of docs/docs/agents/risk-assessment.md:150-161: a portfolio   *)
(* that loses more than 20% in the worst scenario has a stress score of 15.*)
WorstCaseIsScored ==
    \A d \in {e \in reports : kind[e.run] = "risk_assessment"} :
        LET p == about[d.run]
        IN  WorstCase(Total(p.rows, "position_value"), Largest(p.rows, "position_value"), p.equity) > 200
            => d.stress_test = 15
=============================================================================
