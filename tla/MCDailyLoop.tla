----------------------------- MODULE MCDailyLoop -----------------------------
(***************************************************************************)
(* The daily loop: what one run does, who starts the runs of a date, and   *)
(* who sends the alerts of a run.  The three share no state, so each is    *)
(* checked by itself: part says which of them moves in a behavior, and the *)
(* others stay where they begin.                                           *)
(***************************************************************************)
EXTENDS DailyLoop

CONSTANTS
    Triggers, Window, MayForce,                   \* of DailyLoopSchedule,
    Senders, NumAlerts,                           \* of ActionAlerts,
    MayDie                                        \* and of both

ASSUME WindowAssumption == Window \in Nat \ {0}
ASSUME NumAlertsAssumption == NumAlerts \in Nat
ASSUME MayDieAssumption == MayForce \in BOOLEAN /\ MayDie \in BOOLEAN

VARIABLES
    part,
    runs, fresh, trigger, kind, forced, seen, found,
    linked, alert, sender, pos, mine, unmarked, digest, known

(* What the scheduler asks for, the manual default, a run that reviews     *)
(* without a scan, one that scans without a report, and everything.        *)
Main == {"sync_holdings", "watchtower", "auto_decision", "portfolio_report"}
MCOptionSets == {Main \union {"daily_review"},
                 Main \ {"watchtower"},
                 {"watchtower", "auto_decision", "evaluation"},
                 Main \union {"daily_review", "evaluation", "improvement"}}

Schedule == INSTANCE DailyLoopSchedule WITH phase <- trigger

Sending == INSTANCE ActionAlerts WITH phase <- sender

schedule == <<runs, fresh, trigger, kind, forced, seen, found>>
sending == <<linked, alert, sender, pos, mine, unmarked, digest, known>>
all == <<part, vars, schedule, sending>>

(* The run that nobody drives is as the scheduler asks for it.             *)
MCInit ==
    /\ part \in {"run", "schedule", "alerts"}
    /\ Init /\ Schedule!Init /\ Sending!Init
    /\ part # "run" =>
          mode = "direct" /\ llmReady /\ wanted = CHOOSE o \in OptionSets : TRUE

LoopStep == part = "run" /\ Next /\ UNCHANGED <<part, schedule, sending>>
ScheduleStep == part = "schedule" /\ Schedule!Next /\ UNCHANGED <<part, vars, sending>>
AlertStep == part = "alerts" /\ Sending!Next /\ UNCHANGED <<part, vars, schedule>>

(* All senders have ended.                                                 *)
AlertsEnd ==
    /\ part = "alerts"
    /\ linked /\ \A s \in Senders : sender[s] \in {"done", "dead"}
    /\ UNCHANGED all

MCNext == LoopStep \/ ScheduleStep \/ AlertStep \/ AlertsEnd

(* The threads of the part that moves go on: see FairSpec of each.         *)
MCFairness ==
    /\ WF_vars(part = "run" /\ Advance)
    /\ \A t \in Triggers : WF_schedule(part = "schedule" /\ Schedule!Advance(t))
    /\ \A s \in Senders : WF_sending(part = "alerts" /\ Sending!Work(s))

MCSpec == MCInit /\ [][MCNext]_all /\ MCFairness

(* See RunEnds in DailyLoop.                                               *)
LoopEnds == part = "run" => RunEnds

(* See DuplicateNeedsAnExcuse and SkippedForARunThatEnds in                *)
(* DailyLoopSchedule.                                                      *)
DuplicateNeedsAnExcuse == Schedule!DuplicateNeedsAnExcuse
SkippedForARunThatEnds == part = "schedule" => Schedule!SkippedForARunThatEnds

(* See PendingHasAnOwner and PendingIsSent in ActionAlerts.                *)
PendingHasAnOwner == Sending!PendingHasAnOwner
PendingIsSent == part = "alerts" => Sending!PendingIsSent
=============================================================================
