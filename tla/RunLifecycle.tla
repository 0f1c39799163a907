----------------------------- MODULE RunLifecycle -----------------------------
(***************************************************************************)
(* What a reader of one pm_daily_loop_runs document may rely on: the run   *)
(* is created once, its list of steps only grows, one step at a time and   *)
(* in the fixed order, and it becomes terminal at most once, with every    *)
(* step in the list and a status that fits them.  A run may also be left   *)
(* running for ever: nothing here promises that it ends.                   *)
(***************************************************************************)
EXTENDS Naturals, Sequences

CONSTANTS
    StepOrder,     \* names of the steps, in the order of the loop
    MainSteps      \* the steps without which a run has achieved nothing

VARIABLES
    runStatus,     \* status of the document
    runSteps       \* its steps, records of a name, a status and a link

vars == <<runStatus, runSteps>>

StepStatuses == {"success", "failed", "skipped"}
RunStatuses == {"success", "partial_success", "failed"}

(* A record for the n-th step; linked says that it left the id of a sub-run. *)
StepRecords(n) == [step : {StepOrder[n]}, status : StepStatuses, linked : BOOLEAN]

(* The names of the steps with a given status. *)
Having(s, steps) == {steps[i].step : i \in {j \in DOMAIN steps : steps[j].status = s}}

(* What a terminal status says of the steps. *)
Fits(status, steps) ==
    /\ status = "success" => /\ Having("failed", steps) = {}
                             /\ Having("success", steps) \intersect MainSteps # {}
    /\ status = "partial_success" => /\ Having("failed", steps) # {}
                                     /\ Having("success", steps) \intersect MainSteps # {}
    /\ status = "failed" => \/ Having("success", steps) \intersect MainSteps = {}
                            \/ {"watchtower", "portfolio_report"} \subseteq Having("failed", steps)

Init == runStatus = "absent" /\ runSteps = <<>>

Create ==
    /\ runStatus = "absent"
    /\ runStatus' = "running"
    /\ UNCHANGED runSteps

(* The list grows by the record of the next step. *)
Grow ==
    /\ runStatus = "running"
    /\ Len(runSteps) < Len(StepOrder)
    /\ \E r \in StepRecords(Len(runSteps) + 1) : runSteps' = Append(runSteps, r)

Record == Grow /\ UNCHANGED runStatus

Finish ==
    /\ Grow
    /\ Len(runSteps') = Len(StepOrder)
    /\ runStatus' \in RunStatuses
    /\ Fits(runStatus', runSteps')

Next == Create \/ Record \/ Finish

Spec == Init /\ [][Next]_vars
=============================================================================
