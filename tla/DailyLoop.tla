------------------------------ MODULE DailyLoop ------------------------------
(***************************************************************************)
(* One run of the portfolio manager's daily loop: the document of the run  *)
(* (domains/portfolio_manager/daily_loop/service.py) and, for a run in the *)
(* background, the agent task that reports it (daily_loop/runner.py and    *)
(* api/routes.py).                                                         *)
(*                                                                         *)
(* One thread drives the run, and nobody else writes these two documents,  *)
(* so a read-modify-write of a document is one action.  Between any two    *)
(* writes the process may be killed, and any write may raise.  A run in    *)
(* the background reports the beginning and the end of every node of its   *)
(* progress graph (daily_loop/task_progress.py), and each report is a      *)
(* write of the task.  A direct run is one that a request handler or the   *)
(* scheduler thread executes: it has no task and reports no progress.      *)
(***************************************************************************)
EXTENDS Naturals, Sequences

CONSTANTS
    OptionSets,   \* the sets of steps that callers ask for
    MayRaise,     \* whether a write, or the set-up of the analyses, may raise
    MayCrash      \* whether the process may be killed

ASSUME SwitchesAssumption == MayRaise \in BOOLEAN /\ MayCrash \in BOOLEAN

VARIABLES
    mode,         \* "background" or "direct"
    wanted,       \* the steps the caller asked for
    llmReady,     \* whether the service was given a model client and a database
    phase,        \* how far the driving thread has come
    steps,        \* the steps it has executed, in its memory
    runStatus,    \* the run document: its status,
    runSteps,     \*   its steps,
    runLinks,     \*   and the steps whose sub-run it links
    taskStatus,   \* the agent task: its status,
    graphStatus,  \*   the status of its progress graph
    nodes         \*   and the status of each node of that

config == <<mode, wanted, llmReady>>
run == <<runStatus, runSteps, runLinks>>
graph == <<graphStatus, nodes>>
task == <<taskStatus, graph>>
vars == <<mode, wanted, llmReady, phase, steps, runStatus, runSteps, runLinks,
          taskStatus, graphStatus, nodes>>

StepOrder == <<"sync_holdings", "watchtower", "auto_decision", "portfolio_report",
               "daily_review", "evaluation", "improvement">>
MainSteps == {"sync_holdings", "watchtower", "auto_decision", "portfolio_report"}

(* DAILY_LOOP_GRAPH_NODES                                                  *)
Nodes == {StepOrder[i] : i \in DOMAIN StepOrder} \union {"init", "completed"}

ASSUME OptionSetsAssumption ==
    \A o \in OptionSets : o \subseteq {StepOrder[i] : i \in DOMAIN StepOrder}

Lifecycle == INSTANCE RunLifecycle WITH
    StepOrder <- StepOrder, MainSteps <- MainSteps, runStatus <- runStatus, runSteps <- runSteps

(* The phases in which an exception ends the thread, those in which the    *)
(* runner's except clause receives it, and those in which nothing is left  *)
(* to do.                                                                  *)
Exposed == {"request", "shell", "queued", "pending", "rescue", "rescued"}
Protected == {"marked", "begun", "init", "loop", "step", "report", "patch", "completing",
              "completed", "final", "ran", "synced"}
Over == {"done", "lost", "killed", "restarted"}

Init ==
    /\ mode \in {"background", "direct"}
    /\ wanted \in OptionSets
    /\ llmReady \in BOOLEAN
    /\ phase = "request"
    /\ steps = <<>>
    /\ runStatus = "absent" /\ runSteps = <<>> /\ runLinks = {}
    /\ taskStatus = "absent" /\ graphStatus = "none"
    /\ nodes = [n \in Nodes |-> "pending"]

-----------------------------------------------------------------------------
(* Starting a run.                                                         *)

(* A background request first stores the document, so it can return its id. *)
CreateShell ==
    /\ phase = "request" /\ mode = "background"
    /\ runStatus' = "running"
    /\ phase' = "shell"
    /\ UNCHANGED <<config, steps, runSteps, runLinks, task>>

CreateTask ==
    /\ phase = "shell"
    /\ taskStatus' = "queued"
    /\ phase' = "queued"
    /\ UNCHANGED <<config, steps, run, graph>>

(* init_graph_progress, attach_task and the hand-over to the background task. *)
InitProgress ==
    /\ phase = "queued"
    /\ graphStatus' = "pending"
    /\ nodes' = [n \in Nodes |-> "pending"]
    /\ phase' = "pending"
    /\ UNCHANGED <<config, steps, run, taskStatus>>

(* The runner's first write, before its try block. *)
MarkRunning ==
    /\ phase = "pending"
    /\ taskStatus' = "running"
    /\ phase' = "marked"
    /\ UNCHANGED <<config, steps, run, graph>>

(* run_daily_loop creates the document of a direct run and reopens a shell. *)
StartRun ==
    /\ \/ phase = "request" /\ mode = "direct"
       \/ phase = "marked"
    /\ runStatus' = "running"
    /\ phase' = IF mode = "background" THEN "begun" ELSE "loop"
    /\ UNCHANGED <<config, steps, runSteps, runLinks, task>>

-----------------------------------------------------------------------------
(* The steps.                                                              *)

(* The steps that left the id of a sub-run. *)
Links(ss) == {ss[i].step : i \in {j \in DOMAIN ss : ss[j].linked}}

(* The runner does not pass generate_daily_review on, so a background run  *)
(* has its default, true.                                                  *)
Enabled(s) ==
    CASE s = "auto_decision" -> s \in wanted /\ "watchtower" \in Links(steps)
      [] s = "daily_review" -> (s \in wanted \/ mode = "background") /\ llmReady
      [] OTHER -> s \in wanted

(* What an executed step may report.  A review finds no data and then has  *)
(* no document; auto decisions fail with a document or by an exception.    *)
Reports(s) ==
    {[step |-> s, status |-> "failed", linked |-> FALSE]}
    \union (IF s \in {"sync_holdings", "daily_review", "evaluation"}
              THEN {[step |-> s, status |-> "success", linked |-> FALSE]} ELSE {})
    \union (IF s \in {"sync_holdings", "evaluation"}
              THEN {} ELSE {[step |-> s, status |-> "success", linked |-> TRUE]})
    \union (IF s = "auto_decision"
              THEN {[step |-> s, status |-> "failed", linked |-> TRUE]} ELSE {})

(* _run_step: every exception of the step itself becomes a failed step, and *)
(* so does one of the report that it succeeded.                            *)
RunStep ==
    /\ phase = IF mode = "background" THEN "step" ELSE "loop"
    /\ LET s == StepOrder[Len(steps) + 1]
       IN \E r \in IF Enabled(s) THEN Reports(s)
                   ELSE {[step |-> s, status |-> "skipped", linked |-> FALSE]} :
             steps' = Append(steps, r)
    /\ phase' = IF mode = "background" THEN "report"
                ELSE IF Len(steps) + 1 = Len(StepOrder) THEN "final" ELSE "patch"
    /\ UNCHANGED <<config, run, task>>

(* Mutant of PatchProgress: a skipped step is not worth a write. *)
PatchProgress_OnlyRun ==
    /\ phase = "patch"
    /\ IF steps[Len(steps)].status = "skipped"
         THEN UNCHANGED <<runSteps, runLinks>>
         ELSE runSteps' = steps /\ runLinks' = Links(steps)
    /\ phase' = "loop"
    /\ UNCHANGED <<config, steps, runStatus, task>>

(* The document receives what the memory holds, after every step but the last. *)
PatchProgress ==
    /\ phase = "patch"
    /\ runSteps' = steps
    /\ runLinks' = Links(steps)
    /\ phase' = "loop"
    /\ UNCHANGED <<config, steps, runStatus, task>>

Statuses(names) == {steps[i].status : i \in {j \in DOMAIN steps : steps[j].step \in names}}

(* Mutant of OverallStatus: only failures of main steps count. *)
OverallStatus_MainOnly ==
    IF \/ "success" \notin Statuses(MainSteps)
       \/ Statuses({"watchtower", "portfolio_report"}) = {"failed"}
      THEN "failed"
      ELSE IF "failed" \in Statuses(MainSteps) THEN "partial_success" ELSE "success"

(* _overall_status *)
OverallStatus ==
    IF \/ "success" \notin Statuses(MainSteps)
       \/ Statuses({"watchtower", "portfolio_report"}) = {"failed"}
      THEN "failed"
      ELSE IF "failed" \in Statuses({StepOrder[i] : i \in DOMAIN StepOrder})
             THEN "partial_success" ELSE "success"

-----------------------------------------------------------------------------
(* The reports of a background run.                                        *)

(* _infer_graph_status: a failed node counts first, then a running one.    *)
Inferred(ns) ==
    LET statuses == {ns[n] : n \in Nodes}
    IN  IF "failed" \in statuses THEN "failed"
        ELSE IF "running" \in statuses THEN "running"
        ELSE IF "pending" \in statuses THEN "pending" ELSE "success"

(* The node that is reported next. *)
Node ==
    CASE phase \in {"begun", "init"} -> "init"
      [] phase \in {"loop", "step"} -> StepOrder[Len(steps) + 1]
      [] phase = "report" -> steps[Len(steps)].step
      [] OTHER -> "completed"

(* progress.started, mark_node_running: the graph runs, whatever failed.   *)
ReportStart ==
    /\ mode = "background" /\ phase \in {"begun", "loop", "completing"}
    /\ nodes' = [nodes EXCEPT ![Node] = "running"]
    /\ graphStatus' = "running"
    /\ phase' = CASE phase = "begun" -> "init"
                  [] phase = "loop" -> "step"
                  [] OTHER -> "completed"
    /\ UNCHANGED <<config, steps, run, taskStatus>>

NodeResult ==
    CASE phase = "init" -> "success"
      [] phase = "report" -> steps[Len(steps)].status
      [] OTHER -> IF OverallStatus = "failed" THEN "failed" ELSE "success"

(* progress.finished, mark_node_finished.  The last node is reported       *)
(* before the run is stored.                                               *)
ReportEnd ==
    /\ phase \in {"init", "report", "completed"}
    /\ nodes' = [nodes EXCEPT ![Node] = NodeResult]
    /\ graphStatus' = Inferred(nodes')
    /\ phase' = CASE phase = "init" -> "loop"
                  [] phase = "report" /\ Len(steps) < Len(StepOrder) -> "patch"
                  [] phase = "report" /\ Len(steps) = Len(StepOrder) -> "completing"
                  [] OTHER -> "final"
    /\ UNCHANGED <<config, steps, run, taskStatus>>

(* The last write of run_daily_loop, which stores the seventh step too. *)
FinishRun ==
    /\ phase = "final"
    /\ runStatus' = OverallStatus
    /\ runSteps' = steps
    /\ runLinks' = Links(steps)
    /\ phase' = IF mode = "background" THEN "ran" ELSE "done"
    /\ UNCHANGED <<config, steps, task>>

-----------------------------------------------------------------------------
(* The end of a background run.  Action alerts and analyses come first;    *)
(* they leave the modelled fields of both documents alone.                 *)

(* sync_graph_from_run_trace with the final status of the run and no trace. *)
SyncGraph ==
    /\ phase = "ran"
    /\ graphStatus' = CASE runStatus = "success" -> "success"
                        [] runStatus = "partial_success" -> "fallback"
                        [] OTHER -> "failed"
    /\ phase' = "synced"
    /\ UNCHANGED <<config, steps, run, taskStatus, nodes>>

(* Mutant of SettleTask: the status of the run is not looked at. *)
SettleTask_AlwaysCompleted ==
    /\ phase = "synced"
    /\ taskStatus' = "completed"
    /\ phase' = "done"
    /\ UNCHANGED <<config, steps, run, graph>>

(* Mutant of SettleTask: partial success is neither completed nor failed. *)
SettleTask_ForgetsPartial ==
    /\ phase = "synced"
    /\ taskStatus' = CASE runStatus = "failed" -> "failed"
                       [] runStatus = "success" -> "completed"
                       [] OTHER -> taskStatus
    /\ phase' = "done"
    /\ UNCHANGED <<config, steps, run, graph>>

(* mark_failed or mark_completed. *)
SettleTask ==
    /\ phase = "synced"
    /\ taskStatus' = IF runStatus = "failed" THEN "failed" ELSE "completed"
    /\ phase' = "done"
    /\ UNCHANGED <<config, steps, run, graph>>

(* The except clause: mark_graph_failed, then mark_failed. *)
MarkGraphFailed ==
    /\ phase = "rescue"
    /\ graphStatus' = "failed"
    /\ nodes' = [n \in Nodes |-> IF nodes[n] = "running" THEN "failed" ELSE nodes[n]]
    /\ phase' = "rescued"
    /\ UNCHANGED <<config, steps, run, taskStatus>>

MarkFailed ==
    /\ phase = "rescued"
    /\ taskStatus' = "failed"
    /\ phase' = "done"
    /\ UNCHANGED <<config, steps, run, graph>>

-----------------------------------------------------------------------------
(* What goes wrong.                                                        *)

(* The write that is due raises.  A direct run writes nothing when it      *)
(* enters a step, and has no except clause.  In a step nothing raises: see *)
(* RunStep, also for the report of one that succeeded.                     *)
Raises ==
    /\ MayRaise
    /\ phase \in Exposed \union (Protected \ {"step"})
    /\ mode = "direct" => phase # "loop"
    /\ phase = "report" => \/ steps[Len(steps)].status = "skipped"
                           \/ steps[Len(steps)].status = "failed" /\ ~steps[Len(steps)].linked
    /\ phase' = IF mode = "background" /\ phase \in Protected THEN "rescue" ELSE "lost"
    /\ UNCHANGED <<config, steps, run, task>>

Crash ==
    /\ MayCrash
    /\ phase \notin Over
    /\ phase' = "killed"
    /\ steps' = <<>>
    /\ UNCHANGED <<config, run, task>>

(* main.lifespan: neither runs nor tasks are looked at when the backend    *)
(* starts; mark_stale_tasks_failed has no caller, and the update_by_query  *)
(* it relies on updates nothing.                                           *)
Restart ==
    /\ phase = "killed"
    /\ phase' = "restarted"
    /\ UNCHANGED <<config, steps, run, task>>

Finished == phase \in Over \ {"killed"} /\ UNCHANGED vars

Advance ==
    \/ CreateShell \/ CreateTask \/ InitProgress \/ MarkRunning \/ StartRun
    \/ RunStep \/ PatchProgress \/ ReportStart \/ ReportEnd \/ FinishRun
    \/ SyncGraph \/ SettleTask \/ MarkGraphFailed \/ MarkFailed

Next == Advance \/ Raises \/ Crash \/ Restart \/ Finished

Spec == Init /\ [][Next]_vars

(* The thread is scheduled, and every step ends: its calls have timeouts. *)
FairSpec == Spec /\ WF_vars(Advance)

-----------------------------------------------------------------------------
(* Documents and phases keep their types; the lists follow the step order. *)
TypeOK ==
    /\ mode \in {"background", "direct"}
    /\ wanted \in OptionSets
    /\ llmReady \in BOOLEAN
    /\ phase \in Exposed \union Protected \union Over
    /\ \A ss \in {steps, runSteps} :
          /\ Len(ss) <= Len(StepOrder)
          /\ \A i \in 1 .. Len(ss) : ss[i] \in Lifecycle!StepRecords(i)
    /\ runStatus \in {"absent", "running"} \union Lifecycle!RunStatuses
    /\ runLinks \subseteq {StepOrder[i] : i \in DOMAIN StepOrder}
    /\ taskStatus \in {"absent", "queued", "running", "completed", "failed"}
    /\ graphStatus \in {"none", "pending", "running", "success", "fallback", "failed"}
    /\ nodes \in [Nodes -> {"pending", "running", "success", "failed", "skipped"}]

(* The document is an honest and recent history: it is created once, its   *)
(* steps only ever grow by the next one, and it ends at most once, whole   *)
(* and with a status its steps justify, whatever raises or is killed and   *)
(* although the final write stores everything anew (service.py:142-149,    *)
(* 253-266, 384-393).                                                      *)
DocumentIsAppendOnly == Lifecycle!Spec

(* Decisions are only taken on a scan of this run that a reader can find:  *)
(* while auto_decision runs, and for ever after, the document links the    *)
(* watchtower run it used, even if the process dies in the middle          *)
(* (service.py:166-186).                                                   *)
DecisionsHaveAScan ==
    /\ \A i \in DOMAIN steps : steps[i].step = "auto_decision" /\ steps[i].status # "skipped"
                                 => "watchtower" \in runLinks
    /\ "auto_decision" \in runLinks => "watchtower" \in runLinks

(* A run called a success did everything it was asked to do: no step that  *)
(* was wanted is missing, except a review that had no model client and     *)
(* decisions that had no scan because the caller did not want one          *)
(* (service.py:171-172, 210-216, 420-432).                                 *)
SuccessDidEverything ==
    runStatus = "success" =>
        \A s \in wanted :
            \/ \E i \in DOMAIN runSteps : runSteps[i].step = s /\ runSteps[i].status = "success"
            \/ s = "daily_review" /\ ~llmReady
            \/ s = "auto_decision" /\ "watchtower" \notin wanted

(* The task of a background run tells the truth about it: completed means  *)
(* that the run was stored as a success or a partial success and the graph *)
(* says the same, and a failed task has a failed graph.  The graph itself  *)
(* is rewritten by every report, and its last report precedes the last     *)
(* write of the run: a graph that shows a success belongs to a run that is *)
(* one, or that lacks only this write, and in which no step has failed;    *)
(* one that shows a fallback belongs to a partial success                  *)
(* (service.py:251-253, runner.py:70-78).                                  *)
TaskTellsTheRun ==
    /\ taskStatus = "completed" =>
          \/ runStatus = "success" /\ graphStatus = "success"
          \/ runStatus = "partial_success" /\ graphStatus = "fallback"
    /\ taskStatus = "failed" => graphStatus = "failed"
    /\ graphStatus = "success" =>
          /\ \/ runStatus = "success"
             \/ runStatus = "running" /\ Len(runSteps) = Len(StepOrder) - 1
          /\ \A i \in DOMAIN runSteps : runSteps[i].status # "failed"
    /\ graphStatus = "fallback" => runStatus = "partial_success"

(* As long as nothing kills the process, every exception inside the run    *)
(* reaches the except clause: once the runner has started, its task stays  *)
(* running for ever only if the except clause itself raised.  Stated for   *)
(* the instant a thread gives up (runner.py:42, 76-78).                    *)
RunnerSettlesItsTask ==
    [][phase' = "lost" /\ taskStatus = "running" => phase \in {"rescue", "rescued"}]_vars

(* A run that is asked for ends, and so does its task, or the task fails   *)
(* with an exception: no combination of what the steps report leaves the   *)
(* chain unfinished or the task running.  Only a kill, or an exception     *)
(* that gets past the runner, does (service.py:159-267, runner.py:70-78).  *)
RunEnds ==
    <>(\/ /\ runStatus \in Lifecycle!RunStatuses
          /\ mode = "background" => taskStatus \in {"completed", "failed"}
       \/ taskStatus = "failed"
       \/ phase \in {"lost", "killed", "restarted"})
=============================================================================
