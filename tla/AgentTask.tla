------------------------------ MODULE AgentTask ------------------------------
(***************************************************************************)
(* The agent_tasks table and the threads that write it                     *)
(* (backend/app/services/agent_services.py, class AgentTaskService, and    *)
(* the routes that use it).                                                *)
(*                                                                         *)
(* A task is one row.  It is written by its owner, which is either the     *)
(* background thread of run_in_background or the request handler of one of *)
(* the four "generate" routes, and by any number of callers of the guarded *)
(* operations (cancel_task and its siblings).  A guarded operation reads   *)
(* the row, tests the status it read and then writes with an unconditional *)
(* UPDATE: the read and the write are two database calls, so they are two  *)
(* actions here.                                                           *)
(***************************************************************************)
EXTENDS Naturals

CONSTANTS
    Tasks,        \* ids of the tasks that may be created
    Callers,      \* threads that call the guarded operations
    Ops,          \* per task: the guarded operations they call on it
    DbMayFail,    \* whether a write may raise (database is locked, disk full)
    MaxRestarts   \* bound on the number of backend restarts

Operations == {"start", "complete", "fail", "progress", "cancel"}

ASSUME OpsAssumption == Ops \in [Tasks -> SUBSET Operations]
ASSUME DbMayFailAssumption == DbMayFail \in BOOLEAN
ASSUME MaxRestartsAssumption == MaxRestarts \in Nat

VARIABLES
    status,       \* the status column, "absent" before the INSERT
    hasResult,    \* whether the result column is set
    kind,         \* who owns the task: "background" thread or "inline" handler
    owner,        \* how far the owner has come
    outcome,      \* what the agent function gave the owner
    registered,   \* task ids in _running_tasks
    call,         \* the guarded operation each caller is in the middle of
    restarts

vars == <<status, hasResult, kind, owner, outcome, registered, call, restarts>>

VALID_STATUSES == {"pending", "running", "completed", "failed", "cancelled"}
TERMINAL_STATUSES == {"completed", "failed", "cancelled"}

OwnerStates == {"none", "created", "ready", "executing", "ended", "cleanup",
                "done", "died", "killed"}
Live == {"created", "ready", "executing", "ended", "cleanup"}
Outcomes == {"unknown", "data", "nodata", "raised"}

Idle == [op |-> "none"]
Calls == {Idle} \union [op : Operations, task : Tasks, seen : VALID_STATUSES]

Init ==
    /\ status = [t \in Tasks |-> "absent"]
    /\ hasResult = [t \in Tasks |-> FALSE]
    /\ kind = [t \in Tasks |-> "background"]
    /\ owner = [t \in Tasks |-> "none"]
    /\ outcome = [t \in Tasks |-> "unknown"]
    /\ registered = {}
    /\ call = [c \in Callers |-> Idle]
    /\ restarts = 0

-----------------------------------------------------------------------------
(* The owner of a task.                                                    *)

(* create_task: the row is inserted as pending. *)
CreateTask(t, k) ==
    /\ owner[t] = "none"
    /\ status' = [status EXCEPT ![t] = "pending"]
    /\ kind' = [kind EXCEPT ![t] = k]
    /\ owner' = [owner EXCEPT ![t] = IF k = "background" THEN "created" ELSE "ready"]
    /\ UNCHANGED <<hasResult, outcome, registered, call, restarts>>

(* run_in_background: the thread is entered in _running_tasks, then started. *)
LaunchThread(t) ==
    /\ owner[t] = "created"
    /\ owner' = [owner EXCEPT ![t] = "ready"]
    /\ registered' = registered \union {t}
    /\ UNCHANGED <<status, hasResult, kind, outcome, call, restarts>>

(* The owner's first write: whatever the status is now, it becomes running. *)
WriteRunning(t) ==
    /\ owner[t] = "ready"
    /\ status' = [status EXCEPT ![t] = "running"]
    /\ owner' = [owner EXCEPT ![t] = "executing"]
    /\ UNCHANGED <<hasResult, kind, outcome, registered, call, restarts>>

(* That write is outside the try block: the thread dies and stays registered. *)
WriteRunningFails(t) ==
    /\ DbMayFail
    /\ owner[t] = "ready"
    /\ owner' = [owner EXCEPT ![t] = "died"]
    /\ UNCHANGED <<status, hasResult, kind, outcome, registered, call, restarts>>

(* Mutant of FunctionEnds: an early return for None, before any write. *)
FunctionEnds_ReturnsEarly(t, o) ==
    /\ owner[t] = "executing"
    /\ owner' = [owner EXCEPT ![t] = IF o = "nodata" THEN "cleanup" ELSE "ended"]
    /\ outcome' = [outcome EXCEPT ![t] = o]
    /\ UNCHANGED <<status, hasResult, kind, registered, call, restarts>>

(* The agent function returns a result, returns None, or raises. *)
FunctionEnds(t, o) ==
    /\ owner[t] = "executing"
    /\ owner' = [owner EXCEPT ![t] = "ended"]
    /\ outcome' = [outcome EXCEPT ![t] = o]
    /\ UNCHANGED <<status, hasResult, kind, registered, call, restarts>>

(* A thread calls None a success without a result; a handler calls it a failure. *)
Succeeded(t) ==
    \/ outcome[t] = "data"
    \/ outcome[t] = "nodata" /\ kind[t] = "background"

(* The owner's last write, as unconditional as the first. *)
WriteOutcome(t) ==
    /\ owner[t] = "ended"
    /\ status' = [status EXCEPT ![t] = IF Succeeded(t) THEN "completed" ELSE "failed"]
    /\ hasResult' = [hasResult EXCEPT ![t] = @ \/ (Succeeded(t) /\ outcome[t] = "data")]
    /\ owner' = [owner EXCEPT ![t] = "cleanup"]
    /\ UNCHANGED <<kind, outcome, registered, call, restarts>>

(* The write of "completed" is inside the thread's try block, so when it   *)
(* raises the thread goes on to write "failed".  Any other failing write   *)
(* ends the owner; the thread's finally clause still unregisters it.       *)
WriteOutcomeFails(t) ==
    /\ DbMayFail
    /\ owner[t] = "ended"
    /\ IF kind[t] = "background" /\ Succeeded(t)
         THEN /\ outcome' = [outcome EXCEPT ![t] = "raised"]
              /\ UNCHANGED <<owner, registered>>
         ELSE /\ owner' = [owner EXCEPT ![t] = "died"]
              /\ registered' = registered \ {t}
              /\ UNCHANGED outcome
    /\ UNCHANGED <<status, hasResult, kind, call, restarts>>

(* The finally clause of the thread; a handler just returns its response. *)
Unregister(t) ==
    /\ owner[t] = "cleanup"
    /\ owner' = [owner EXCEPT ![t] = "done"]
    /\ registered' = registered \ {t}
    /\ UNCHANGED <<status, hasResult, kind, outcome, call, restarts>>

-----------------------------------------------------------------------------
(* The guarded operations.                                                 *)

(* Mutant of Allowed: cancel_task without its terminal check. *)
Allowed_CancelAnything(op) ==
    CASE op = "start"               -> {"pending"}
      [] op \in {"complete", "fail"} -> {"running"}
      [] op \in {"progress", "cancel"} -> VALID_STATUSES

(* The statuses with which an operation does not raise ValueError. *)
Allowed(op) ==
    CASE op = "start"               -> {"pending"}
      [] op \in {"complete", "fail"} -> {"running"}
      [] op = "progress"            -> VALID_STATUSES
      [] op = "cancel"              -> VALID_STATUSES \ TERMINAL_STATUSES

(* The status the operation's UPDATE sets; update_progress sets what it read. *)
Target(cl) ==
    CASE cl.op = "start"    -> "running"
      [] cl.op = "complete" -> "completed"
      [] cl.op = "fail"     -> "failed"
      [] cl.op = "cancel"   -> "cancelled"
      [] cl.op = "progress" -> cl.seen

(* get_task and the test of the status it returned. *)
CallRead(c, op, t) ==
    /\ call[c] = Idle
    /\ status[t] \in Allowed(op)
    /\ call' = [call EXCEPT ![c] = [op |-> op, task |-> t, seen |-> status[t]]]
    /\ UNCHANGED <<status, hasResult, kind, owner, outcome, registered, restarts>>

(* update_task_status, whose WHERE clause names only the id. *)
CallWrite(c) ==
    /\ call[c] # Idle
    /\ status' = [status EXCEPT ![call[c].task] = Target(call[c])]
    /\ hasResult' = [hasResult EXCEPT ![call[c].task] = @ \/ call[c].op = "complete"]
    /\ call' = [call EXCEPT ![c] = Idle]
    /\ UNCHANGED <<kind, owner, outcome, registered, restarts>>

CallWriteFails(c) ==
    /\ DbMayFail
    /\ call[c] # Idle
    /\ call' = [call EXCEPT ![c] = Idle]
    /\ UNCHANGED <<status, hasResult, kind, owner, outcome, registered, restarts>>

-----------------------------------------------------------------------------
(* A restart ends every thread (they are daemons) and empties the memory of *)
(* the process; main.lifespan repairs no row.                               *)
Restart ==
    /\ restarts < MaxRestarts
    /\ owner' = [t \in Tasks |-> IF owner[t] \in Live THEN "killed" ELSE owner[t]]
    /\ registered' = {}
    /\ call' = [c \in Callers |-> Idle]
    /\ restarts' = restarts + 1
    /\ UNCHANGED <<status, hasResult, kind, outcome>>

OwnerStep(t) ==
    \/ LaunchThread(t)
    \/ WriteRunning(t)
    \/ WriteRunningFails(t)
    \/ \E o \in {"data", "nodata", "raised"} : FunctionEnds(t, o)
    \/ WriteOutcome(t)
    \/ WriteOutcomeFails(t)
    \/ Unregister(t)

CallerStep(c) ==
    \/ \E t \in Tasks : \E op \in Ops[t] : CallRead(c, op, t)
    \/ CallWrite(c)
    \/ CallWriteFails(c)

Next ==
    \/ \E t \in Tasks, k \in {"background", "inline"} : CreateTask(t, k)
    \/ \E t \in Tasks : OwnerStep(t)
    \/ \E c \in Callers : CallerStep(c)
    \/ Restart

Spec == Init /\ [][Next]_vars

(* The operating system schedules every thread, agent functions end (their *)
(* model and tool calls have timeouts), and a caller finishes what it      *)
(* began.  Nobody is obliged to create a task or to call an operation.     *)
Fairness ==
    /\ \A t \in Tasks : WF_vars(OwnerStep(t))
    /\ \A c \in Callers : WF_vars(CallWrite(c) \/ CallWriteFails(c))

FairSpec == Spec /\ Fairness

(* Tasks that are used as the routes use them: only to be cancelled. *)
CancelOnly == {t \in Tasks : Ops[t] = {"cancel"}}

-----------------------------------------------------------------------------
(* Every variable keeps its type: rows, owners and calls in flight. *)
TypeOK ==
    /\ status \in [Tasks -> VALID_STATUSES \union {"absent"}]
    /\ hasResult \in [Tasks -> BOOLEAN]
    /\ kind \in [Tasks -> {"background", "inline"}]
    /\ owner \in [Tasks -> OwnerStates]
    /\ outcome \in [Tasks -> Outcomes]
    /\ registered \subseteq Tasks
    /\ call \in [Callers -> Calls]
    /\ restarts \in Nat

(* An owner that ran to its end leaves its task in a terminal status,      *)
(* however its two unconditional writes interleaved with cancellations: a  *)
(* row that still says pending or running afterwards had its owner killed  *)
(* by a restart or by a failing write (agent_services.py:196-210, 298-315).*)
(* It holds because cancel is the only guarded operation the routes use.   *)
FinishedOwnerSettlesTask ==
    \A t \in CancelOnly : owner[t] \in {"cleanup", "done"} => status[t] \in TERMINAL_STATUSES

(* The owner writes its outcome once.  After that a terminal status is     *)
(* overwritten only by a guarded call that had read an older status: the   *)
(* guards are right, what lets the outcome be lost is the gap between the  *)
(* read and the write (agent_services.py:226-315).                         *)
OutcomeOnlyLostToStaleCall ==
    [][\A t \in Tasks :
         /\ owner[t] \in {"cleanup", "done"}
         /\ status[t] \in TERMINAL_STATUSES
         /\ status'[t] # status[t]
         => \E c \in Callers : /\ call[c] # Idle /\ call'[c] = Idle
                               /\ call[c].task = t
                               /\ call[c].seen # status[t]]_vars

(* A completed row is the work of an owner whose agent function returned,  *)
(* and it carries a result exactly when that function produced data; an    *)
(* exception is never reported as completed, not even when the first       *)
(* attempt to store the outcome failed (agent_services.py:202-208).        *)
CompletedMatchesOutcome ==
    \A t \in CancelOnly :
        status[t] = "completed" => /\ Succeeded(t)
                                   /\ hasResult[t] = (outcome[t] = "data")

(* _running_tasks holds every thread that has work left, and forgets a     *)
(* thread that ended; only one that died in its first write is left behind *)
(* (that write precedes the try block, agent_services.py:197-198).         *)
RegistryTracksThreads ==
    /\ \A t \in Tasks : kind[t] = "background" /\ owner[t] \in {"ready", "executing", "ended"}
                          => t \in registered
    /\ \A t \in registered :
          \/ owner[t] \in Live
          \/ owner[t] = "died" /\ (t \in CancelOnly => status[t] \in {"pending", "cancelled"})

(* A task that is created reaches a terminal status and stays terminal,    *)
(* unless its owner is killed or dies of a failing write: no interleaving  *)
(* of cancellations with the owner leaves it pending or running, or takes  *)
(* it back there once and for all (agent_services.py:196-210, 298-315).    *)
EveryTaskSettles ==
    \A t \in CancelOnly :
        status[t] = "pending" ~>
            [](status[t] \in TERMINAL_STATUSES \/ owner[t] \in {"died", "killed"})

(* What cancel_task is for: "Cancel a running agent task" (routes/         *)
(* agent_tasks.py:172) and TERMINAL_STATUSES (agent_services.py:22) say    *)
(* that a cancelled task is over.  The owner never looks at the status, so *)
(* its next write takes the cancellation back.                             *)
CancelledStaysCancelled ==
    [][\A t \in Tasks : status[t] = "cancelled" => status'[t] = "cancelled"]_vars
=============================================================================
