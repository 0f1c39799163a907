----------------------------- MODULE TaskProgress -----------------------------
(***************************************************************************)
(* The document of a graph task (agent_task_repository.py) while the nodes *)
(* of the graph report to it from threads of their own: every node reports *)
(* its start and its end through instrument_graph_node, each report reads  *)
(* the document, changes it and writes it back whole under the lock of the *)
(* task.  The runner of the task reads and writes the document without the *)
(* lock, and a client polls the event log with the last number it has      *)
(* seen.  The backend may die at any moment; after a restart               *)
(* mark_stale_tasks_failed is meant to settle what was left behind.        *)
(*                                                                         *)
(* LangGraph, which is not part of this repository, starts a node when its *)
(* predecessors have ended, starts nothing more once a node has raised,    *)
(* and returns to the runner only when no node runs any more.              *)
(***************************************************************************)
EXTENDS Integers, Sequences, SequencesExt

CONSTANTS
    Nodes,
    NoNode,       \* none of them
    Preds,        \* per node: the set of the nodes it waits for
    MaxEvents,    \* MAX_GRAPH_EVENTS, a positive number
    MayDie        \* whether the backend may die

VARIABLES
    doc,          \* the stored document
    copy,         \* what the reporter in the lock, or the runner, has read
    lock,         \* the node that holds the lock of the task, or NoNode
    phase,        \* per node: where its thread is
    outcome,      \* per node: how it ended
    runner,       \* where the runner is
    cursor,       \* after_seq of the polling client
    heard         \* the numbers of the events it was sent

vars == <<doc, copy, lock, phase, outcome, runner, cursor, heard>>

Traced == {"success", "fallback", "failed"}    \* statuses of a trace

(* make_graph_snapshot: every node pending. *)
NewSnapshot == [nodes |-> [n \in Nodes |-> "pending"], current |-> {}, graph |-> "pending"]

NewTask == [status |-> "queued", snap |-> NewSnapshot, seq |-> 0, events |-> <<>>]

Init ==
    /\ doc = NewTask
    /\ copy = NewTask /\ lock = NoNode
    /\ phase = [n \in Nodes |-> "waiting"]
    /\ outcome = [n \in Nodes |-> "none"]
    /\ runner = "created"
    /\ cursor = 0 /\ heard = {}

-----------------------------------------------------------------------------
(* What the operations do to the document.                                 *)

WithStatus(s, x) == {n \in Nodes : s.nodes[n] = x}

(* _infer_graph_status *)
Inferred(s) ==
    IF WithStatus(s, "failed") # {} THEN "failed"
    ELSE IF WithStatus(s, "running") # {} THEN "running"
    ELSE IF WithStatus(s, "pending") # {} THEN "pending"
    ELSE IF WithStatus(s, "fallback") # {} THEN "fallback" ELSE "success"

(* A plausible bug, used as a mutant only: an event takes the stored number. *)
Logged_SameNumber(d, type, n) ==
    [d EXCEPT !.events = Append(@, [seq |-> d.seq, type |-> type, node |-> n])]

(* _append_graph_event: one number more, and only the last events stay. *)
Logged(d, type, n) ==
    LET all == Append(d.events, [seq |-> d.seq + 1, type |-> type, node |-> n])
        surplus == IF Len(all) > MaxEvents THEN Len(all) - MaxEvents ELSE 0
    IN [d EXCEPT !.seq = @ + 1, !.events = SubSeq(all, surplus + 1, Len(all))]

(* _set_snapshot, which takes a number of its own, and the event. *)
Recorded(d, s, type, n) == Logged([d EXCEPT !.snap = s, !.seq = @ + 1], type, n)

(* mark_node_running *)
NodeRunning(d, n) ==
    LET nodes == [d.snap.nodes EXCEPT ![n] = "running"]
        s == [nodes |-> nodes, current |-> {}, graph |-> "running"]
    IN Recorded(d, [s EXCEPT !.current = WithStatus(s, "running")], "node_started", n)

(* mark_node_finished *)
NodeFinished(d, n, o) ==
    LET s == [d.snap EXCEPT !.nodes[n] = o]
    IN Recorded(d, [s EXCEPT !.current = WithStatus(s, "running"), !.graph = Inferred(s)],
                "node_finished", n)

(* mark_node_failed: nothing is current, although siblings may still run. *)
NodeFailed(d, n) ==
    Recorded(d, [nodes |-> [d.snap.nodes EXCEPT ![n] = "failed"], current |-> {},
                 graph |-> "failed"], "node_failed", n)

(* sync_graph_from_run_trace: the traces repeat what the nodes reported. *)
Synced(d) ==
    Recorded(d, [d.snap EXCEPT !.current = {}, !.graph = Inferred(d.snap)], "graph_synced", NoNode)

(* mark_graph_failed *)
GraphFailed(d) ==
    Recorded(d, [nodes |-> [n \in Nodes |-> IF d.snap.nodes[n] = "running" THEN "failed"
                                            ELSE d.snap.nodes[n]],
                 current |-> {}, graph |-> "failed"], "graph_failed", NoNode)

-----------------------------------------------------------------------------
(* The nodes.                                                              *)

Goto(n, p) == phase' = [phase EXCEPT ![n] = p]
Raised == \E n \in Nodes : outcome[n] = "raised"
Alive == runner \notin {"dead", "swept"}
Asking == {"starting", "ending"}
AtRest == \A n \in Nodes : phase[n] \in {"waiting", "over"}

(* LangGraph calls the wrapped node, which reports its start. *)
Begin(n) ==
    /\ runner = "graph" /\ ~Raised /\ phase[n] = "waiting"
    /\ \A m \in Preds[n] : phase[m] = "over"
    /\ Goto(n, "starting")
    /\ UNCHANGED <<doc, copy, lock, outcome, runner, cursor, heard>>

(* A plausible bug, used as a mutant only: the lock is not waited for. *)
TakeLock_NoLock(n) ==
    /\ lock' = n /\ copy' = doc

(* _task_update_lock, and get_task inside it. *)
TakeLock(n) ==
    /\ lock = NoNode
    /\ lock' = n /\ copy' = doc

Enter(n) ==
    /\ Alive /\ phase[n] \in Asking
    /\ TakeLock(n)
    /\ Goto(n, IF phase[n] = "starting" THEN "in_start" ELSE "in_end")
    /\ UNCHANGED <<doc, outcome, runner, cursor, heard>>

(* The changed document is written, and the lock is released. *)
SaveStart(n) ==
    /\ Alive /\ phase[n] = "in_start"
    /\ doc' = NodeRunning(copy, n)
    /\ lock' = NoNode /\ copy' = NewTask
    /\ Goto(n, "running")
    /\ UNCHANGED <<outcome, runner, cursor, heard>>

(* The node returns, and its trace has a status, or it raises. *)
NodeEnds(n, o) ==
    /\ Alive /\ phase[n] = "running"
    /\ outcome' = [outcome EXCEPT ![n] = o]
    /\ Goto(n, "ending")
    /\ UNCHANGED <<doc, copy, lock, runner, cursor, heard>>

(* A plausible bug, used as a mutant only: a failed node keeps the lock. *)
SaveEnd_KeepsLock(n) ==
    /\ Alive /\ phase[n] = "in_end"
    /\ doc' = IF outcome[n] = "raised" THEN NodeFailed(copy, n)
              ELSE NodeFinished(copy, n, outcome[n])
    /\ lock' = IF outcome[n] = "raised" THEN lock ELSE NoNode
    /\ copy' = NewTask
    /\ Goto(n, "over")
    /\ UNCHANGED <<outcome, runner, cursor, heard>>

SaveEnd(n) ==
    /\ Alive /\ phase[n] = "in_end"
    /\ doc' = IF outcome[n] = "raised" THEN NodeFailed(copy, n)
              ELSE NodeFinished(copy, n, outcome[n])
    /\ lock' = NoNode /\ copy' = NewTask
    /\ Goto(n, "over")
    /\ UNCHANGED <<outcome, runner, cursor, heard>>

-----------------------------------------------------------------------------
(* The runner.  Each call reads the document and writes it back.           *)

RunnerReads(from, to) ==
    /\ runner = from /\ runner' = to /\ copy' = doc
    /\ UNCHANGED <<doc, lock, phase, outcome, cursor, heard>>

RunnerWrites(from, d, to) ==
    /\ runner = from /\ runner' = to /\ doc' = d /\ copy' = NewTask
    /\ UNCHANGED <<lock, phase, outcome, cursor, heard>>

(* init_graph_progress, before the runner's thread is started. *)
InitGraph ==
    \/ RunnerReads("created", "in_init")
    \/ RunnerWrites("in_init", Logged([copy EXCEPT !.snap = NewSnapshot], "graph_initialized", NoNode), "queued")

MarkRunning ==
    \/ RunnerReads("queued", "in_run")
    \/ RunnerWrites("in_run", [copy EXCEPT !.status = "running"], "graph")

(* The graph has returned: sync_from_document; it has raised: graph_failed. *)
GraphEnds ==
    /\ AtRest /\ (Raised \/ \A n \in Nodes : phase[n] = "over")
    /\ RunnerReads("graph", IF Raised THEN "in_fail" ELSE "in_sync")

Sync ==
    \/ RunnerWrites("in_sync", Synced(copy), "synced")
    \/ RunnerWrites("in_fail", GraphFailed(copy), "failed")

(* mark_completed and mark_failed. *)
Settle ==
    \/ RunnerReads("synced", "in_done")
    \/ RunnerReads("failed", "in_mark")
    \/ RunnerWrites("in_done", [copy EXCEPT !.status = "completed"], "over")
    \/ RunnerWrites("in_mark", [copy EXCEPT !.status = "failed"], "over")

-----------------------------------------------------------------------------
(* list_graph_events(after_seq) by a client that keeps the last number. *)
Poll ==
    LET new == {doc.events[i].seq : i \in {j \in DOMAIN doc.events : doc.events[j].seq > cursor}}
    IN /\ new # {}
       /\ heard' = heard \union new
       /\ cursor' = Last(doc.events).seq
       /\ UNCHANGED <<doc, copy, lock, phase, outcome, runner>>

Die ==
    /\ MayDie /\ Alive /\ runner # "over"
    /\ runner' = "dead"
    /\ UNCHANGED <<doc, copy, lock, phase, outcome, cursor, heard>>

(* mark_stale_tasks_failed after the restart: update_by_query of the       *)
(* SQLite-backed client reports that it updated nothing, and does nothing. *)
MarkStale ==
    /\ runner = "dead"
    /\ runner' = "swept"
    /\ copy' = NewTask /\ lock' = NoNode
    /\ UNCHANGED <<doc, phase, outcome, cursor, heard>>

Report(n) == Enter(n) \/ SaveStart(n) \/ SaveEnd(n) \/ \E o \in Traced \union {"raised"} : NodeEnds(n, o)
Run == InitGraph \/ MarkRunning \/ GraphEnds \/ Sync \/ Settle

Next ==
    \/ \E n \in Nodes : Begin(n) \/ Report(n)
    \/ Run \/ Poll \/ Die \/ MarkStale

(* The threads of the nodes and the runner go on; the client need not. *)
Fairness == /\ WF_vars(Run)
            /\ \A n \in Nodes : WF_vars(Begin(n)) /\ WF_vars(Report(n))

Spec == Init /\ [][Next]_vars /\ Fairness

-----------------------------------------------------------------------------
(* No report is lost: once a node's start or end has been saved, the       *)
(* document shows it, whatever siblings saved meanwhile and although every *)
(* save writes the whole document (agent_task_repository.py:96-155, the    *)
(* test on parallel updates).                                              *)
NoReportIsLost ==
    \A n \in Nodes :
        /\ phase[n] \in {"running", "ending", "in_end"} /\ doc.status = "running"
              => doc.snap.nodes[n] = "running"
        /\ phase[n] = "over" =>
              doc.snap.nodes[n] = IF outcome[n] = "raised" THEN "failed" ELSE outcome[n]

(* What the document of an ended task tells of its graph: it is completed  *)
(* only if every node returned, failed only if one raised, its graph shows *)
(* the worst that its nodes show, and none is left as current or running.  *)
TellsTheTruth ==
    /\ doc.snap.current = {} /\ WithStatus(doc.snap, "running") = {}
    /\ doc.snap.graph = Inferred(doc.snap)
    /\ doc.status = "failed" <=> Raised
    /\ doc.status = "completed" => WithStatus(doc.snap, "pending") = {}

(* A client that polls with the last number it was sent is sent every      *)
(* event once: whatever is added to the log later has a higher number than *)
(* all it knows, and what it has not been sent yet is still in the log or  *)
(* was pushed out by the bound of the log (agent_task_repository.py:192,   *)
(* 319).                                                                   *)
PollingMissesNothing ==
    /\ \A i \in DOMAIN doc.events : doc.events[i].seq > cursor \/ doc.events[i].seq \in heard
    /\ \A i, j \in DOMAIN doc.events : i < j => doc.events[i].seq < doc.events[j].seq
    /\ Len(doc.events) > 0 => Last(doc.events).seq = doc.seq

(* Unless the backend dies every task ends for good, although each of its  *)
(* nodes had to get the lock twice, and then tells the truth about its     *)
(* graph (agent_task_repository.py:96-231).                                *)
TaskEnds == <>[](~Alive \/ (doc.status \in {"completed", "failed"} /\ TellsTheTruth))

(* "Mark all running or queued tasks as failed after a backend restart."   *)
(* (agent_task_repository.py:234)                                          *)
StaleTasksAreFailed == runner = "swept" => doc.status \in {"completed", "failed"}
=============================================================================
