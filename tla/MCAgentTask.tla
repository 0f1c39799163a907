----------------------------- MODULE MCAgentTask -----------------------------
(***************************************************************************)
(* Two tasks: the first is used as the routes use tasks, the second        *)
(* completed and reported on from outside, with the two operations whose   *)
(* stale writes do most harm.                                              *)
(***************************************************************************)
EXTENDS AgentTask

CONSTANTS t1, t2

MCTasks == {t1, t2}
MCOps == [t \in MCTasks |-> IF t = t1 THEN {"cancel"} ELSE {"complete", "progress"}]
=============================================================================
