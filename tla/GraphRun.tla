------------------------------- MODULE GraphRun -------------------------------
(***************************************************************************)
(* What the caller of an agent graph may rely on: the nodes of a run are   *)
(* executed once each, a node after all nodes it has an edge from, and the *)
(* run answers once: with the document the nodes have made, which takes    *)
(* all of them, or with a conservative document, at any point.             *)
(***************************************************************************)
CONSTANTS
    Runs,
    Nodes,
    Edges         \* pairs of nodes

VARIABLES
    done,         \* per run: the nodes executed
    answer        \* per run: "none", "made" or "conservative"

vars == <<done, answer>>

Init ==
    /\ done = [r \in Runs |-> {}]
    /\ answer = [r \in Runs |-> "none"]

Before(n) == {m \in Nodes : <<m, n>> \in Edges}

(* Some nodes are executed side by side.                                   *)
Execute(r) ==
    /\ answer[r] = "none"
    /\ done[r] \subseteq done'[r] /\ done'[r] \subseteq Nodes
    /\ \A n \in done'[r] \ done[r] : Before(n) \subseteq done[r]
    /\ \A q \in Runs \ {r} : done'[q] = done[q]
    /\ UNCHANGED answer

Answer(r) ==
    /\ answer[r] = "none"
    /\ \/ done[r] = Nodes /\ answer' = [answer EXCEPT ![r] = "made"]
       \/ answer' = [answer EXCEPT ![r] = "conservative"]
    /\ UNCHANGED done

Next == \E r \in Runs : Answer(r) \/ Execute(r)

Spec == Init /\ [][Next]_vars
=============================================================================
