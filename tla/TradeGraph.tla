------------------------------ MODULE TradeGraph ------------------------------
(***************************************************************************)
(* The graph that makes a trade decision: its nodes and edges              *)
(* (agents/trade_decision_graph/graph.py), what each node reads and writes *)
(* (nodes.py), and the runner that answers with a document in any case     *)
(* (runner.py).                                                            *)
(*                                                                         *)
(* LangGraph executes it in supersteps: the nodes of a superstep run side  *)
(* by side on the same state, their writes are merged when all have ended, *)
(* and the next superstep is every node that has an edge from one of them. *)
(* The nodes of a superstep see nothing of each other, so a superstep is   *)
(* one step here.  A node that raises ends the run.                        *)
(*                                                                         *)
(* Of the state the model keeps which fields are set.  What the composer   *)
(* decides is modelled in TradeDecision.  Several runs share the table of  *)
(* decisions and the clock.                                                *)
(***************************************************************************)
EXTENDS Naturals, FiniteSets

CONSTANTS
    Runs,
    Faults,       \* the nodes whose own calls may fail
    Raising,      \* the nodes that may raise all the same
    MaxTime       \* bound on the clock, in seconds

ASSUME MaxTimeAssumption == MaxTime \in Nat

VARIABLES
    time,
    phase,        \* per run: "graph", "fallback", "finalize" or "returned"
    step,         \* per run: the nodes of its superstep,
    done,         \*   the nodes of earlier supersteps,
    fields,       \*   the fields of the state that are set,
    traces,       \*   node_traces: pairs of a node and a status
    doc,          \* per run: the document it works on, or has returned
    rows,         \* the stored decisions
    composed,     \* per run: the second in which its id was made
    answer        \* per run: "none", "made" or "conservative"

graph == <<step, done, fields, traces>>
vars == <<time, phase, graph, doc, rows, composed, answer>>

-----------------------------------------------------------------------------
(* A node: the fields without which it takes its except branch; the field  *)
(* it writes; and what it reports of itself in the except branch, where it *)
(* writes a substitute ("fallback") or nothing ("failed").                 *)
Node(needs, field, otherwise) == [needs |-> needs, field |-> field, otherwise |-> otherwise]

BuildAccountFacts == Node({}, "account_fact_snapshot", "failed")
LoadUserInvestmentPolicy == Node({}, "user_investment_policy", "fallback")
LoadBehaviorProfileContext == Node({}, "behavior_profile_context", "fallback")
AccountFit == Node({"account_fact_snapshot"}, "account_fit_card", "fallback")
MarketTrend == Node({"account_fact_snapshot"}, "market_trend_card", "fallback")
FundamentalValuation == Node({"account_fact_snapshot"}, "fundamental_valuation_card", "fallback")
EventCatalyst == Node({"account_fact_snapshot"}, "event_catalyst_card", "fallback")
MarketEventContext == Node({}, "market_event_context_card", "fallback")

(* A card that is missing is replaced; the account facts are not.          *)
BuildCardPack == Node({"account_fact_snapshot"}, "card_pack", "failed")

AiPolicyAssessment == Node({"card_pack"}, "ai_policy_assessment", "fallback")
BullThesis == Node({"card_pack"}, "bull_thesis_card", "fallback")
BearThesis == Node({"card_pack"}, "bear_thesis_card", "fallback")
BullRebuttal == Node({"card_pack"}, "bull_rebuttal_card", "fallback")
BearRebuttal == Node({"card_pack"}, "bear_rebuttal_card", "fallback")
DebateJudge == Node({"card_pack"}, "debate_judge_card", "fallback")
TradePlanNode == Node({"card_pack"}, "trade_plan_card", "fallback")
ComposeDecision == Node({"card_pack"}, "decision_output", "failed")
PersistDecision ==
    Node({"decision_output", "card_pack", "account_fact_snapshot"}, "saved_document", "failed")

Evidence ==
    {"account_fit", "market_trend", "fundamental_valuation", "event_catalyst", "market_event_context"}
Theses == {"bull_thesis", "bear_thesis"}
Rebuttals == {"bull_rebuttal", "bear_rebuttal"}

NodeOf(n) ==
    CASE n = "build_account_facts" -> BuildAccountFacts
      [] n = "load_user_investment_policy" -> LoadUserInvestmentPolicy
      [] n = "load_behavior_profile_context" -> LoadBehaviorProfileContext
      [] n = "account_fit" -> AccountFit
      [] n = "market_trend" -> MarketTrend
      [] n = "fundamental_valuation" -> FundamentalValuation
      [] n = "event_catalyst" -> EventCatalyst
      [] n = "market_event_context" -> MarketEventContext
      [] n = "build_card_pack" -> BuildCardPack
      [] n = "ai_policy_assessment" -> AiPolicyAssessment
      [] n = "bull_thesis" -> BullThesis
      [] n = "bear_thesis" -> BearThesis
      [] n = "bull_rebuttal" -> BullRebuttal
      [] n = "bear_rebuttal" -> BearRebuttal
      [] n = "debate_judge" -> DebateJudge
      [] n = "trade_plan" -> TradePlanNode
      [] n = "compose_decision" -> ComposeDecision
      [] OTHER -> PersistDecision

GraphNodes ==
    {"build_account_facts", "load_user_investment_policy", "load_behavior_profile_context",
     "build_card_pack", "ai_policy_assessment", "debate_judge", "trade_plan",
     "compose_decision", "persist_decision"} \union Evidence \union Theses \union Rebuttals

(* A plausible bug, used as a mutant only: the account fit, which does not *)
(* read the behavior profile, is hung on the node before.                  *)
GraphEdges_FitEarlier ==
    {<<"build_account_facts", "load_user_investment_policy">>,
     <<"load_user_investment_policy", "load_behavior_profile_context">>,
     <<"load_user_investment_policy", "account_fit">>,
     <<"build_card_pack", "ai_policy_assessment">>,
     <<"debate_judge", "trade_plan">>,
     <<"trade_plan", "compose_decision">>,
     <<"compose_decision", "persist_decision">>}
    \union {"load_behavior_profile_context"} \X (Evidence \ {"account_fit"})
    \union Evidence \X {"build_card_pack"}
    \union {"ai_policy_assessment"} \X Theses
    \union Theses \X Rebuttals
    \union Rebuttals \X {"debate_judge"}

GraphEdges ==
    {<<"build_account_facts", "load_user_investment_policy">>,
     <<"load_user_investment_policy", "load_behavior_profile_context">>,
     <<"build_card_pack", "ai_policy_assessment">>,
     <<"debate_judge", "trade_plan">>,
     <<"trade_plan", "compose_decision">>,
     <<"compose_decision", "persist_decision">>}
    \union {"load_behavior_profile_context"} \X Evidence
    \union Evidence \X {"build_card_pack"}
    \union {"ai_policy_assessment"} \X Theses
    \union Theses \X Rebuttals
    \union Rebuttals \X {"debate_judge"}

Entry == {"build_account_facts"}

NoId == <<"none">>
NoDoc == [run |-> "none", id |-> NoId, traced |-> {}, conservative |-> FALSE, final |-> FALSE]

Init ==
    /\ time = 0
    /\ phase = [r \in Runs |-> "graph"]
    /\ step = [r \in Runs |-> Entry]
    /\ done = [r \in Runs |-> {}]
    /\ fields = [r \in Runs |-> {}]
    /\ traces = [r \in Runs |-> {}]
    /\ doc = [r \in Runs |-> NoDoc]
    /\ rows = {}
    /\ composed = [r \in Runs |-> MaxTime + 1]
    /\ answer = [r \in Runs |-> "none"]

Tick == time < MaxTime /\ time' = time + 1 /\ UNCHANGED <<phase, graph, doc, rows, composed, answer>>

-----------------------------------------------------------------------------
(* Supersteps.                                                             *)

(* A plausible bug, used as a mutant only: account facts that could not be *)
(* built are written all the same, empty.                                  *)
Written_EmptyFacts(n, works) ==
    IF works \/ NodeOf(n).otherwise = "fallback" \/ n = "build_account_facts" THEN {NodeOf(n).field} ELSE {}

Written(n, works) == IF works \/ NodeOf(n).otherwise = "fallback" THEN {NodeOf(n).field} ELSE {}

Status(n, works) == IF works THEN "success" ELSE NodeOf(n).otherwise

(* What may become of a node of the run: TRUE when it works.               *)
Outcomes(r, n) ==
    {works \in BOOLEAN : IF works THEN NodeOf(n).needs \subseteq fields[r]
                         ELSE n \in Faults \/ ~ NodeOf(n).needs \subseteq fields[r]}

(* _merge_trace_list                                                       *)
Merged(before, new) == before \union new

(* works: what becomes of each node of the superstep.                      *)
Superstep(r, works) ==
    /\ phase[r] = "graph" /\ step[r] # {}
    /\ \A n \in step[r] : works[n] \in Outcomes(r, n)
    /\ fields' = [fields EXCEPT ![r] = @ \union UNION {Written(n, works[n]) : n \in step[r]}]
    /\ traces' = [traces EXCEPT ![r] = Merged(@, {<<n, Status(n, works[n])>> : n \in step[r]})]
    /\ done' = [done EXCEPT ![r] = @ \union step[r]]
    /\ step' = [step EXCEPT ![r] = {e[2] : e \in {f \in GraphEdges : f[1] \in step[r]}}]
    /\ UNCHANGED <<time, phase, answer>>

(* The nodes that neither make the decision nor store it.                  *)
Prepare(r) ==
    /\ step[r] \intersect {"compose_decision", "persist_decision"} = {}
    /\ \E works \in [step[r] -> BOOLEAN] : Superstep(r, works)
    /\ UNCHANGED <<doc, rows, composed>>

(* compose_decision_node: the composer names the decision by the second.   *)
Compose(r) ==
    /\ step[r] = {"compose_decision"}
    /\ \E works \in BOOLEAN :
         /\ Superstep(r, [n \in step[r] |-> works])
         /\ IF works
            THEN /\ doc' = [doc EXCEPT ![r] = [NoDoc EXCEPT !.run = r, !.id = <<"tdc", time>>]]
                 /\ composed' = [composed EXCEPT ![r] = time]
            ELSE UNCHANGED <<doc, composed>>
    /\ UNCHANGED rows

(* save_decision: an upsert by id.                                         *)
Store(d) == rows' = {row \in rows : row.id # d.id} \union {d}

(* persist_decision_node: the traces of the earlier nodes, and its own,    *)
(* which it takes for a success before it has stored anything.             *)
Persist(r) ==
    /\ step[r] = {"persist_decision"}
    /\ \E works \in BOOLEAN :
         /\ Superstep(r, [n \in step[r] |-> works])
         /\ IF works
            THEN LET d == [doc[r] EXCEPT !.traced = traces[r] \union {<<"persist_decision", "success">>}]
                 IN  doc' = [doc EXCEPT ![r] = d] /\ Store(d)
            ELSE UNCHANGED <<doc, rows>>
    /\ UNCHANGED composed

-----------------------------------------------------------------------------
(* The runner.                                                             *)

Goto(r, p) == phase' = [phase EXCEPT ![r] = p]

Conservative(r) == [NoDoc EXCEPT !.run = r, !.conservative = TRUE]

(* A node raises: _run's except clause, which drops what was made.         *)
Raise(r) ==
    /\ phase[r] = "graph" /\ step[r] \intersect Raising # {}
    /\ doc' = [doc EXCEPT ![r] = Conservative(r)]
    /\ Goto(r, "fallback")
    /\ UNCHANGED <<time, graph, rows, composed, answer>>

(* graph.invoke returns: the document that was saved, or none.             *)
Collect(r) ==
    /\ phase[r] = "graph" /\ step[r] = {}
    /\ IF "saved_document" \in fields[r]
       THEN Goto(r, "finalize") /\ UNCHANGED doc
       ELSE Goto(r, "fallback") /\ doc' = [doc EXCEPT ![r] = Conservative(r)]
    /\ UNCHANGED <<time, graph, rows, composed, answer>>

(* A plausible bug, used as a mutant only: the stored copy, which has the  *)
(* id, is not what is answered.                                            *)
SaveFallback_KeepsOriginal(r) ==
    /\ phase[r] = "fallback"
    /\ Store([doc[r] EXCEPT !.id = <<"uuid", r, 1>>]) \/ UNCHANGED rows
    /\ Goto(r, "finalize")
    /\ UNCHANGED <<time, graph, doc, composed, answer>>

(* _build_conservative_fallback saves, and answers with the stored copy,   *)
(* which has an id, or with the document itself if saving raises.          *)
SaveFallback(r) ==
    /\ phase[r] = "fallback"
    /\ LET stored == [doc[r] EXCEPT !.id = <<"uuid", r, 1>>]
       IN \/ Store(stored) /\ doc' = [doc EXCEPT ![r] = stored]
          \/ UNCHANGED <<doc, rows>>
    /\ Goto(r, "finalize")
    /\ UNCHANGED <<time, graph, composed, answer>>

(* _finalize marks the document with the run and saves it again: a new row *)
(* for a document without an id, whose id the answer does not get.         *)
Finalize(r) ==
    /\ phase[r] = "finalize"
    /\ LET final == [doc[r] EXCEPT !.final = TRUE]
       IN /\ doc' = [doc EXCEPT ![r] = final]
          /\ \/ Store(IF final.id = NoId THEN [final EXCEPT !.id = <<"uuid", r, 2>>] ELSE final)
             \/ UNCHANGED rows
    /\ answer' = [answer EXCEPT ![r] = IF doc[r].conservative THEN "conservative" ELSE "made"]
    /\ Goto(r, "returned")
    /\ UNCHANGED <<time, graph, composed>>

Step(r) ==
    \/ Prepare(r) \/ Compose(r) \/ Persist(r) \/ Raise(r)
    \/ Collect(r) \/ SaveFallback(r) \/ Finalize(r)

Next == Tick \/ \E r \in Runs : Step(r)

(* A run is a thread, which goes on; the tools and the model have timeouts.*)
Fairness == \A r \in Runs : WF_vars(Step(r))

Spec == Init /\ [][Next]_vars /\ Fairness

-----------------------------------------------------------------------------
Returned(r) == phase[r] = "returned"

(* Supersteps implement the graph: every node is executed once and after   *)
(* all nodes it has an edge from, although LangGraph starts a node as soon *)
(* as one of them has ended; and a document is made by all the nodes       *)
(* (graph.py:116-181).                                                     *)
Abstract == INSTANCE GraphRun WITH
    Runs <- Runs, Nodes <- GraphNodes, Edges <- GraphEdges, done <- done, answer <- answer

ImplementsGraphRun == Abstract!Spec

(* Without account facts only the runner's conservative document is        *)
(* answered or stored, although most nodes go on with what they fall back  *)
(* to (nodes.py:133-182, 754-848, 1157-1278).                              *)
NoFactsNoDecision ==
    \A d \in rows \union {doc[r] : r \in {q \in Runs : Returned(q)}} :
        <<"build_account_facts", "failed">> \in traces[d.run] => d.conservative

SameSecond(r) == \E q \in Runs \ {r} : composed[q] = composed[r] /\ composed[r] <= MaxTime

TraceIsComplete(row) ==
    /\ {t[1] : t \in row.traced} = GraphNodes
    /\ Cardinality(row.traced) = Cardinality(GraphNodes)

(* A stored decision tells of every node what became of it, once: nothing  *)
(* is lost when parallel nodes write node_traces (base_state.py:14-16,     *)
(* nodes.py:1366-1545).  And what a run returns is stored under its id,    *)
(* and no other row is left of it, unless its fallback could not be saved  *)
(* at first, or another run composed its decision in the same second.  A   *)
(* later failure to save leaves the row as it was (runner.py:232-235,      *)
(* 288-294).                                                               *)
AnswerIsTheRow ==
    /\ \A row \in rows : row.conservative \/ TraceIsComplete(row)
    /\ \A r \in Runs :
          LET mine == {row \in rows : row.run = r}
              held == {[row EXCEPT !.final = TRUE] : row \in mine}
          IN  Returned(r) => \/ held = {doc[r]}
                             \/ doc[r].id = NoId
                                /\ held \subseteq {[doc[r] EXCEPT !.id = <<"uuid", r, 2>>]}
                             \/ SameSecond(r)

(* "Let repository generate id via uuid4" (nodes.py:1471): a decision that *)
(* was stored is not replaced by that of another run.                      *)
DecisionsAreKept ==
    [][\A row \in rows : \E next \in rows' : next.id = row.id /\ next.run = row.run]_vars
=============================================================================
