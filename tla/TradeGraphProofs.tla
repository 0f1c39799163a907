--------------------------- MODULE TradeGraphProofs ---------------------------
(***************************************************************************)
(* The supersteps of TradeGraph implement GraphRun for any runs, faults    *)
(* and nodes that raise.  LangGraph starts a node when one node it has an  *)
(* edge from has ended, GraphRun when all of them have.  The two agree     *)
(* because the graph is levelled: every edge leads from one level to the   *)
(* next, so that a superstep is exactly one level of the graph.  Then what *)
(* a run publishes: no decision without the account facts, and an answer   *)
(* that is the row of the run, unless two share a second.                  *)
(***************************************************************************)
EXTENDS TradeGraph, FiniteSetTheorems, TLAPS

(* The length of the paths from the entry to a node.                       *)
Depth == [n \in GraphNodes |->
    IF n = "build_account_facts" THEN 0
    ELSE IF n = "load_user_investment_policy" THEN 1
    ELSE IF n = "load_behavior_profile_context" THEN 2
    ELSE IF n \in Evidence THEN 3
    ELSE IF n = "build_card_pack" THEN 4
    ELSE IF n = "ai_policy_assessment" THEN 5
    ELSE IF n \in Theses THEN 6
    ELSE IF n \in Rebuttals THEN 7
    ELSE IF n = "debate_judge" THEN 8
    ELSE IF n = "trade_plan" THEN 9
    ELSE IF n = "compose_decision" THEN 10
    ELSE 11]

Level(k) == {n \in GraphNodes : Depth[n] = k}
Below(k) == {n \in GraphNodes : Depth[n] < k}

(* Depths are natural numbers up to 11 (graph.py:116-181).                 *)
LEMMA DepthType == \A n \in GraphNodes : Depth[n] \in 0 .. 11
  BY DEF Depth

(* Only the entry has depth 0 (graph.py:116).                              *)
LEMMA EntryIsLevelZero == Level(0) = Entry
  BY DEF Level, Depth, Entry, GraphNodes, Evidence, Theses, Rebuttals

(* Every edge leads one level up: no node has edges from nodes of          *)
(* different depth (graph.py:116-181).                                     *)
LEMMA EdgesGoUp ==
  ASSUME NEW e \in GraphEdges
  PROVE  /\ e = <<e[1], e[2]>>
         /\ e[1] \in GraphNodes /\ e[2] \in GraphNodes
         /\ Depth[e[2]] = Depth[e[1]] + 1
  <1> DEFINE Chain == {<<"build_account_facts", "load_user_investment_policy">>,
                       <<"load_user_investment_policy", "load_behavior_profile_context">>,
                       <<"build_card_pack", "ai_policy_assessment">>,
                       <<"debate_judge", "trade_plan">>,
                       <<"trade_plan", "compose_decision">>,
                       <<"compose_decision", "persist_decision">>}
  <1>1. CASE e \in Chain
    BY <1>1 DEF GraphNodes, Depth, Evidence, Theses, Rebuttals
  <1>2. CASE e \in {"load_behavior_profile_context"} \X Evidence
    BY <1>2 DEF GraphNodes, Depth, Evidence, Theses, Rebuttals
  <1>3. CASE e \in Evidence \X {"build_card_pack"}
    BY <1>3 DEF GraphNodes, Depth, Evidence, Theses, Rebuttals
  <1>4. CASE e \in {"ai_policy_assessment"} \X Theses
    BY <1>4 DEF GraphNodes, Depth, Evidence, Theses, Rebuttals
  <1>5. CASE e \in Theses \X Rebuttals
    BY <1>5 DEF GraphNodes, Depth, Evidence, Theses, Rebuttals
  <1>6. CASE e \in Rebuttals \X {"debate_judge"}
    BY <1>6 DEF GraphNodes, Depth, Evidence, Theses, Rebuttals
  <1> QED
    BY <1>1, <1>2, <1>3, <1>4, <1>5, <1>6 DEF GraphEdges

(* Every node but the entry has an edge from another node (graph.py:116-   *)
(* 181).                                                                   *)
LEMMA EveryNodeIsReached ==
  ASSUME NEW n \in GraphNodes, n # "build_account_facts"
  PROVE  \E m : <<m, n>> \in GraphEdges
  <1>1. CASE n \in {"load_user_investment_policy", "load_behavior_profile_context",
                    "ai_policy_assessment", "trade_plan", "compose_decision", "persist_decision"}
    BY <1>1 DEF GraphEdges
  <1>2. CASE n \in Evidence
    <2>1. <<"load_behavior_profile_context", n>> \in {"load_behavior_profile_context"} \X Evidence
      BY <1>2
    <2> QED  BY <2>1 DEF GraphEdges
  <1>3. CASE n = "build_card_pack"
    <2>1. <<"account_fit", n>> \in Evidence \X {"build_card_pack"}
      BY <1>3 DEF Evidence
    <2> QED  BY <2>1 DEF GraphEdges
  <1>4. CASE n \in Theses
    <2>1. <<"ai_policy_assessment", n>> \in {"ai_policy_assessment"} \X Theses
      BY <1>4
    <2> QED  BY <2>1 DEF GraphEdges
  <1>5. CASE n \in Rebuttals
    <2>1. <<"bull_thesis", n>> \in Theses \X Rebuttals
      BY <1>5 DEF Theses
    <2> QED  BY <2>1 DEF GraphEdges
  <1>6. CASE n = "debate_judge"
    <2>1. <<"bull_rebuttal", n>> \in Rebuttals \X {"debate_judge"}
      BY <1>6 DEF Rebuttals
    <2> QED  BY <2>1 DEF GraphEdges
  <1> QED
    BY <1>1, <1>2, <1>3, <1>4, <1>5, <1>6 DEF GraphNodes

(* The successors of a level are the next level.                           *)
LEMMA NextLevel ==
  ASSUME NEW k \in Nat
  PROVE  {e[2] : e \in {f \in GraphEdges : f[1] \in Level(k)}} = Level(k + 1)
  <1> DEFINE Next0 == {e[2] : e \in {f \in GraphEdges : f[1] \in Level(k)}}
  <1>1. ASSUME NEW n \in Next0 PROVE n \in Level(k + 1)
    <2>1. PICK e \in GraphEdges : e[1] \in Level(k) /\ n = e[2]
      BY <1>1
    <2> QED
      BY <2>1, EdgesGoUp DEF Level
  <1>2. ASSUME NEW n \in Level(k + 1) PROVE n \in Next0
    <2>1. n \in GraphNodes /\ Depth[n] = k + 1
      BY DEF Level
    <2>2. n # "build_account_facts"
      BY <2>1, EntryIsLevelZero DEF Level, Entry
    <2>3. PICK m : <<m, n>> \in GraphEdges
      BY <2>1, <2>2, EveryNodeIsReached
    <2> DEFINE e == <<m, n>>
    <2>4. e[1] \in GraphNodes /\ Depth[n] = Depth[e[1]] + 1 /\ e[2] = n
      BY <2>3, EdgesGoUp
    <2>5. e[1] \in Level(k)
      BY <2>1, <2>4, DepthType DEF Level
    <2> QED
      BY <2>3, <2>4, <2>5
  <1> QED
    BY <1>1, <1>2

(* Executing a level makes everything below the next one done.             *)
LEMMA BelowGrows ==
  ASSUME NEW k \in Nat
  PROVE  Below(k) \union Level(k) = Below(k + 1)
  BY DepthType DEF Below, Level

(* All edges to the nodes of a level come from below it.                   *)
LEMMA LevelIsReady ==
  ASSUME NEW k \in Nat, NEW n \in Level(k), NEW m, <<m, n>> \in GraphEdges
  PROVE  m \in Below(k)
  <1> DEFINE e == <<m, n>>
  <1>1. e \in GraphEdges /\ e[1] = m /\ e[2] = n
    OBVIOUS
  <1>2. m \in GraphNodes /\ Depth[n] = Depth[m] + 1
    BY <1>1, EdgesGoUp
  <1> QED
    BY <1>2, DepthType DEF Level, Below

(* When no node is left to execute, every node is done.                    *)
LEMMA EmptyLevelIsTheEnd ==
  ASSUME NEW k \in Nat, Level(k) = {}, NEW r, done[r] = Below(k),
         \A j \in 0 .. 11 : Level(j) # {}
  PROVE  done[r] = GraphNodes
  BY DepthType DEF Below

(* No level up to the last is empty.                                       *)
LEMMA LevelsAreNotEmpty == \A j \in 0 .. 11 : Level(j) # {}
  <1> DEFINE N == <<"build_account_facts", "load_user_investment_policy", "load_behavior_profile_context",
                    "account_fit", "build_card_pack", "ai_policy_assessment", "bull_thesis",
                    "bull_rebuttal", "debate_judge", "trade_plan", "compose_decision", "persist_decision">>
  <1>1. ASSUME NEW j \in 0 .. 11 PROVE N[j + 1] \in GraphNodes /\ Depth[N[j + 1]] = j
    BY DEF GraphNodes, Depth, Evidence, Theses, Rebuttals
  <1> QED
    BY <1>1 DEF Level

-----------------------------------------------------------------------------
(* The functions of a run are defined for all runs, and documents have the *)
(* fields of NoDoc.                                                        *)
Shape ==
    /\ DOMAIN step = Runs /\ DOMAIN done = Runs /\ DOMAIN phase = Runs
    /\ DOMAIN doc = Runs /\ DOMAIN answer = Runs
    /\ \A r \in Runs : DOMAIN doc[r] = DOMAIN NoDoc

(* A superstep is a level, and what is below it is done.                   *)
Levelled == \A r \in Runs : \E k \in Nat : step[r] = Level(k) /\ done[r] = Below(k)

(* Nothing is answered before the run returns, the fallback is             *)
(* conservative, and a document that is not has been made by all nodes.    *)
Answering ==
    \A r \in Runs :
        /\ phase[r] # "returned" => answer[r] = "none"
        /\ phase[r] = "fallback" => doc[r].conservative
        /\ phase[r] = "finalize" => doc[r].conservative \/ done[r] = GraphNodes

IInv == Shape /\ Levelled /\ Answering

(* What all three kinds of superstep have in common.                       *)
Advances(r) ==
    /\ phase[r] = "graph"
    /\ done' = [done EXCEPT ![r] = @ \union step[r]]
    /\ step' = [step EXCEPT ![r] = {e[2] : e \in {f \in GraphEdges : f[1] \in step[r]}}]
    /\ UNCHANGED <<phase, answer>>
    /\ doc' = doc \/ \E d : DOMAIN d = DOMAIN NoDoc /\ doc' = [doc EXCEPT ![r] = d]

(* The nodes that prepare the decision, compose_decision and               *)
(* persist_decision are executed in supersteps (graph.py:58-181).          *)
LEMMA SuperstepsAdvance ==
  ASSUME NEW r \in Runs, Shape, Prepare(r) \/ Compose(r) \/ Persist(r)
  PROVE  Advances(r)
  <1>1. CASE Prepare(r)
    BY <1>1 DEF Prepare, Superstep, Advances
  <1>2. CASE Compose(r)
    <2>1. phase[r] = "graph" /\ UNCHANGED <<phase, answer>>
          /\ done' = [done EXCEPT ![r] = @ \union step[r]]
          /\ step' = [step EXCEPT ![r] = {e[2] : e \in {f \in GraphEdges : f[1] \in step[r]}}]
      BY <1>2 DEF Compose, Superstep
    <2> DEFINE d == [NoDoc EXCEPT !.run = r, !.id = <<"tdc", time>>]
    <2>2. DOMAIN d = DOMAIN NoDoc
      BY DEF NoDoc
    <2>3. doc' = doc \/ doc' = [doc EXCEPT ![r] = d]
      BY <1>2 DEF Compose
    <2> QED
      BY <2>1, <2>2, <2>3 DEF Advances
  <1>3. CASE Persist(r)
    <2>1. phase[r] = "graph" /\ UNCHANGED <<phase, answer>>
          /\ done' = [done EXCEPT ![r] = @ \union step[r]]
          /\ step' = [step EXCEPT ![r] = {e[2] : e \in {f \in GraphEdges : f[1] \in step[r]}}]
      BY <1>3 DEF Persist, Superstep
    <2> DEFINE d == [doc[r] EXCEPT !.traced = traces[r] \union {<<"persist_decision", "success">>}]
    <2>2. DOMAIN d = DOMAIN NoDoc
      BY DEF Shape
    <2>3. doc' = doc \/ doc' = [doc EXCEPT ![r] = d]
      BY <1>3 DEF Persist
    <2> QED
      BY <2>1, <2>2, <2>3 DEF Advances
  <1> QED
    BY <1>1, <1>2, <1>3

LEMMA IInvInit == Init => IInv
  <1> SUFFICES ASSUME Init PROVE IInv
    OBVIOUS
  <1>1. Shape
    BY DEF Init, Shape
  <1>2. Below(0) = {}
    BY DepthType DEF Below
  <1>3. Levelled
    BY <1>2, EntryIsLevelZero DEF Init, Levelled
  <1>4. Answering
    BY DEF Init, Answering
  <1> QED
    BY <1>1, <1>3, <1>4 DEF IInv

LEMMA AdvancesKeepsIInv ==
  ASSUME IInv, NEW r \in Runs, Advances(r)
  PROVE  IInv'
  <1> USE DEF IInv
  <1>1. Shape'
    BY DEF Shape, Advances
  <1>2. Levelled'
    <2> SUFFICES ASSUME NEW q \in Runs
                 PROVE  \E k \in Nat : step'[q] = Level(k) /\ done'[q] = Below(k)
      BY DEF Levelled
    <2>1. PICK k \in Nat : step[q] = Level(k) /\ done[q] = Below(k)
      BY DEF Levelled
    <2>2. CASE q = r
      <3>1. step'[q] = {e[2] : e \in {f \in GraphEdges : f[1] \in Level(k)}}
        BY <2>1, <2>2 DEF Advances, Shape
      <3>2. done'[q] = Below(k) \union Level(k)
        BY <2>1, <2>2 DEF Advances, Shape
      <3>3. step'[q] = Level(k + 1) /\ done'[q] = Below(k + 1)
        BY <3>1, <3>2, NextLevel, BelowGrows
      <3> QED
        BY <3>3
    <2>3. CASE q # r
      BY <2>1, <2>3 DEF Advances, Shape
    <2> QED
      BY <2>2, <2>3
  <1>3. Answering'
    <2> SUFFICES ASSUME NEW q \in Runs
                 PROVE  /\ phase[q] # "returned" => answer[q] = "none"
                        /\ phase[q] = "fallback" => doc'[q].conservative
                        /\ phase[q] = "finalize" => doc'[q].conservative \/ done'[q] = GraphNodes
      BY DEF Answering, Advances
    <2>1. CASE q = r
      BY <2>1 DEF Answering, Advances
    <2>2. CASE q # r
      <3>1. doc'[q] = doc[q] /\ done'[q] = done[q]
        BY <2>2 DEF Advances, Shape
      <3> QED
        BY <3>1 DEF Answering
    <2> QED
      BY <2>1, <2>2
  <1> QED
    BY <1>1, <1>2, <1>3

(* Of a run that the runner works on.                                      *)
LEMMA RunnerKeepsIInv ==
  ASSUME IInv, NEW r \in Runs, Raise(r) \/ Collect(r) \/ SaveFallback(r) \/ Finalize(r)
  PROVE  IInv'
  <1> USE DEF IInv
  <1>0. UNCHANGED <<step, done>>
    BY DEF Raise, Collect, SaveFallback, Finalize, graph
  <1>1. Levelled'
    BY <1>0 DEF Levelled
  <1>a. DOMAIN Conservative(r) = DOMAIN NoDoc /\ Conservative(r).conservative
    BY DEF Conservative, NoDoc
  <1> DEFINE Stored == [doc[r] EXCEPT !.id = <<"uuid", r, 1>>]
             Final == [doc[r] EXCEPT !.final = TRUE]
  <1>b. DOMAIN Stored = DOMAIN NoDoc /\ Stored.conservative = doc[r].conservative
    BY DEF Shape, NoDoc
  <1>c. DOMAIN Final = DOMAIN NoDoc /\ Final.conservative = doc[r].conservative
    BY DEF Shape, NoDoc
  <1> HIDE DEF Stored, Final
  <1>2. CASE Raise(r)
    <2>1. doc' = [doc EXCEPT ![r] = Conservative(r)] /\ phase' = [phase EXCEPT ![r] = "fallback"]
          /\ answer' = answer /\ phase[r] = "graph"
      BY <1>2 DEF Raise, Goto
    <2>2. Shape'
      BY <2>1, <1>0, <1>a DEF Shape
    <2>3. Answering'
      BY <2>1, <1>0, <1>a DEF Shape, Answering
    <2> QED
      BY <1>1, <2>2, <2>3
  <1>3. CASE Collect(r)
    <2>1. /\ answer' = answer /\ phase[r] = "graph" /\ step[r] = {}
          /\ \/ doc' = doc /\ phase' = [phase EXCEPT ![r] = "finalize"]
             \/ doc' = [doc EXCEPT ![r] = Conservative(r)] /\ phase' = [phase EXCEPT ![r] = "fallback"]
      BY <1>3 DEF Collect, Goto
    <2>2. Shape'
      BY <2>1, <1>0, <1>a DEF Shape
    <2>3. done[r] = GraphNodes
      <3>1. PICK k \in Nat : step[r] = Level(k) /\ done[r] = Below(k)
        BY DEF Levelled
      <3> QED
        BY <2>1, <3>1, LevelsAreNotEmpty, EmptyLevelIsTheEnd
    <2>4. Answering'
      BY <2>1, <2>3, <1>0, <1>a DEF Shape, Answering
    <2> QED
      BY <1>1, <2>2, <2>4
  <1>4. CASE SaveFallback(r)
    <2>1. /\ answer' = answer /\ phase[r] = "fallback"
          /\ phase' = [phase EXCEPT ![r] = "finalize"]
          /\ doc' = doc \/ doc' = [doc EXCEPT ![r] = Stored]
      BY <1>4 DEF SaveFallback, Goto, Stored
    <2>2. Shape'
      BY <2>1, <1>0, <1>b DEF Shape
    <2>3. Answering'
      BY <2>1, <1>0, <1>b DEF Shape, Answering
    <2> QED
      BY <1>1, <2>2, <2>3
  <1>5. CASE Finalize(r)
    <2>1. /\ phase[r] = "finalize" /\ phase' = [phase EXCEPT ![r] = "returned"]
          /\ doc' = [doc EXCEPT ![r] = Final]
          /\ DOMAIN answer' = DOMAIN answer
          /\ \A q \in Runs \ {r} : answer'[q] = answer[q]
      BY <1>5 DEF Finalize, Goto, Final, Shape
    <2>2. Shape'
      BY <2>1, <1>0, <1>c DEF Shape
    <2>3. Answering'
      BY <2>1, <1>0, <1>c DEF Shape, Answering
    <2> QED
      BY <1>1, <2>2, <2>3
  <1> QED
    BY <1>2, <1>3, <1>4, <1>5

LEMMA IInvNext == IInv /\ [Next]_vars => IInv'
  <1> SUFFICES ASSUME IInv, [Next]_vars PROVE IInv'
    OBVIOUS
  <1>1. CASE Tick \/ UNCHANGED vars
    BY <1>1 DEF Tick, vars, graph, IInv, Shape, Levelled, Answering
  <1>2. ASSUME NEW r \in Runs, Step(r) PROVE IInv'
    <2>1. CASE Prepare(r) \/ Compose(r) \/ Persist(r)
      BY <2>1, SuperstepsAdvance, AdvancesKeepsIInv DEF IInv
    <2>2. CASE Raise(r) \/ Collect(r) \/ SaveFallback(r) \/ Finalize(r)
      BY <2>2, RunnerKeepsIInv
    <2> QED
      BY <1>2, <2>1, <2>2 DEF Step
  <1> QED
    BY <1>1, <1>2 DEF Next

(* In every run a superstep is one level of the graph, and all nodes below *)
(* it have been executed (graph.py:116-181, runner.py:85-132).             *)
THEOREM SuperstepsAreLevels == Spec => []IInv
  BY IInvInit, IInvNext, PTL DEF Spec

(* No node is executed a second time, although a node with several edges   *)
(* to it is started by each of them (graph.py:116-181).                    *)
THEOREM NoNodeRunsTwice == Spec => [](\A r \in Runs : step[r] \intersect done[r] = {})
  <1>1. IInv => \A r \in Runs : step[r] \intersect done[r] = {}
    BY DepthType DEF IInv, Levelled, Level, Below
  <1> QED
    BY <1>1, SuperstepsAreLevels, PTL

-----------------------------------------------------------------------------
LEMMA AdvancesExecutes ==
  ASSUME IInv, NEW r \in Runs, Advances(r)
  PROVE  Abstract!Execute(r)
  <1>1. PICK k \in Nat : step[r] = Level(k) /\ done[r] = Below(k)
    BY DEF IInv, Levelled
  <1>2. answer[r] = "none" /\ answer' = answer
    BY DEF IInv, Answering, Advances
  <1>3. done'[r] = done[r] \union step[r] /\ \A q \in Runs \ {r} : done'[q] = done[q]
    BY DEF IInv, Shape, Advances
  <1>4. done'[r] \subseteq GraphNodes
    BY <1>1, <1>3 DEF Level, Below
  <1>5. ASSUME NEW n \in done'[r] \ done[r] PROVE Abstract!Before(n) \subseteq done[r]
    <2>1. n \in Level(k)
      BY <1>1, <1>3, <1>5
    <2> QED
      BY <1>1, <2>1, LevelIsReady DEF Abstract!Before
  <1> QED
    BY <1>2, <1>3, <1>4, <1>5 DEF Abstract!Execute

LEMMA StepRefines == IInv /\ [Next]_vars => [Abstract!Next]_(Abstract!vars)
  <1> SUFFICES ASSUME IInv, [Next]_vars
               PROVE  Abstract!Next \/ UNCHANGED <<done, answer>>
    BY DEF Abstract!vars
  <1>1. CASE Tick \/ UNCHANGED vars
    BY <1>1 DEF Tick, vars, graph
  <1>2. ASSUME NEW r \in Runs, Step(r)
        PROVE  Abstract!Next \/ UNCHANGED <<done, answer>>
    <2>1. CASE Prepare(r) \/ Compose(r) \/ Persist(r)
      BY <2>1, SuperstepsAdvance, AdvancesExecutes DEF IInv, Abstract!Next
    <2>2. CASE Raise(r) \/ Collect(r) \/ SaveFallback(r)
      BY <2>2 DEF Raise, Collect, SaveFallback, graph
    <2>3. CASE Finalize(r)
      <3>1. answer[r] = "none" /\ (doc[r].conservative \/ done[r] = GraphNodes)
        BY <2>3 DEF Finalize, IInv, Answering
      <3>2. done' = done
        BY <2>3 DEF Finalize, graph
      <3>3. answer' = [answer EXCEPT ![r] = IF doc[r].conservative THEN "conservative" ELSE "made"]
        BY <2>3 DEF Finalize
      <3>4. Abstract!Answer(r)
        BY <3>1, <3>2, <3>3 DEF Abstract!Answer
      <3> QED
        BY <3>4 DEF Abstract!Next
    <2> QED
      BY <1>2, <2>1, <2>2, <2>3 DEF Step
  <1> QED
    BY <1>1, <1>2 DEF Next

(* The graph and its runner implement GraphRun for any runs and faults:    *)
(* nodes are executed after all nodes they have an edge from, and an       *)
(* answer that is not conservative is the work of all of them              *)
(* (graph.py:116-181, runner.py:85-132).                                   *)
THEOREM ImplementsTheGraph == Spec => ImplementsGraphRun
  <1>1. Init => Abstract!Init
    BY DEF Init, Abstract!Init
  <1> QED
    BY <1>1, SuperstepsAreLevels, StepRefines, PTL DEF Spec, ImplementsGraphRun, Abstract!Spec

-----------------------------------------------------------------------------
(* The fields that only a decision with account facts leads to.            *)
DecisionFields == {"account_fact_snapshot", "card_pack", "decision_output", "saved_document"}
NoFacts(r) == <<"build_account_facts", "failed">> \in traces[r]
HasFacts(r) == fields[r] \intersect DecisionFields # {}

Typed == DOMAIN fields = Runs /\ DOMAIN traces = Runs

FactsComeFirst ==
    \A r \in Runs :
        /\ NoFacts(r) => "build_account_facts" \in done[r]
        /\ HasFacts(r) => "build_account_facts" \in done[r] /\ ~NoFacts(r)
        /\ "saved_document" \in fields[r] => "decision_output" \in fields[r]

DocumentsAreOwn ==
    \A r \in Runs :
        /\ "decision_output" \in fields[r] => doc[r].run = r
        /\ phase[r] # "graph" =>
              doc[r].run = r /\ (doc[r].conservative \/ "saved_document" \in fields[r])

RowsHaveFacts == \A d \in rows : d.run \in Runs /\ (d.conservative \/ HasFacts(d.run))

FInv == Typed /\ FactsComeFirst /\ DocumentsAreOwn /\ RowsHaveFacts

(* A node writes its field, if at all; the nodes that write a decision     *)
(* field write nothing in their except branch, and but for the first they  *)
(* need such a field (nodes.py:133-182, 754-848, 1283-1545).               *)
LEMMA FieldsNeedFields ==
  ASSUME NEW r \in Runs, NEW n \in GraphNodes, n # "build_account_facts",
         NEW b \in Outcomes(r, n), NEW f \in Written(n, b), f \in DecisionFields
  PROVE  /\ HasFacts(r)
         /\ f = "saved_document" => "decision_output" \in fields[r] /\ n = "persist_decision"
         /\ f = "decision_output" => n = "compose_decision" /\ b
  <1>1. f = NodeOf(n).field /\ (b \/ NodeOf(n).otherwise = "fallback")
    BY DEF Written
  <1>2. b => NodeOf(n).needs \subseteq fields[r]
    BY DEF Outcomes
  <1>3. n \in {"build_card_pack", "compose_decision", "persist_decision"}
    BY <1>1 DEF DecisionFields, GraphNodes, Evidence, Theses, Rebuttals, NodeOf, Node,
        LoadUserInvestmentPolicy, LoadBehaviorProfileContext, AccountFit, MarketTrend,
        FundamentalValuation, EventCatalyst, MarketEventContext, AiPolicyAssessment, BullThesis,
        BearThesis, BullRebuttal, BearRebuttal, DebateJudge, TradePlanNode
  <1>4. CASE n = "build_card_pack"
    BY <1>1, <1>2, <1>4 DEF NodeOf, Node, BuildCardPack, HasFacts, DecisionFields
  <1>5. CASE n = "compose_decision"
    BY <1>1, <1>2, <1>5 DEF NodeOf, Node, ComposeDecision, HasFacts, DecisionFields
  <1>6. CASE n = "persist_decision"
    BY <1>1, <1>2, <1>6 DEF NodeOf, Node, PersistDecision, HasFacts, DecisionFields
  <1> QED
    BY <1>3, <1>4, <1>5, <1>6

(* What a superstep writes and traces.                                     *)
LEMMA SuperstepKeepsFacts ==
  ASSUME IInv, FInv, NEW r \in Runs, NEW works, Superstep(r, works)
  PROVE  /\ Typed' /\ FactsComeFirst'
         /\ \A q \in Runs : fields[q] \subseteq fields'[q]
         /\ \A q \in Runs : "decision_output" \in fields'[q] =>
               \/ "decision_output" \in fields[q]
               \/ q = r /\ "compose_decision" \in step[r] /\ works["compose_decision"]
  <1> DEFINE New == UNION {Written(n, works[n]) : n \in step[r]}
             Told == {<<n, Status(n, works[n])>> : n \in step[r]}
  <1>1. /\ fields' = [fields EXCEPT ![r] = @ \union New]
        /\ traces' = [traces EXCEPT ![r] = @ \union Told]
        /\ done' = [done EXCEPT ![r] = @ \union step[r]]
    BY DEF Superstep, Merged
  <1>2. \A n \in step[r] : works[n] \in Outcomes(r, n)
    BY DEF Superstep
  <1>3. Typed'
    BY <1>1 DEF FInv, Typed
  <1>4. fields'[r] = fields[r] \union New /\ traces'[r] = traces[r] \union Told
        /\ done'[r] = done[r] \union step[r]
    BY <1>1 DEF FInv, Typed, IInv, Shape
  <1>5. \A q \in Runs \ {r} : fields'[q] = fields[q] /\ traces'[q] = traces[q] /\ done'[q] = done[q]
    BY <1>1 DEF FInv, Typed, IInv, Shape
  <1>6. PICK k \in Nat : step[r] = Level(k) /\ done[r] = Below(k)
    BY DEF IInv, Levelled
  <1>7. step[r] \subseteq GraphNodes
    BY <1>6 DEF Level
  <1>8. ASSUME NEW f \in New, f \in DecisionFields
        PROVE  \/ step[r] = {"build_account_facts"} /\ f = "account_fact_snapshot"
                  /\ works["build_account_facts"]
               \/ /\ HasFacts(r)
                  /\ f = "saved_document" => "decision_output" \in fields[r]
                  /\ f = "decision_output" =>
                        "compose_decision" \in step[r] /\ works["compose_decision"]
    <2>1. PICK n \in step[r] : f \in Written(n, works[n])
      BY <1>8
    <2>2. CASE n = "build_account_facts"
      <3>1. k = 0 /\ step[r] = {"build_account_facts"}
        BY <1>6, <2>1, <2>2, EntryIsLevelZero DEF Level, Entry, GraphNodes, Depth
      <3>2. f = "account_fact_snapshot" /\ works[n]
        BY <2>1, <2>2 DEF Written, NodeOf, Node, BuildAccountFacts
      <3> QED
        BY <2>2, <3>1, <3>2
    <2>3. CASE n # "build_account_facts"
      BY <1>2, <1>7, <1>8, <2>1, <2>3, FieldsNeedFields
    <2> QED
      BY <2>2, <2>3
  <1>9. CASE step[r] = {"build_account_facts"}
    <2>1. done[r] = {} \/ "build_account_facts" \notin done[r]
      BY <1>6, <1>9, DepthType DEF Level, Below
    <2>2. ~HasFacts(r) /\ ~NoFacts(r)
      BY <2>1 DEF FInv, FactsComeFirst
    <2>3. Told = {<<"build_account_facts", Status("build_account_facts", works["build_account_facts"])>>}
      BY <1>9
    <2>4. works["build_account_facts"] => Status("build_account_facts", works["build_account_facts"]) = "success"
      BY DEF Status
    <2>5. works["build_account_facts"] => ~NoFacts(r)'
      BY <1>4, <2>2, <2>3, <2>4 DEF NoFacts
    <2>6. "build_account_facts" \in done'[r]
      BY <1>4, <1>9
    <2>7. HasFacts(r)' => works["build_account_facts"]
      BY <1>4, <1>8, <2>2 DEF HasFacts
    <2>8. "saved_document" \notin fields'[r] /\ "decision_output" \notin fields'[r]
      BY <1>4, <1>8, <2>2 DEF HasFacts, DecisionFields
    <2>9. FactsComeFirst'
      BY <1>5, <2>5, <2>6, <2>7, <2>8 DEF FInv, FactsComeFirst, NoFacts, HasFacts
    <2> QED
      BY <1>3, <1>4, <1>5, <2>8, <2>9
  <1>10. CASE step[r] # {"build_account_facts"}
    <2>1. "build_account_facts" \notin step[r]
      BY <1>6, <1>10, EntryIsLevelZero DEF Level, Entry, GraphNodes, Depth
    <2>2. NoFacts(r)' <=> NoFacts(r)
      BY <1>4, <2>1 DEF NoFacts
    <2>3. HasFacts(r)' => HasFacts(r)
      BY <1>4, <1>8, <1>10 DEF HasFacts
    <2>4. "saved_document" \in fields'[r] => "decision_output" \in fields'[r]
      BY <1>4, <1>8, <1>10 DEF FInv, FactsComeFirst, DecisionFields
    <2>5. "decision_output" \in fields'[r] =>
             \/ "decision_output" \in fields[r]
             \/ "compose_decision" \in step[r] /\ works["compose_decision"]
      BY <1>4, <1>8, <1>10 DEF DecisionFields
    <2>6. FactsComeFirst'
      BY <1>4, <1>5, <2>2, <2>3, <2>4 DEF FInv, FactsComeFirst, NoFacts, HasFacts
    <2> QED
      BY <1>3, <1>4, <1>5, <2>5, <2>6
  <1> QED
    BY <1>9, <1>10

LEMMA FInvInit == Init => FInv
  BY DEF Init, FInv, Typed, FactsComeFirst, DocumentsAreOwn, RowsHaveFacts, NoFacts, HasFacts

(* Rows that have facts keep them.                                         *)
LEMMA RowsKeepFacts ==
  ASSUME FInv, \A q \in Runs : fields[q] \subseteq fields'[q],
         \A d \in rows' : d \in rows \/ (d.run \in Runs /\ (d.conservative \/ HasFacts(d.run)'))
  PROVE  RowsHaveFacts'
  <1>1. \A q \in Runs : HasFacts(q) => HasFacts(q)'
    BY DEF HasFacts
  <1> QED
    BY <1>1 DEF FInv, RowsHaveFacts

LEMMA PrepareKeepsFInv ==
  ASSUME IInv, FInv, NEW r \in Runs, Prepare(r)
  PROVE  FInv'
  <1>1. PICK works : Superstep(r, works)
    BY DEF Prepare
  <1>2. "compose_decision" \notin step[r] /\ UNCHANGED <<doc, rows, phase>>
    BY <1>1 DEF Prepare, Superstep
  <1>3. Typed' /\ FactsComeFirst' /\ \A q \in Runs : fields[q] \subseteq fields'[q]
    BY <1>1, SuperstepKeepsFacts
  <1>4. \A q \in Runs : "decision_output" \in fields'[q] => "decision_output" \in fields[q]
    BY <1>1, <1>2, SuperstepKeepsFacts
  <1>5. DocumentsAreOwn'
    BY <1>2, <1>3, <1>4 DEF FInv, DocumentsAreOwn
  <1>6. RowsHaveFacts'
    BY <1>2, <1>3, RowsKeepFacts
  <1> QED
    BY <1>3, <1>5, <1>6 DEF FInv

LEMMA ComposeKeepsFInv ==
  ASSUME IInv, FInv, NEW r \in Runs, Compose(r)
  PROVE  FInv'
  <1> DEFINE made == [NoDoc EXCEPT !.run = r, !.id = <<"tdc", time>>]
  <1>1. PICK w \in BOOLEAN :
          /\ Superstep(r, [n \in step[r] |-> w])
          /\ IF w THEN doc' = [doc EXCEPT ![r] = made] ELSE doc' = doc
    BY DEF Compose
  <1>2. step[r] = {"compose_decision"} /\ UNCHANGED <<rows, phase>> /\ phase[r] = "graph"
    BY <1>1 DEF Compose, Superstep
  <1>3. Typed' /\ FactsComeFirst' /\ \A q \in Runs : fields[q] \subseteq fields'[q]
    BY <1>1, SuperstepKeepsFacts
  <1>4. \A q \in Runs : "decision_output" \in fields'[q] =>
            "decision_output" \in fields[q] \/ (q = r /\ w)
    <2> DEFINE works == [n \in step[r] |-> w]
    <2>1. "compose_decision" \in step[r] /\ works["compose_decision"] = w
      BY <1>2
    <2>2. Superstep(r, works)
      BY <1>1
    <2> HIDE DEF works
    <2> QED
      BY <2>1, <2>2, SuperstepKeepsFacts
  <1>5. made.run = r
    BY DEF NoDoc
  <1>6. \A q \in Runs \ {r} : doc'[q] = doc[q]
    BY <1>1 DEF IInv, Shape
  <1>7. w => doc'[r].run = r
    BY <1>1, <1>5 DEF IInv, Shape
  <1>8. ~w => doc'[r] = doc[r]
    BY <1>1
  <1>9. DocumentsAreOwn'
    BY <1>2, <1>3, <1>4, <1>6, <1>7, <1>8 DEF FInv, DocumentsAreOwn
  <1>10. RowsHaveFacts'
    BY <1>2, <1>3, RowsKeepFacts
  <1> QED
    BY <1>3, <1>9, <1>10 DEF FInv

LEMMA PersistKeepsFInv ==
  ASSUME IInv, FInv, NEW r \in Runs, Persist(r)
  PROVE  FInv'
  <1> DEFINE told == [doc[r] EXCEPT !.traced = traces[r] \union {<<"persist_decision", "success">>}]
  <1>1. PICK w \in BOOLEAN :
          /\ Superstep(r, [n \in step[r] |-> w])
          /\ IF w THEN doc' = [doc EXCEPT ![r] = told] /\ Store(told) ELSE UNCHANGED <<doc, rows>>
    BY DEF Persist
  <1>2. step[r] = {"persist_decision"} /\ UNCHANGED phase /\ phase[r] = "graph"
    BY <1>1 DEF Persist, Superstep
  <1>3. Typed' /\ FactsComeFirst' /\ \A q \in Runs : fields[q] \subseteq fields'[q]
    BY <1>1, SuperstepKeepsFacts
  <1>4. \A q \in Runs : "decision_output" \in fields'[q] => "decision_output" \in fields[q]
    BY <1>1, <1>2, SuperstepKeepsFacts
  <1>5. told.run = doc[r].run
    BY DEF IInv, Shape, NoDoc
  <1>6. \A q \in Runs : doc'[q].run = doc[q].run /\ (q # r => doc'[q] = doc[q])
    <2> HIDE DEF told
    <2> QED
      BY <1>1, <1>5 DEF IInv, Shape
  <1>7. DocumentsAreOwn'
    BY <1>2, <1>3, <1>4, <1>6 DEF FInv, DocumentsAreOwn
  <1>8. w => "decision_output" \in fields[r]
    <2> DEFINE works == [n \in step[r] |-> w]
    <2>1. "persist_decision" \in step[r] /\ works["persist_decision"] = w
      BY <1>2
    <2>2. works["persist_decision"] \in Outcomes(r, "persist_decision")
      BY <1>1, <2>1 DEF Superstep
    <2>3. w => NodeOf("persist_decision").needs \subseteq fields[r]
      BY <2>1, <2>2 DEF Outcomes
    <2> QED
      BY <2>3 DEF NodeOf, Node, PersistDecision
  <1>9. w => told.run = r /\ HasFacts(r)'
    BY <1>3, <1>5, <1>8 DEF FInv, DocumentsAreOwn, HasFacts, DecisionFields
  <1>10. \A d \in rows' : d \in rows \/ (w /\ d = told)
    <2> HIDE DEF told
    <2> QED
      BY <1>1 DEF Store
  <1>11. RowsHaveFacts'
    BY <1>3, <1>9, <1>10, RowsKeepFacts
  <1> QED
    BY <1>3, <1>7, <1>11 DEF FInv

LEMMA RunnerKeepsFInv ==
  ASSUME IInv, FInv, NEW r \in Runs, Raise(r) \/ Collect(r) \/ SaveFallback(r) \/ Finalize(r)
  PROVE  FInv'
  <1>1. UNCHANGED <<fields, traces, done>>
    BY DEF Raise, Collect, SaveFallback, Finalize, graph
  <1>2. Typed' /\ FactsComeFirst'
    BY <1>1 DEF FInv, Typed, FactsComeFirst, NoFacts, HasFacts
  <1>3. \A q \in Runs : HasFacts(q)' <=> HasFacts(q)
    BY <1>1 DEF HasFacts
  <1> DEFINE Own(d) == d.run = r /\ (d.conservative \/ "saved_document" \in fields[r])
             Stored == [doc[r] EXCEPT !.id = <<"uuid", r, 1>>]
             Final == [doc[r] EXCEPT !.final = TRUE]
             Named == [Final EXCEPT !.id = <<"uuid", r, 2>>]
  <1>4. Own(Conservative(r))
    BY DEF Conservative, NoDoc
  <1>5. /\ Stored.run = doc[r].run /\ Stored.conservative = doc[r].conservative
        /\ Final.run = doc[r].run /\ Final.conservative = doc[r].conservative
        /\ DOMAIN Final = DOMAIN NoDoc
    BY DEF IInv, Shape, NoDoc
  <1> HIDE DEF Stored, Final
  <1>6. Named.run = doc[r].run /\ Named.conservative = doc[r].conservative
    BY <1>5 DEF NoDoc
  <1> HIDE DEF Named
  <1>7. phase[r] # "graph" => Own(doc[r]) /\ Own(Stored) /\ Own(Final) /\ Own(Named)
    BY <1>5, <1>6 DEF FInv, DocumentsAreOwn
  <1>8. ASSUME NEW d, Own(d) PROVE d.run \in Runs /\ (d.conservative \/ HasFacts(d.run))
    BY <1>8 DEF HasFacts, DecisionFields
  <1>9. /\ \A q \in Runs \ {r} : phase'[q] = phase[q] /\ doc'[q] = doc[q]
        /\ Own(doc'[r])
        /\ \A d \in rows' : d \in rows \/ Own(d)
    <2>1. CASE Raise(r)
      BY <2>1, <1>4 DEF Raise, Goto, IInv, Shape
    <2>2. CASE Collect(r)
      <3>1. CASE "saved_document" \in fields[r]
        BY <2>2, <3>1 DEF Collect, Goto, IInv, Shape, FInv, FactsComeFirst, DocumentsAreOwn
      <3>2. CASE "saved_document" \notin fields[r]
        BY <2>2, <3>2, <1>4 DEF Collect, Goto, IInv, Shape
      <3> QED  BY <3>1, <3>2
    <2>3. CASE SaveFallback(r)
      <3>1. phase[r] = "fallback" /\ phase' = [phase EXCEPT ![r] = "finalize"]
            /\ \/ Store(Stored) /\ doc' = [doc EXCEPT ![r] = Stored]
               \/ UNCHANGED <<doc, rows>>
        BY <2>3 DEF SaveFallback, Goto, Stored
      <3> QED
        BY <3>1, <1>7 DEF Store, IInv, Shape
    <2>4. CASE Finalize(r)
      <3>1. /\ phase[r] = "finalize" /\ phase' = [phase EXCEPT ![r] = "returned"]
            /\ doc' = [doc EXCEPT ![r] = Final]
            /\ Store(Named) \/ Store(Final) \/ UNCHANGED rows
        BY <2>4 DEF Finalize, Goto, Final, Named
      <3> QED
        BY <3>1, <1>7 DEF Store, IInv, Shape
    <2> QED
      BY <2>1, <2>2, <2>3, <2>4
  <1>10. DocumentsAreOwn'
    BY <1>1, <1>9 DEF FInv, DocumentsAreOwn
  <1>11. RowsHaveFacts'
    BY <1>1, <1>3, <1>8, <1>9, RowsKeepFacts
  <1> QED
    BY <1>2, <1>10, <1>11 DEF FInv

LEMMA FInvNext == IInv /\ FInv /\ [Next]_vars => FInv'
  <1> SUFFICES ASSUME IInv, FInv, [Next]_vars PROVE FInv'
    OBVIOUS
  <1>1. CASE Tick \/ UNCHANGED vars
    BY <1>1 DEF Tick, vars, graph, FInv, Typed, FactsComeFirst, DocumentsAreOwn, RowsHaveFacts,
        NoFacts, HasFacts
  <1>2. ASSUME NEW r \in Runs, Step(r) PROVE FInv'
    BY <1>2, PrepareKeepsFInv, ComposeKeepsFInv, PersistKeepsFInv, RunnerKeepsFInv DEF Step
  <1> QED
    BY <1>1, <1>2 DEF Next

(* Without account facts only the runner's conservative document is stored *)
(* or answered, whatever nodes fail or fall back (nodes.py:133-182, 754-   *)
(* 848, 1283-1545; runner.py:85-294).                                      *)
THEOREM NoFactsNoDecisionAlways == Spec => []NoFactsNoDecision
  <1>1. IInv /\ FInv => NoFactsNoDecision
    <2> SUFFICES ASSUME IInv, FInv,
                        NEW d \in rows \union {doc[r] : r \in {q \in Runs : Returned(q)}},
                        NoFacts(d.run)
                 PROVE  d.conservative
      BY DEF NoFactsNoDecision, NoFacts
    <2>1. CASE d \in rows
      BY <2>1 DEF FInv, RowsHaveFacts, FactsComeFirst
    <2>2. ASSUME NEW r \in Runs, Returned(r), d = doc[r] PROVE d.conservative
      <3>1. d.run = r /\ (d.conservative \/ "saved_document" \in fields[r])
        BY <2>2 DEF FInv, DocumentsAreOwn, Returned
      <3> QED
        BY <3>1 DEF FInv, FactsComeFirst, HasFacts, DecisionFields
    <2> QED
      BY <2>1, <2>2
  <1> QED
    BY <1>1, FInvInit, FInvNext, IInvInit, SuperstepsAreLevels, PTL DEF Spec

-----------------------------------------------------------------------------
(* Of every node one pair and of nothing else.                             *)
OnePerNode(T, N) ==
    /\ {t[1] : t \in T} = N
    /\ \A t, u \in T : t[1] = u[1] => t = u

(* The traces of a run are of the nodes it has executed, one of each.      *)
TInv == \A r \in Runs : OnePerNode(traces[r], done[r])

LEMMA GraphNodesIsFinite == IsFiniteSet(GraphNodes)
  <1> DEFINE N == <<"build_account_facts", "load_user_investment_policy", "load_behavior_profile_context",
                    "account_fit", "market_trend", "fundamental_valuation", "event_catalyst",
                    "market_event_context", "build_card_pack", "ai_policy_assessment", "bull_thesis",
                    "bear_thesis", "bull_rebuttal", "bear_rebuttal", "debate_judge", "trade_plan",
                    "compose_decision", "persist_decision">>
             f == [i \in 1 .. 18 |-> N[i]]
  <1>1. \A i \in 1 .. 18 : N[i] \in GraphNodes
    BY DEF GraphNodes, Evidence, Theses, Rebuttals
  <1>2. \A n \in GraphNodes : \E i \in 1 .. 18 : N[i] = n
    BY DEF GraphNodes, Evidence, Theses, Rebuttals
  <1> HIDE DEF N
  <1>3. f \in Surjection(1 .. 18, GraphNodes)
    BY <1>1, <1>2 DEF Surjection
  <1>4. IsFiniteSet(1 .. 18)
    <2>1. 1 \in Int /\ 18 \in Int
      OBVIOUS
    <2> QED
      BY <2>1, FS_Interval, Zenon
  <1> QED
    BY <1>3, <1>4, FS_Surjection

(* A set of one pair per node has as many elements as there are nodes.     *)
LEMMA OnePerNodeCounts ==
  ASSUME NEW T, OnePerNode(T, GraphNodes)
  PROVE  /\ {t[1] : t \in T} = GraphNodes
         /\ Cardinality(T) = Cardinality(GraphNodes)
  <1> DEFINE f == [t \in T |-> t[1]]
  <1>1. f \in Injection(T, GraphNodes) /\ f \in Surjection(T, GraphNodes)
    BY DEF OnePerNode, Injection, Surjection, IsInjective
  <1> HIDE DEF f
  <1> QED
    BY <1>1, GraphNodesIsFinite, FS_Injection DEF OnePerNode

(* A superstep traces each of its nodes once (nodes.py, base_state.py:14-  *)
(* 16).                                                                    *)
LEMMA SuperstepTraces ==
  ASSUME IInv, Typed, TInv, NEW r \in Runs, NEW works, Superstep(r, works)
  PROVE  TInv'
  <1> DEFINE Told == {<<n, Status(n, works[n])>> : n \in step[r]}
  <1>1. /\ traces' = [traces EXCEPT ![r] = @ \union Told]
        /\ done' = [done EXCEPT ![r] = @ \union step[r]]
    BY DEF Superstep, Merged
  <1>2. step[r] \intersect done[r] = {}
    BY DepthType DEF IInv, Levelled, Level, Below
  <1>3. traces'[r] = traces[r] \union Told /\ done'[r] = done[r] \union step[r]
    BY <1>1 DEF Typed, IInv, Shape
  <1>4. \A q \in Runs \ {r} : traces'[q] = traces[q] /\ done'[q] = done[q]
    BY <1>1 DEF Typed, IInv, Shape
  <1>5. OnePerNode(Told, step[r])
    <2>1. \A t \in Told : t[1] \in step[r] /\ t = <<t[1], Status(t[1], works[t[1]])>>
      OBVIOUS
    <2>2. \A n \in step[r] : \E t \in Told : t[1] = n
      <3> SUFFICES ASSUME NEW n \in step[r] PROVE \E t \in Told : t[1] = n
        OBVIOUS
      <3>1. <<n, Status(n, works[n])>> \in Told
        OBVIOUS
      <3> HIDE DEF Told
      <3> QED
        BY <3>1
    <2> HIDE DEF Told
    <2>3. \A t, u \in Told : t[1] = u[1] => t = u
      BY <2>1, Zenon
    <2>4. {t[1] : t \in Told} = step[r]
      BY <2>1, <2>2
    <2> QED
      BY <2>3, <2>4 DEF OnePerNode
  <1> HIDE DEF Told
  <1>6. OnePerNode(traces'[r], done'[r])
    BY <1>2, <1>3, <1>5 DEF OnePerNode, TInv
  <1> QED
    BY <1>4, <1>6 DEF TInv

LEMMA TInvInit == Init => TInv
  BY DEF Init, TInv, OnePerNode

LEMMA TInvNext == IInv /\ Typed /\ TInv /\ [Next]_vars => TInv'
  <1> SUFFICES ASSUME IInv, Typed, TInv, [Next]_vars PROVE TInv'
    OBVIOUS
  <1>1. CASE UNCHANGED <<traces, done>>
    BY <1>1 DEF TInv
  <1>2. ASSUME NEW r \in Runs, NEW works, Superstep(r, works) PROVE TInv'
    BY <1>2, SuperstepTraces
  <1> QED
    BY <1>1, <1>2 DEF Next, Step, Tick, vars, graph, Prepare, Compose, Persist, Raise, Collect,
        SaveFallback, Finalize

Mine(r) == {row \in rows : row.run = r}

SecondsPass ==
    /\ time \in 0 .. MaxTime
    /\ composed \in [Runs -> 0 .. MaxTime + 1]

(* The ids that documents of a run are stored under.                       *)
OwnId(r, id) ==
    \/ id = <<"uuid", r, 1>> \/ id = <<"uuid", r, 2>>
    \/ composed[r] <= MaxTime /\ id = <<"tdc", composed[r]>>

Complete(d) == d.conservative \/ OnePerNode(d.traced, GraphNodes)

RowsAreOwn == \A row \in rows : row.run \in Runs /\ OwnId(row.run, row.id) /\ Complete(row)

(* While the graph runs: the decision is composed under its second and     *)
(* stored by the last node, or the run has no row.                         *)
InGraph(r) ==
    /\ "decision_output" \in fields[r] =>
          /\ composed[r] <= MaxTime /\ doc[r].id = <<"tdc", composed[r]>>
          /\ ~doc[r].conservative /\ ~doc[r].final
    /\ "saved_document" \in fields[r] =>
          /\ "persist_decision" \in done[r]
          /\ Complete(doc[r])
          /\ Mine(r) = {doc[r]} \/ SameSecond(r)
    /\ "saved_document" \notin fields[r] => Mine(r) = {}

Held(r) == {[row EXCEPT !.final = TRUE] : row \in Mine(r)}

(* How the rows of a run follow its phase.                                 *)
RunInv(r) ==
    /\ "compose_decision" \notin done[r] => composed[r] = MaxTime + 1
    /\ phase[r] = "graph" => InGraph(r)
    /\ phase[r] = "fallback" => Mine(r) = {} /\ doc[r] = Conservative(r)
    /\ phase[r] = "finalize" =>
          /\ Complete(doc[r]) /\ ~doc[r].final
          /\ \/ doc[r].id = NoId /\ Mine(r) = {}
             \/ OwnId(r, doc[r].id) /\ (Mine(r) = {doc[r]} \/ SameSecond(r))
    /\ phase[r] = "returned" =>
          \/ Held(r) = {doc[r]}
          \/ doc[r].id = NoId /\ Held(r) \subseteq {[doc[r] EXCEPT !.id = <<"uuid", r, 2>>]}
          \/ SameSecond(r)

RInv == SecondsPass /\ RowsAreOwn /\ \A r \in Runs : RunInv(r)

LEMMA RInvIsTheAnswer == RInv => AnswerIsTheRow
  <1> SUFFICES ASSUME RInv PROVE AnswerIsTheRow
    OBVIOUS
  <1>1. \A row \in rows : row.conservative \/ TraceIsComplete(row)
    BY OnePerNodeCounts DEF RInv, RowsAreOwn, Complete, TraceIsComplete
  <1>2. ASSUME NEW r \in Runs, Returned(r)
        PROVE  \/ Held(r) = {doc[r]}
               \/ doc[r].id = NoId /\ Held(r) \subseteq {[doc[r] EXCEPT !.id = <<"uuid", r, 2>>]}
               \/ SameSecond(r)
    BY <1>2 DEF RInv, RunInv, Returned
  <1> QED
    BY <1>1, <1>2 DEF AnswerIsTheRow, Held, Mine

LEMMA RInvInit == Init => RInv
  <1> SUFFICES ASSUME Init PROVE RInv
    OBVIOUS
  <1>1. SecondsPass
    BY MaxTimeAssumption DEF Init, SecondsPass
  <1>2. rows = {} /\ \A r \in Runs : phase[r] = "graph" /\ fields[r] = {} /\ composed[r] = MaxTime + 1
    BY DEF Init
  <1> QED
    BY <1>1, <1>2 DEF RInv, RowsAreOwn, RunInv, InGraph, Mine

(* What a step of run r may do to the second its id was made in and to the *)
(* rows: name it once, and store one document of its own.                  *)
Touches(r) ==
    /\ SecondsPass'
    /\ \A q \in Runs \ {r} : /\ phase'[q] = phase[q] /\ done'[q] = done[q] /\ doc'[q] = doc[q]
                             /\ fields'[q] = fields[q] /\ composed'[q] = composed[q]
    /\ composed'[r] = composed[r] \/ composed[r] = MaxTime + 1
    /\ \/ rows' = rows
       \/ \E d : Store(d) /\ d.run = r /\ OwnId(r, d.id)' /\ Complete(d)

LEMMA SecondsAreKept ==
  ASSUME RInv, NEW r \in Runs, Touches(r), NEW q \in Runs
  PROVE  /\ composed[q] <= MaxTime => composed'[q] = composed[q]
         /\ SameSecond(q) => SameSecond(q)'
         /\ \A id : OwnId(q, id) => OwnId(q, id)'
  <1>1. \A p \in Runs : composed[p] <= MaxTime => composed'[p] = composed[p]
    BY MaxTimeAssumption DEF RInv, SecondsPass, Touches
  <1> QED
    BY <1>1 DEF SameSecond, OwnId

(* The rows of another run stay, unless both were composed in one second.  *)
LEMMA OtherRowsAreKept ==
  ASSUME RInv, NEW r \in Runs, Touches(r), NEW q \in Runs \ {r}
  PROVE  /\ Mine(q)' \subseteq Mine(q)
         /\ Mine(q)' = Mine(q) \/ SameSecond(q)'
  <1>1. CASE rows' = rows
    BY <1>1 DEF Mine
  <1>2. ASSUME NEW d, Store(d), d.run = r, OwnId(r, d.id)'
        PROVE  /\ Mine(q)' \subseteq Mine(q)
               /\ Mine(q)' = Mine(q) \/ SameSecond(q)'
    <2>1. rows' = {row \in rows : row.id # d.id} \union {d}
      BY <1>2 DEF Store
    <2>2. Mine(q)' \subseteq Mine(q)
      BY <1>2, <2>1 DEF Mine
    <2>3. CASE \A row \in Mine(q) : row.id # d.id
      BY <1>2, <2>1, <2>3 DEF Mine
    <2>4. ASSUME NEW row \in Mine(q), row.id = d.id PROVE SameSecond(q)'
      <3>1. row.run = q /\ OwnId(q, row.id)
        BY <2>4 DEF Mine, RInv, RowsAreOwn
      <3>2. OwnId(q, d.id)' /\ OwnId(r, d.id)'
        BY <1>2, <2>4, <3>1, SecondsAreKept
      <3>3. composed'[q] <= MaxTime /\ composed'[r] = composed'[q]
        BY <3>2 DEF OwnId
      <3> QED
        BY <3>3 DEF SameSecond
    <2> QED
      BY <2>2, <2>3, <2>4
  <1> QED
    BY <1>1, <1>2 DEF Touches

(* So a step has to be followed only for the run that takes it.            *)
LEMMA OtherRunsAreKept ==
  ASSUME RInv, NEW r \in Runs, Touches(r), RunInv(r)'
  PROVE  RInv'
  <1>1. SecondsPass'
    BY DEF Touches
  <1>2. RowsAreOwn'
    <2> SUFFICES ASSUME NEW row \in rows'
                 PROVE  row.run \in Runs /\ OwnId(row.run, row.id)' /\ Complete(row)
      BY DEF RowsAreOwn, Complete
    <2>1. CASE row \in rows
      BY <2>1, SecondsAreKept DEF RInv, RowsAreOwn
    <2>2. CASE row \notin rows
      BY <2>2 DEF Touches, Store
    <2> QED
      BY <2>1, <2>2
  <1>3. ASSUME NEW q \in Runs \ {r} PROVE RunInv(q)'
    <2>1. /\ phase'[q] = phase[q] /\ done'[q] = done[q] /\ doc'[q] = doc[q]
          /\ fields'[q] = fields[q] /\ composed'[q] = composed[q]
      BY DEF Touches
    <2>2. /\ Mine(q)' \subseteq Mine(q)
          /\ Mine(q)' = Mine(q) \/ SameSecond(q)'
      BY OtherRowsAreKept
    <2>3. SameSecond(q) => SameSecond(q)'
      BY SecondsAreKept
    <2>a. OwnId(q, doc[q].id)' <=> OwnId(q, doc[q].id)
      BY <2>1 DEF OwnId
    <2>4. RunInv(q)
      BY DEF RInv
    <2>5. Held(q)' = Held(q) \/ SameSecond(q)'
      BY <2>2 DEF Held
    <2>6. InGraph(q) => InGraph(q)'
      BY <2>1, <2>2, <2>3 DEF InGraph, Complete
    <2> QED
      BY <2>1, <2>2, <2>3, <2>a, <2>4, <2>5, <2>6 DEF RunInv, Complete
  <1> QED
    BY <1>1, <1>2, <1>3 DEF RInv

(* The last two nodes are executed last and one after the other            *)
(* (graph.py:176-181).                                                     *)
LEMMA LastNodes ==
  ASSUME IInv, NEW r \in Runs
  PROVE  /\ step[r] # {} => "persist_decision" \notin done[r]
         /\ "compose_decision" \in step[r] => "compose_decision" \notin done[r]
         /\ "persist_decision" \in step[r] => done[r] \union {"persist_decision"} = GraphNodes
  <1>1. PICK k \in Nat : step[r] = Level(k) /\ done[r] = Below(k)
    BY DEF IInv, Levelled
  <1>2. Depth["persist_decision"] = 11 /\ "persist_decision" \in GraphNodes
    BY DEF Depth, GraphNodes, Evidence, Theses, Rebuttals
  <1>3. \A n \in GraphNodes : n # "persist_decision" => Depth[n] < 11
    BY DEF Depth, GraphNodes, Evidence, Theses, Rebuttals
  <1>4. step[r] # {} => k <= 11
    BY <1>1, DepthType DEF Level
  <1>5. "persist_decision" \in step[r] => k = 11
    BY <1>1, <1>2 DEF Level
  <1>6. "compose_decision" \in step[r] => "compose_decision" \notin done[r]
    BY <1>1, DepthType DEF Level, Below
  <1> QED
    BY <1>1, <1>2, <1>3, <1>4, <1>5, <1>6 DEF Below

(* Only persist_decision, when it works, leaves a saved document           *)
(* (nodes.py:1366-1545).                                                   *)
LEMMA OnlyPersistSaves ==
  ASSUME IInv, FInv, NEW r \in Runs, NEW works, Superstep(r, works),
         "saved_document" \in fields'[r]
  PROVE  \/ "saved_document" \in fields[r]
         \/ "persist_decision" \in step[r] /\ works["persist_decision"]
  <1> SUFFICES ASSUME "saved_document" \notin fields[r]
               PROVE  "persist_decision" \in step[r] /\ works["persist_decision"]
    OBVIOUS
  <1>1. fields'[r] = fields[r] \union UNION {Written(n, works[n]) : n \in step[r]}
    BY DEF Superstep, FInv, Typed
  <1>2. PICK n \in step[r] : "saved_document" \in Written(n, works[n])
    BY <1>1
  <1>3. works[n] \in Outcomes(r, n) /\ n \in GraphNodes
    BY DEF Superstep, IInv, Levelled, Level
  <1>4. n # "build_account_facts"
    BY <1>2 DEF Written, NodeOf, Node, BuildAccountFacts
  <1>5. n = "persist_decision"
    BY <1>2, <1>3, <1>4, FieldsNeedFields DEF DecisionFields
  <1>6. works[n]
    BY <1>2, <1>5 DEF Written, NodeOf, Node, PersistDecision
  <1> QED
    BY <1>5, <1>6

(* The frame of a superstep.                                               *)
LEMMA SuperstepFrame ==
  ASSUME IInv, FInv, NEW r \in Runs, NEW works, Superstep(r, works)
  PROVE  /\ phase[r] = "graph" /\ phase' = phase /\ time' = time
         /\ done'[r] = done[r] \union step[r]
         /\ \A q \in Runs \ {r} : done'[q] = done[q] /\ fields'[q] = fields[q]
         /\ fields[r] \subseteq fields'[r]
  BY DEF Superstep, IInv, Shape, FInv, Typed

LEMMA PrepareKeepsRInv ==
  ASSUME IInv, FInv, RInv, NEW r \in Runs, Prepare(r)
  PROVE  RInv'
  <1>1. PICK works : Superstep(r, works)
    BY DEF Prepare
  <1>2. "compose_decision" \notin step[r] /\ "persist_decision" \notin step[r]
        /\ UNCHANGED <<doc, rows, composed>>
    BY DEF Prepare
  <1>3. /\ phase[r] = "graph" /\ phase' = phase /\ time' = time
        /\ done'[r] = done[r] \union step[r]
        /\ \A q \in Runs \ {r} : done'[q] = done[q] /\ fields'[q] = fields[q]
    BY <1>1, SuperstepFrame
  <1>4. "decision_output" \in fields'[r] => "decision_output" \in fields[r]
    BY <1>1, <1>2, SuperstepKeepsFacts
  <1>5. "saved_document" \in fields'[r] <=> "saved_document" \in fields[r]
    BY <1>1, <1>2, OnlyPersistSaves, SuperstepFrame
  <1>6. Touches(r)
    BY <1>2, <1>3 DEF Touches, RInv, SecondsPass
  <1>7. RunInv(r)'
    BY <1>2, <1>3, <1>4, <1>5 DEF RInv, RunInv, InGraph, Mine, Complete, SameSecond
  <1> QED
    BY <1>6, <1>7, OtherRunsAreKept

(* A decision that is composed gets the id of its second, the only one its *)
(* run gets (nodes.py:1283-1363).                                          *)
LEMMA ComposeKeepsRInv ==
  ASSUME IInv, FInv, RInv, NEW r \in Runs, Compose(r)
  PROVE  RInv'
  <1> DEFINE made == [NoDoc EXCEPT !.run = r, !.id = <<"tdc", time>>]
  <1>1. PICK w \in BOOLEAN :
          /\ Superstep(r, [n \in step[r] |-> w])
          /\ IF w THEN /\ doc' = [doc EXCEPT ![r] = made]
                       /\ composed' = [composed EXCEPT ![r] = time]
                  ELSE UNCHANGED <<doc, composed>>
    BY DEF Compose
  <1> DEFINE works == [n \in step[r] |-> w]
  <1>2. step[r] = {"compose_decision"} /\ UNCHANGED rows
    BY DEF Compose
  <1>3. Superstep(r, works) /\ works["compose_decision"] = w
    BY <1>1, <1>2
  <1> HIDE DEF works
  <1>4. /\ phase[r] = "graph" /\ phase' = phase /\ time' = time
        /\ done'[r] = done[r] \union step[r]
        /\ \A q \in Runs \ {r} : done'[q] = done[q] /\ fields'[q] = fields[q]
    BY <1>3, SuperstepFrame
  <1>5. "decision_output" \in fields'[r] => "decision_output" \in fields[r] \/ w
    BY <1>2, <1>3, SuperstepKeepsFacts
  <1>6. "saved_document" \in fields'[r] <=> "saved_document" \in fields[r]
    BY <1>2, <1>3, OnlyPersistSaves, SuperstepFrame
  <1>7. "compose_decision" \notin done[r] /\ "persist_decision" \notin done[r]
    BY <1>2, LastNodes
  <1>8. composed[r] = MaxTime + 1 /\ "saved_document" \notin fields[r] /\ Mine(r) = {}
    BY <1>4, <1>7 DEF RInv, RunInv, InGraph
  <1>9. made.id = <<"tdc", time>> /\ ~made.conservative /\ ~made.final
    BY DEF NoDoc
  <1> HIDE DEF made
  <1>10. w => doc'[r] = made /\ composed'[r] = time
    BY <1>1 DEF IInv, Shape, RInv, SecondsPass
  <1>11. \A q \in Runs \ {r} : doc'[q] = doc[q] /\ composed'[q] = composed[q]
    BY <1>1 DEF IInv, Shape, RInv, SecondsPass
  <1>12. SecondsPass'
    BY <1>1, <1>4, MaxTimeAssumption DEF RInv, SecondsPass
  <1>13. Touches(r)
    BY <1>2, <1>4, <1>8, <1>11, <1>12 DEF Touches
  <1>14. RunInv(r)'
    <2>1. Mine(r)' = {}
      BY <1>2, <1>8 DEF Mine
    <2>2. "decision_output" \in fields[r] => FALSE
      BY <1>4, <1>8, MaxTimeAssumption DEF RInv, RunInv, InGraph
    <2>3. InGraph(r)'
      BY <1>4, <1>5, <1>6, <1>8, <1>9, <1>10, <1>12, <2>1, <2>2 DEF InGraph, SecondsPass
    <2> QED
      BY <1>2, <1>4, <2>3 DEF RunInv
  <1> QED
    BY <1>13, <1>14, OtherRunsAreKept

(* A document is stored with a trace of every node (nodes.py:1366-1545).   *)
LEMMA PersistKeepsRInv ==
  ASSUME IInv, FInv, TInv, RInv, NEW r \in Runs, Persist(r)
  PROVE  RInv'
  <1> DEFINE told == [doc[r] EXCEPT !.traced = traces[r] \union {<<"persist_decision", "success">>}]
  <1>1. PICK w \in BOOLEAN :
          /\ Superstep(r, [n \in step[r] |-> w])
          /\ IF w THEN doc' = [doc EXCEPT ![r] = told] /\ Store(told) ELSE UNCHANGED <<doc, rows>>
    BY DEF Persist
  <1> DEFINE works == [n \in step[r] |-> w]
  <1>2. step[r] = {"persist_decision"} /\ UNCHANGED composed
    BY DEF Persist
  <1>3. Superstep(r, works) /\ works["persist_decision"] = w
    BY <1>1, <1>2
  <1> HIDE DEF works
  <1>4. /\ phase[r] = "graph" /\ phase' = phase /\ time' = time
        /\ done'[r] = done[r] \union step[r]
        /\ \A q \in Runs \ {r} : done'[q] = done[q] /\ fields'[q] = fields[q]
    BY <1>3, SuperstepFrame
  <1>5. "decision_output" \in fields'[r] => "decision_output" \in fields[r]
    BY <1>2, <1>3, SuperstepKeepsFacts
  <1>6. "saved_document" \in fields'[r] => "saved_document" \in fields[r] \/ w
    BY <1>2, <1>3, OnlyPersistSaves
  <1>7. w => "decision_output" \in fields[r] /\ "saved_document" \in fields'[r]
    <2>1. works["persist_decision"] \in Outcomes(r, "persist_decision")
      BY <1>2, <1>3 DEF Superstep
    <2>2. w => NodeOf("persist_decision").needs \subseteq fields[r]
      BY <1>3, <2>1 DEF Outcomes
    <2>3. w => "decision_output" \in fields[r]
      BY <2>2 DEF NodeOf, Node, PersistDecision
    <2>4. fields'[r] = fields[r] \union UNION {Written(n, works[n]) : n \in step[r]}
      BY <1>3 DEF Superstep, FInv, Typed
    <2>5. w => "saved_document" \in Written("persist_decision", works["persist_decision"])
      BY <1>3 DEF Written, NodeOf, Node, PersistDecision
    <2>6. w => "saved_document" \in fields'[r]
      BY <1>2, <2>4, <2>5
    <2> QED
      BY <2>3, <2>6
  <1>8. "persist_decision" \notin done[r] /\ done[r] \union {"persist_decision"} = GraphNodes
    BY <1>2, LastNodes
  <1>9. "saved_document" \notin fields[r] /\ Mine(r) = {}
    BY <1>4, <1>8 DEF RInv, RunInv, InGraph
  <1>10. /\ told.run = doc[r].run /\ told.id = doc[r].id /\ told.final = doc[r].final
         /\ told.conservative = doc[r].conservative
         /\ told.traced = traces[r] \union {<<"persist_decision", "success">>}
    BY DEF IInv, Shape, NoDoc
  <1> HIDE DEF told
  <1>a. PICK d : d = told
    OBVIOUS
  <1>11. OnePerNode(d.traced, GraphNodes)
    <2>1. OnePerNode(traces[r], done[r])
      BY DEF TInv
    <2> DEFINE own == <<"persist_decision", "success">>
    <2>2. own[1] = "persist_decision" /\ d.traced = traces[r] \union {own}
      BY <1>10, <1>a
    <2> HIDE DEF own
    <2>3. {t[1] : t \in traces[r]} = done[r]
      BY <2>1 DEF OnePerNode
    <2>4. {t[1] : t \in d.traced} = GraphNodes
      BY <1>8, <2>2, <2>3
    <2>5. ASSUME NEW t \in d.traced, NEW u \in d.traced, t[1] = u[1] PROVE t = u
      <3>1. t \in traces[r] => t[1] # "persist_decision"
        BY <1>8, <2>3
      <3>2. u \in traces[r] => u[1] # "persist_decision"
        BY <1>8, <2>3
      <3> QED
        BY <2>1, <2>2, <2>5, <3>1, <3>2 DEF OnePerNode
    <2> QED
      BY <2>4, <2>5 DEF OnePerNode
  <1>12. w => /\ d.run = r /\ d.id = <<"tdc", composed[r]>> /\ composed[r] <= MaxTime
              /\ ~d.final /\ ~d.conservative
    BY <1>4, <1>7, <1>10, <1>a DEF RInv, RunInv, InGraph, FInv, DocumentsAreOwn
  <1>13. /\ w => doc'[r] = d
         /\ ~w => doc'[r] = doc[r]
         /\ \A q \in Runs \ {r} : doc'[q] = doc[q]
    BY <1>1, <1>a DEF IInv, Shape
  <1>14. Touches(r)
    <2>1. SecondsPass'
      BY <1>2, <1>4 DEF RInv, SecondsPass
    <2>2. w => Store(d) /\ d.run = r /\ OwnId(r, d.id)' /\ Complete(d)
      BY <1>1, <1>a, <1>2, <1>11, <1>12 DEF OwnId, Complete
    <2>3. ~w => rows' = rows
      BY <1>1
    <2> QED
      BY <1>2, <1>4, <1>13, <2>1, <2>2, <2>3 DEF Touches
  <1>15. RunInv(r)'
    <2>1. w => Mine(r)' = {d}
      <3>1. w => rows' = {row \in rows : row.id # d.id} \union {d}
        BY <1>1, <1>a DEF Store
      <3> QED
        BY <1>9, <1>12, <3>1 DEF Mine
    <2>2. ~w => Mine(r)' = {}
      BY <1>1, <1>9, <1>a DEF Mine
    <2>3. "decision_output" \in fields[r] =>
            /\ composed[r] <= MaxTime /\ doc[r].id = <<"tdc", composed[r]>>
            /\ ~doc[r].conservative /\ ~doc[r].final
      BY <1>4 DEF RInv, RunInv, InGraph
    <2>4. w => InGraph(r)'
      BY <1>2, <1>4, <1>7, <1>11, <1>12, <1>13, <2>1 DEF InGraph, Complete
    <2>5. ~w => InGraph(r)'
      BY <1>2, <1>5, <1>6, <1>9, <1>13, <2>2, <2>3 DEF InGraph
    <2>6. "compose_decision" \notin done'[r] => composed'[r] = MaxTime + 1
      BY <1>2, <1>4 DEF RInv, RunInv
    <2> QED
      BY <1>4, <2>4, <2>5, <2>6 DEF RunInv
  <1> QED
    BY <1>14, <1>15, OtherRunsAreKept

(* The runner works on a run whose nodes have ended, or one of which       *)
(* raises before anything is stored (runner.py:85-132).                    *)
LEMMA RunnerFrame ==
  ASSUME IInv, RInv, NEW r \in Runs, Raise(r) \/ Collect(r) \/ SaveFallback(r) \/ Finalize(r)
  PROVE  /\ SecondsPass' /\ UNCHANGED <<composed, fields, done>>
         /\ \A q \in Runs \ {r} : phase'[q] = phase[q] /\ doc'[q] = doc[q]
         /\ "compose_decision" \notin done[r] => composed[r] = MaxTime + 1
  <1>1. UNCHANGED <<composed, fields, done, time>>
    BY DEF Raise, Collect, SaveFallback, Finalize, graph
  <1>2. SecondsPass'
    BY <1>1 DEF RInv, SecondsPass
  <1>3. \A q \in Runs \ {r} : phase'[q] = phase[q] /\ doc'[q] = doc[q]
    BY DEF Raise, Collect, SaveFallback, Finalize, Goto, IInv, Shape
  <1> QED
    BY <1>1, <1>2, <1>3 DEF RInv, RunInv

LEMMA RaiseKeepsRInv ==
  ASSUME IInv, RInv, NEW r \in Runs, Raise(r)
  PROVE  RInv'
  <1>1. /\ SecondsPass' /\ UNCHANGED <<composed, fields, done>>
        /\ \A q \in Runs \ {r} : phase'[q] = phase[q] /\ doc'[q] = doc[q]
        /\ "compose_decision" \notin done[r] => composed[r] = MaxTime + 1
    BY RunnerFrame
  <1>2. phase[r] = "graph" /\ rows' = rows /\ phase'[r] = "fallback" /\ doc'[r] = Conservative(r)
        /\ step[r] # {}
    BY DEF Raise, Goto, IInv, Shape
  <1>3. "saved_document" \notin fields[r]
    BY <1>2, LastNodes DEF RInv, RunInv, InGraph
  <1>4. Mine(r)' = {}
    BY <1>2, <1>3 DEF RInv, RunInv, InGraph, Mine
  <1>5. Conservative(r)' = Conservative(r)
    BY DEF Conservative
  <1> QED
    BY <1>1, <1>2, <1>4, <1>5, OtherRunsAreKept DEF Touches, RunInv

LEMMA CollectKeepsRInv ==
  ASSUME IInv, FInv, RInv, NEW r \in Runs, Collect(r)
  PROVE  RInv'
  <1>1. /\ SecondsPass' /\ UNCHANGED <<composed, fields, done>>
        /\ \A q \in Runs \ {r} : phase'[q] = phase[q] /\ doc'[q] = doc[q]
        /\ "compose_decision" \notin done[r] => composed[r] = MaxTime + 1
    BY RunnerFrame
  <1>2. phase[r] = "graph" /\ rows' = rows
    BY DEF Collect
  <1>3. Touches(r)
    BY <1>1, <1>2 DEF Touches
  <1>4. InGraph(r)
    BY <1>2 DEF RInv, RunInv
  <1>5. CASE "saved_document" \in fields[r]
    <2>1. doc'[r] = doc[r] /\ phase'[r] = "finalize"
      BY <1>5 DEF Collect, Goto, IInv, Shape
    <2>2. /\ Complete(doc[r]) /\ ~doc[r].final /\ OwnId(r, doc[r].id)
          /\ Mine(r) = {doc[r]} \/ SameSecond(r)
      BY <1>4, <1>5 DEF InGraph, FInv, FactsComeFirst, OwnId
    <2>3. RunInv(r)'
      BY <1>1, <1>2, <2>1, <2>2 DEF RunInv, Complete, OwnId, Mine, SameSecond
    <2> QED
      BY <1>3, <2>3, OtherRunsAreKept
  <1>6. CASE "saved_document" \notin fields[r]
    <2>1. doc'[r] = Conservative(r) /\ phase'[r] = "fallback"
      BY <1>6 DEF Collect, Goto, IInv, Shape
    <2>2. Mine(r)' = {} /\ Conservative(r)' = Conservative(r)
      BY <1>2, <1>4, <1>6 DEF InGraph, Mine, Conservative
    <2>3. RunInv(r)'
      BY <1>1, <2>1, <2>2 DEF RunInv
    <2> QED
      BY <1>3, <2>3, OtherRunsAreKept
  <1> QED
    BY <1>5, <1>6

LEMMA SaveFallbackKeepsRInv ==
  ASSUME IInv, RInv, NEW r \in Runs, SaveFallback(r)
  PROVE  RInv'
  <1>1. /\ SecondsPass' /\ UNCHANGED <<composed, fields, done>>
        /\ \A q \in Runs \ {r} : phase'[q] = phase[q] /\ doc'[q] = doc[q]
        /\ "compose_decision" \notin done[r] => composed[r] = MaxTime + 1
    BY RunnerFrame
  <1>2. phase[r] = "fallback" /\ phase'[r] = "finalize"
    BY DEF SaveFallback, Goto, IInv, Shape
  <1>3. doc[r] = Conservative(r) /\ Mine(r) = {}
    BY <1>2 DEF RInv, RunInv
  <1>4. PICK d : d = [doc[r] EXCEPT !.id = <<"uuid", r, 1>>]
    OBVIOUS
  <1>5. d.run = r /\ d.conservative /\ d.final = FALSE /\ d.id = <<"uuid", r, 1>>
    BY <1>3, <1>4 DEF Conservative, NoDoc
  <1>6. doc[r].conservative /\ doc[r].final = FALSE /\ doc[r].id = NoId
    BY <1>3 DEF Conservative, NoDoc
  <1>7. CASE Store(d) /\ doc'[r] = d
    <2>1. OwnId(r, d.id)' /\ Complete(d)
      BY <1>5 DEF OwnId, Complete
    <2>2. Touches(r)
      BY <1>1, <1>2, <1>5, <1>7, <2>1 DEF Touches
    <2>3. Mine(r)' = {d}
      BY <1>3, <1>5, <1>7 DEF Mine, Store
    <2>4. RunInv(r)'
      BY <1>1, <1>2, <1>5, <1>7, <2>3 DEF RunInv, Complete, OwnId
    <2> QED
      BY <2>2, <2>4, OtherRunsAreKept
  <1>8. CASE UNCHANGED <<doc, rows>>
    <2>1. Touches(r)
      BY <1>1, <1>2, <1>8 DEF Touches
    <2>2. RunInv(r)'
      BY <1>1, <1>2, <1>3, <1>6, <1>8 DEF RunInv, Complete, Mine
    <2> QED
      BY <2>1, <2>2, OtherRunsAreKept
  <1> QED
    BY <1>4, <1>7, <1>8 DEF SaveFallback, IInv, Shape

(* Setting what is set already.                                            *)
LEMMA FinalTwice ==
  ASSUME NEW d, NEW i, DOMAIN d = DOMAIN NoDoc
  PROVE  LET f == [d EXCEPT !.final = TRUE]
             g == [f EXCEPT !.id = i]
         IN  /\ [f EXCEPT !.final = TRUE] = f
             /\ [g EXCEPT !.final = TRUE] = g
  BY DEF NoDoc

LEMMA FinalizeKeepsRInv ==
  ASSUME IInv, FInv, RInv, NEW r \in Runs, Finalize(r)
  PROVE  RInv'
  <1>1. /\ SecondsPass' /\ UNCHANGED <<composed, fields, done>>
        /\ \A q \in Runs \ {r} : phase'[q] = phase[q] /\ doc'[q] = doc[q]
        /\ "compose_decision" \notin done[r] => composed[r] = MaxTime + 1
    BY RunnerFrame
  <1>2. PICK f : f = [doc[r] EXCEPT !.final = TRUE]
    OBVIOUS
  <1>3. PICK g : g = [f EXCEPT !.id = <<"uuid", r, 2>>]
    OBVIOUS
  <1>4. phase[r] = "finalize" /\ phase'[r] = "returned" /\ doc'[r] = f
        /\ (Store(IF f.id = NoId THEN g ELSE f) \/ UNCHANGED rows)
    BY <1>2, <1>3 DEF Finalize, Goto, IInv, Shape
  <1>5. /\ f.run = doc[r].run /\ f.id = doc[r].id /\ f.traced = doc[r].traced
        /\ f.conservative = doc[r].conservative
        /\ DOMAIN f = DOMAIN NoDoc
    BY <1>2 DEF IInv, Shape, NoDoc
  <1>6. /\ g.run = doc[r].run /\ g.id = <<"uuid", r, 2>> /\ g.traced = doc[r].traced
        /\ g.conservative = doc[r].conservative
    BY <1>3, <1>5 DEF NoDoc
  <1>7. [f EXCEPT !.final = TRUE] = f /\ [g EXCEPT !.final = TRUE] = g
    BY <1>2, <1>3, FinalTwice DEF IInv, Shape
  <1>8. /\ Complete(doc[r]) /\ ~doc[r].final
        /\ \/ doc[r].id = NoId /\ Mine(r) = {}
           \/ OwnId(r, doc[r].id) /\ (Mine(r) = {doc[r]} \/ SameSecond(r))
    BY <1>4 DEF RInv, RunInv
  <1>9. Complete(f) /\ Complete(g)
    BY <1>5, <1>6, <1>8 DEF Complete
  <1>10. f.run = r /\ g.run = r
    BY <1>4, <1>5, <1>6 DEF FInv, DocumentsAreOwn
  <1>11. SameSecond(r)' <=> SameSecond(r)
    BY <1>1 DEF SameSecond
  <1>12. ASSUME Touches(r),
                \/ Held(r)' = {f}
                \/ f.id = NoId /\ Held(r)' \subseteq {g}
                \/ SameSecond(r)
         PROVE  RInv'
    BY <1>1, <1>3, <1>4, <1>11, <1>12, OtherRunsAreKept DEF RunInv
  <1>13. CASE rows' = rows
    <2>1. Touches(r)
      BY <1>1, <1>4, <1>13 DEF Touches
    <2>2. Held(r)' = Held(r)
      BY <1>13 DEF Held, Mine
    <2>3. Mine(r) = {doc[r]} => Held(r) = {f}
      BY <1>2 DEF Held
    <2>4. Mine(r) = {} => Held(r) = {}
      BY DEF Held
    <2> QED
      BY <1>5, <1>8, <1>12, <2>1, <2>2, <2>3, <2>4
  <1>14. CASE f.id = NoId /\ Store(g)
    <2>1. OwnId(r, g.id)'
      BY <1>6 DEF OwnId
    <2>2. Touches(r)
      BY <1>1, <1>4, <1>9, <1>10, <1>14, <2>1 DEF Touches
    <2>3. Mine(r) = {}
      BY <1>5, <1>8, <1>14 DEF OwnId, NoId
    <2>4. Mine(r)' = {g}
      BY <1>10, <1>14, <2>3 DEF Mine, Store
    <2>5. Held(r)' = {g}
      BY <1>7, <2>4 DEF Held
    <2> QED
      BY <1>12, <1>14, <2>2, <2>5
  <1>15. CASE f.id # NoId /\ Store(f)
    <2>1. OwnId(r, f.id) /\ (Mine(r) = {doc[r]} \/ SameSecond(r))
      BY <1>5, <1>8, <1>15
    <2>2. OwnId(r, f.id)'
      BY <1>1, <2>1 DEF OwnId
    <2>3. Touches(r)
      BY <1>1, <1>4, <1>9, <1>10, <1>15, <2>2 DEF Touches
    <2>4. Mine(r) = {doc[r]} => Mine(r)' = {f}
      BY <1>5, <1>10, <1>15 DEF Mine, Store
    <2>5. Mine(r)' = {f} => Held(r)' = {f}
      BY <1>7 DEF Held
    <2> QED
      BY <1>12, <2>1, <2>3, <2>4, <2>5
  <1> QED
    BY <1>4, <1>13, <1>14, <1>15

LEMMA RInvNext == IInv /\ FInv /\ TInv /\ RInv /\ [Next]_vars => RInv'
  <1> SUFFICES ASSUME IInv, FInv, TInv, RInv, [Next]_vars PROVE RInv'
    OBVIOUS
  <1>1. CASE Tick \/ UNCHANGED vars
    <2>1. UNCHANGED <<phase, done, fields, doc, rows, composed>> /\ time' \in 0 .. MaxTime
      BY <1>1, MaxTimeAssumption DEF Tick, vars, graph, RInv, SecondsPass
    <2> QED
      BY <2>1 DEF RInv, SecondsPass, RowsAreOwn, RunInv, InGraph, Mine, Held, OwnId, SameSecond,
          Complete, Conservative
  <1>2. ASSUME NEW r \in Runs, Step(r) PROVE RInv'
    BY <1>2, PrepareKeepsRInv, ComposeKeepsRInv, PersistKeepsRInv, RaiseKeepsRInv,
       CollectKeepsRInv, SaveFallbackKeepsRInv, FinalizeKeepsRInv DEF Step
  <1> QED
    BY <1>1, <1>2 DEF Next

(* Whatever fails and however runs interleave: a stored decision tells of  *)
(* every node what became of it, once, and what a run returns is the only  *)
(* row it leaves, under its id, unless its fallback could not be saved at  *)
(* first or another run was composed in its second (nodes.py:1366-1545,    *)
(* runner.py:85-132, 232-294).                                             *)
THEOREM AnswersAreTheRows == Spec => []AnswerIsTheRow
  <1>1. FInv => Typed
    BY DEF FInv
  <1> QED
    BY <1>1, RInvIsTheAnswer, RInvInit, RInvNext, TInvInit, TInvNext, FInvInit, FInvNext,
       IInvInit, SuperstepsAreLevels, PTL DEF Spec
=============================================================================
