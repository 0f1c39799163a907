---------------------------- MODULE TradeDecision ----------------------------
(***************************************************************************)
(* One trade decision from its evidence to what is published: the trade    *)
(* plan node and the compose node of agents/trade_decision_graph/nodes.py. *)
(*                                                                         *)
(* The model's answer may be anything in Answers, it may be unusable (the  *)
(* skeleton plan stands in for it), and the risk gate may raise (the       *)
(* conservative result of make_fail_safe_result stands in for it).         *)
(***************************************************************************)
EXTENDS DecisionComposer

CONSTANTS Packs,    \* the card packs the evidence may amount to
          Answers   \* what the model may answer when asked for a plan

(* Positions, limits, targets and ratios are numbers, and an answer names  *)
(* one of the actions it was offered.  A sub-agent whose card has no data  *)
(* has fallen back, and so has the one of the events when its evidence is  *)
(* low: its card is never better than medium (sub_agents.py:976-985,       *)
(* 1003-1012, 1636, 1698).                                                 *)
ASSUME CardsAssumption ==
    /\ \A p \in Packs :
          /\ p.position \in Nat /\ p.thesis.max \in Int /\ p.thesis.target \in Int
          /\ p.ai.max \in Int /\ p.ai.target \in Int /\ p.fit.max \in Int
          /\ p.fallbacks \in Nat /\ p.event.quality # "high"
          /\ \/ HasNoData(p.trend) \/ HasNoData(p.fund) \/ HasNoData(p.event)
             \/ p.event.quality = "low"
             => p.fallbacks > 0
    /\ \A y \in Answers :
          /\ y.action \in Actions
          /\ y.target \in Int /\ y.ratio \in Int /\ y.downside \in Int

VARIABLES pack, plan, decision, stage

vars == <<pack, plan, decision, stage>>

NoPlan == [action |-> "none", skeleton |-> FALSE]
NoDecision == [draft |-> "none", final |-> "none", action |-> "none"]

Init ==
    /\ pack \in Packs
    /\ plan = NoPlan
    /\ decision = NoDecision
    /\ stage = "evidence"

PlanAnswered(y) ==
    /\ stage = "evidence"
    /\ plan' = PlanCard(pack, y)
    /\ stage' = "planned"
    /\ UNCHANGED <<pack, decision>>

PlanFailed ==
    /\ stage = "evidence"
    /\ plan' = SkeletonPlan(pack)
    /\ stage' = "planned"
    /\ UNCHANGED <<pack, decision>>

Composed(g) == WithPublicData(pack, Gated(pack, Draft(pack, plan), Confidence(pack), g))

ComposeDecision ==
    /\ stage = "planned"
    /\ decision' = Composed(Evaluate(pack, Draft(pack, plan)))
    /\ stage' = "composed"
    /\ UNCHANGED <<pack, plan>>

ComposeWithoutGate ==
    /\ stage = "planned"
    /\ decision' = Composed(FailSafe(pack))
    /\ stage' = "composed"
    /\ UNCHANGED <<pack, plan>>

Next ==
    \/ \E y \in Answers : PlanAnswered(y)
    \/ PlanFailed
    \/ ComposeDecision
    \/ ComposeWithoutGate

Spec == Init /\ [][Next]_vars

-----------------------------------------------------------------------------
Decided == stage = "composed"
GateRan == Decided /\ "risk_gate_failed" \notin decision.flags
Added == Decided /\ decision.action \in AddLike

(* Whatever the rules rewrite, and in whichever order, they never turn     *)
(* something else into an addition nor an addition into a stronger one:    *)
(* what they leave of a changed addition is one that waits for a pullback  *)
(* (evaluate, trade_decision_risk_gate.py).                                *)
GateNeverStrengthens ==
    Decided /\ decision.final \in AddLike
        => /\ decision.draft \in AddLike
           /\ decision.final # decision.draft => decision.final = "add_on_pullback"

(* A published addition still meets every rule of the gate, although each  *)
(* rule was tested once and later rules rewrote the action after it: there *)
(* is room below the limit of the draft, of the thesis and of the          *)
(* assessment, the public data is there, the trend and the fundamentals    *)
(* are not bad, the ratio is not low and the assessment does not object.   *)
AddMeetsEveryRule ==
    Added =>
        LET draft == Draft(pack, plan)
        IN /\ draft.max > 0 /\ draft.current < draft.max
           /\ pack.thesis.max > 0 => draft.current < pack.thesis.max
           /\ pack.ai.evaluated /\ pack.ai.max > 0 =>
                 draft.current < pack.ai.max /\ draft.target <= pack.ai.max
           /\ pack.ai.evaluated => pack.ai.bias \notin {"hold_no_add", "avoid", "prefer_reduce"}
           /\ FallbackCount(pack) < 2
           /\ pack.fit.level # "poor"
           /\ pack.trend.level \notin {"severe", "broken"}
           /\ pack.fund.status \notin {"red", "orange"} /\ ~pack.fund.broken
           /\ draft.ratio = Absent \/ draft.ratio >= 150
           /\ ~NoAddTriggerHit(pack.thesis, draft.current, pack.trend.level, pack.event.strength)

(* A strong addition moreover says what would invalidate it, and is made   *)
(* neither in a weakening trend, nor on yellow fundamentals, nor into an   *)
(* extreme asset or a large downside, nor on a weak catalyst without a     *)
(* ratio of two.                                                           *)
StrongAddIsBacked ==
    Decided /\ decision.action \in StrongAdd =>
        /\ decision.invalidation
        /\ pack.trend.level # "warning" /\ pack.fund.status # "yellow"
        /\ pack.thesis.risk # "extreme"
        /\ plan.downside <= 30
        /\ IsWeakCatalyst(pack.event) => decision.action = "add_right_side" /\ plan.ratio >= 200

(* Only a holder is told to leave a position, or stopped from leaving it:  *)
(* the plan, the composer and the gate each have rules that could say so,  *)
(* and each looks at the position for itself.                              *)
OnlyHoldersLeave ==
    Decided /\ (decision.action \in Reducing \cup Selling \/ "panic_sell_blocked" \in decision.flags)
        => pack.holding

(* A holder is never left waiting on a broken thesis, nor on red           *)
(* fundamentals unless the question read as panic; and a request to sell   *)
(* is never blocked as panic when the thesis is broken or the trend gone.  *)
(* A plan may ask for the block itself; the rules then leave it alone.     *)
BrokenThesisIsLeft ==
    GateRan /\ pack.holding /\ decision.draft # "panic_blocked" =>
        /\ pack.fund.broken \/ (pack.fund.status = "red" /\ ~pack.panicWords) =>
               decision.action \in Reducing \cup Selling \cup {"avoid"}
        /\ decision.action = "panic_blocked" => pack.trend.level \notin {"broken", "severe"}

(* The action shown is the gate's: the node that takes back additions on   *)
(* missing public data, after the calibration has been written, never      *)
(* finds one to take back.                                                 *)
ShownActionIsCalibrated == Decided => decision.action = decision.final

(* High confidence is never claimed for a decision that rests on a card    *)
(* without data, that was stopped as panic, that was left to the fail-safe *)
(* result or that follows from red fundamentals; with two cards missing it *)
(* is low.                                                                 *)
ConfidenceIsEarned ==
    Decided =>
        /\ decision.confidence = "high" =>
               /\ FallbackCount(pack) = 0
               /\ decision.flags \cap {"panic_sell_blocked", "fundamental_red_action",
                                       "fundamental_red_blocked", "risk_gate_failed"} = {}
        /\ FallbackCount(pack) >= 2 => decision.confidence = "low"
        /\ Rank(decision.confidence) <= Rank(Confidence(pack))

(* A plan that is carried out as it was made stays within its own limit    *)
(* and moves the position the way its action says.                         *)
PlanMovesAsItSays ==
    stage # "evidence" /\ ~plan.skeleton =>
        /\ plan.action \in AddLike => plan.current < plan.target /\ plan.target <= plan.max
        /\ plan.action \in Reducing => plan.target < plan.current
        /\ plan.action \in Selling => plan.target = 0 /\ pack.holding

-----------------------------------------------------------------------------
(* What the skeleton plan says of itself: "no new money is advised for     *)
(* now" (build_fallback_trade_plan_card).                                  *)
FailedPlanAddsNothing == Decided /\ plan.skeleton => decision.action \notin AddLike

=============================================================================
