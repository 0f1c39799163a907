-------------------------- MODULE DecisionComposer --------------------------
(***************************************************************************)
(* The composer of services/trade_decision_composer.py: the draft decision *)
(* it makes of the card pack p and the trade plan, and the decision after  *)
(* the risk gate.                                                          *)
(*                                                                         *)
(* A plan that is not the skeleton replaces what the composer drafted from *)
(* the scores; the risk/reward card the composer reads is built from the   *)
(* plan (services/trade_decision_risk_reward_compat.py).                   *)
(***************************************************************************)
EXTENDS RiskGate, TradePlan

(* The seven parts of the score, a hundred in all.                         *)
ValuationScore(fund) ==
    IF fund.pe > 0 THEN IF fund.pe < 20 THEN 15 ELSE IF fund.pe < 35 THEN 10 ELSE IF fund.pe < 60 THEN 6 ELSE 2
    ELSE IF fund.score > 0 /\ fund.quality # "low" THEN Least(8, (fund.score * 35) \div 100)
    ELSE 0

RiskRewardScore(ratio) ==
    IF ratio = Absent THEN 0
    ELSE IF ratio < 100 THEN (ratio * 6) \div 100
    ELSE Least(15, 6 + ((ratio - 100) * 3) \div 100)

ReviewScore(p) ==
    IF p.review \in {"below_50", "below_40"} THEN 2 ELSE IF p.fit.warned THEN 3 ELSE 10

OverallScore(p, plan) ==
    Least(20, p.fund.score) + ValuationScore(p.fund) + p.trend.score + p.fit.score
        + RiskRewardScore(plan.ratio) + ReviewScore(p) + p.event.score

(* The confidence: the average quality of the four cards, and how many of  *)
(* the sub-agents fell back.                                               *)
QualityPoints(card) == CASE card.quality = "high" -> 3 [] card.quality = "medium" -> 2 [] OTHER -> 1

CardPoints(p) == QualityPoints(p.fit) + QualityPoints(p.trend) + QualityPoints(p.fund) + QualityPoints(p.event)

Confidence(p) ==
    CASE CardPoints(p) >= 10 /\ p.fallbacks = 0 -> "high"
      [] CardPoints(p) \in 6 .. 9 /\ p.fallbacks <= 1 -> "medium"
      [] OTHER -> "low"

-----------------------------------------------------------------------------
(* The action drafted from the guidance of the risk/reward card, the       *)
(* account fit, the liquidity and the score.                               *)

Guidance == {"reduce_now", "hold_no_add", "wait", "add_on_pullback", "add_right_side"}

DraftAction(p, plan) ==
    IF plan.action \in Guidance THEN plan.action
    ELSE IF p.fit.level \in {"poor", "unknown"} THEN IF p.holding THEN "hold" ELSE "watchlist"
    ELSE IF p.liquid <= 0 /\ ~p.holding THEN "watchlist"
    ELSE LET score == OverallScore(p, plan)
         IN IF score >= 65 THEN IF p.holding THEN "hold" ELSE IF score >= 80 THEN "add_batch" ELSE "add_small"
            ELSE IF score >= 45 THEN "watchlist"
            ELSE "avoid"

(* Position advice for an action, then corrected by the assessment of the  *)
(* position or, without one, by the thesis.                                *)
Advice(p, action) ==
    IF action \in {"wait", "avoid", "watchlist"} /\ ~p.holding
    THEN [current |-> p.position, target |-> 0, max |-> 0]
    ELSE [current |-> p.position,
          target |-> IF p.fit.max > 0 THEN p.fit.max ELSE 50,
          max |-> IF p.fit.max > 0 THEN p.fit.max ELSE 100]

Budgeted == AddLike \cup Reducing \cup Selling \cup {"hold", "hold_no_add"}

WithBudget(p, action, advice) ==
    IF action \notin Budgeted THEN advice
    ELSE IF p.ai.evaluated /\ p.ai.max > 0
    THEN [advice EXCEPT !.max = p.ai.max,
                        !.target = IF p.ai.target > 0 /\ @ > 0 THEN Least(p.ai.target, p.ai.max) ELSE @]
    ELSE IF p.thesis.max > 0
    THEN [advice EXCEPT !.max = p.thesis.max, !.target = IF p.thesis.target > 0 /\ @ > 0 THEN p.thesis.target ELSE @]
    ELSE advice

(* The execution plan the composer writes: the target of its first step    *)
(* and whether it says what would invalidate it.                           *)
FirstStep(action, advice) ==
    CASE action = "add_on_pullback" -> (advice.target * 2) \div 5
      [] action = "add_batch" -> Least(advice.target, 50)
      [] action \in {"add_right_side", "add_small"} -> advice.target
      [] action \in Reducing \cup {"panic_blocked"} -> advice.current \div 2
      [] action \in Selling \cup {"wait", "avoid"} -> 0
      [] OTHER -> advice.current

Invalidates(action) == action \notin {"add", "add_small", "add_batch", "reduce", "reduce_batch", "sell", "watchlist"}

-----------------------------------------------------------------------------
(* The draft the gate is given: what the plan says, or, for the skeleton,  *)
(* what the composer drafted.                                              *)
Draft(p, plan) ==
    LET action == DraftAction(p, plan)
        advice == WithBudget(p, action, Advice(p, action))
    IN IF plan.skeleton
       THEN [action |-> action, current |-> advice.current, target |-> advice.target, max |-> advice.max,
             step |-> FirstStep(action, Advice(p, action)), invalidation |-> Invalidates(action),
             ratio |-> plan.ratio, downside |-> plan.downside, planBroken |-> FALSE]
       ELSE [action |-> plan.action, current |-> plan.current, target |-> plan.target, max |-> plan.max,
             step |-> plan.target, invalidation |-> plan.invalidation,
             ratio |-> plan.ratio, downside |-> plan.downside,
             planBroken |-> plan.action = "sell_thesis_broken"]

(* The decision under the gate's result g.  When the gate changes the      *)
(* action, or fails, the advice and the execution plan are made anew.      *)
Gated(p, draft, confidence, g) ==
    LET anew == Advice(p, g.action)
        final == WithBudget(p, g.action, anew)
        kept == g.action = draft.action /\ "risk_gate_failed" \notin g.flags
    IN [draft |-> draft.action, final |-> g.action, action |-> g.action, flags |-> g.flags,
        confidence |-> Clamp(confidence, g.cap), cap |-> g.cap,
        current |-> IF kept THEN draft.current ELSE final.current,
        target |-> IF kept THEN draft.target ELSE final.target,
        max |-> IF kept THEN draft.max ELSE final.max,
        step |-> IF kept THEN draft.step ELSE FirstStep(g.action, anew),
        invalidation |-> IF kept THEN draft.invalidation ELSE Invalidates(g.action)]

(* With the public data largely missing, the node that ran the composer    *)
(* lowers the confidence and takes back an addition once more.             *)
WithPublicData(p, d) ==
    IF FallbackCount(p) < 2 THEN d
    ELSE [d EXCEPT !.confidence = "low",
                   !.action = IF @ \in {"add", "add_small", "add_batch"}
                              THEN IF p.holding THEN "hold" ELSE "watchlist" ELSE @]

=============================================================================
