------------------------------ MODULE RiskGate ------------------------------
(***************************************************************************)
(* The deterministic risk gate of services/trade_decision_risk_gate.py: the*)
(* rules that stand between the drafted action of a trade decision and the *)
(* action that is published.                                               *)
(*                                                                         *)
(* Each rule is an operator from the result so far, a record r of the      *)
(* action and the flags raised, to the result after it; Evaluate applies   *)
(* them in the order of the code.  p is the card pack and d the drafted    *)
(* decision the gate is given.                                             *)
(***************************************************************************)
EXTENDS DecisionCards

To(r, action, flag) == [action |-> action, flags |-> r.flags \cup {flag}]
Flag(r, flag) == [r EXCEPT !.flags = @ \cup {flag}]

(* A refused addition becomes hold_no_add for a holder, wait for others.   *)
NoAdd(p) == IF p.holding THEN "hold_no_add" ELSE "wait"

(* A strong addition refused to a holder may still wait for a pullback     *)
(* when nothing is held yet.                                               *)
PullbackOnly(p) == IF p.holding THEN "hold_no_add" ELSE "add_on_pullback"

AiSupportsPullback(p) ==
    /\ p.ai.evaluated
    /\ p.ai.stance \in {"underweight", "no_position"}
    /\ p.ai.bias \in AddPermissions

RatioAllowsPullback(d) == d.ratio = Absent \/ d.ratio >= 150

(* 0. A request to dump a position nothing else speaks against.            *)
SellIsJustified(p, d) ==
    \/ p.fund.stance = "bearish" /\ p.fund.score <= 1
    \/ p.trend.stance = "bearish" /\ p.trend.score <= 1
    \/ p.trend.level \in {"broken", "severe"}
    \/ p.fund.broken
    \/ d.planBroken
    \/ p.position > 500

Panic(p, d) == p.panicWords /\ p.holding /\ ~SellIsJustified(p, d)

(* 1 to 3. A missing limit, missing invalidation conditions, missing data. *)
MissingLimit(p, d, r) ==
    IF r.action \in AddLike /\ d.max <= 0 THEN To(r, NoAdd(p), "missing_position_limit") ELSE r

MissingInvalidation(p, d, r) ==
    IF r.action \in StrongAdd /\ ~d.invalidation
    THEN To(r, PullbackOnly(p), "missing_invalidation_conditions") ELSE r

InsufficientData(p, r) ==
    IF r.action \in AddLike /\ FallbackCount(p) >= 2 THEN To(r, NoAdd(p), "insufficient_data") ELSE r

(* 4. A weak catalyst; a right-side addition survives it when the ratio,   *)
(* the trend and the fundamentals are strong, a pullback one when the      *)
(* assessment supports it.                                                 *)
WeakRightSideAllowed(p, d, r) ==
    /\ r.action = "add_right_side" /\ d.ratio >= 200
    /\ p.trend.level = "none" /\ p.fund.status \in {"green", "yellow"}

WeakPullbackAllowed(p, d, r) ==
    /\ r.action = "add_on_pullback" /\ AiSupportsPullback(p) /\ RatioAllowsPullback(d)
    /\ p.trend.level \in {"none", "warning", "unknown"}
    /\ p.fund.status \in {"green", "yellow", "unknown"}

WeakCatalyst(p, d, r) ==
    IF ~IsWeakCatalyst(p.event) \/ WeakRightSideAllowed(p, d, r) THEN r
    ELSE IF r.action \notin AddLike
         THEN IF d.action \in AddLike THEN Flag(r, "weak_catalyst_downgrade") ELSE r
    ELSE IF WeakPullbackAllowed(p, d, r) THEN Flag(r, "weak_catalyst_soft_warning")
    ELSE IF r.action # "add_on_pullback" /\ AiSupportsPullback(p) /\ RatioAllowsPullback(d)
         THEN To(r, "add_on_pullback", "weak_catalyst_downgrade_to_pullback")
    ELSE To(r, NoAdd(p), "weak_catalyst_downgrade")

(* 5. The position limit and the account fit; the assessment's own limit.  *)
PositionLimit(p, d, r) ==
    IF r.action \in AddLike /\ ((d.max > 0 /\ d.current >= d.max) \/ p.fit.level = "poor")
    THEN To(r, "hold_no_add", "position_limit_reached") ELSE r

AiBias(p, r) ==
    IF p.ai.evaluated /\ p.ai.bias \in {"hold_no_add", "avoid", "prefer_reduce"} /\ r.action \in AddLike
    THEN To(r, NoAdd(p), "ai_policy_bias_blocks_add") ELSE r

AiLimit(p, d, r) ==
    IF ~p.ai.evaluated \/ p.ai.max <= 0 THEN r
    ELSE LET refused == IF r.action \in AddLike /\ (d.current >= p.ai.max \/ d.target > p.ai.max)
                        THEN To(r, NoAdd(p), "ai_policy_max_position_downgrade") ELSE r
         IN IF d.target > p.ai.max THEN Flag(refused, "target_above_ai_policy_max") ELSE refused

(* 6. The trend.  The flag is raised for a drafted addition even when an   *)
(* earlier rule has already refused it.                                    *)
TrendBreak(p, d, r) ==
    IF p.trend.level \in {"severe", "broken"}
    THEN LET flag == IF p.trend.level = "severe" THEN "trend_break_severe_blocked" ELSE "trend_break_broken_blocked"
         IN IF r.action \in AddLike THEN To(r, NoAdd(p), flag)
            ELSE IF d.action \in AddLike THEN Flag(r, flag) ELSE r
    ELSE IF p.trend.level # "warning" THEN r
    ELSE IF r.action \in StrongAdd
    THEN To(r, IF AiSupportsPullback(p) /\ p.fund.status \notin {"red", "orange"} /\ RatioAllowsPullback(d)
               THEN "add_on_pullback" ELSE PullbackOnly(p), "trend_break_warning_downgrade")
    ELSE IF d.action \in StrongAdd THEN Flag(r, "trend_break_warning_downgrade") ELSE r

(* 6b. The investment thesis.                                              *)
ThesisLimit(p, d, r) ==
    IF r.action \in AddLike /\ p.thesis.max > 0 /\ d.current >= p.thesis.max
    THEN To(r, "hold_no_add", "thesis_position_limit") ELSE r

ThesisExtreme(p, r) ==
    IF p.thesis.risk = "extreme" /\ r.action \in StrongAdd
    THEN To(r, PullbackOnly(p), "thesis_extreme_risk_blocked") ELSE r

(* The way out of a position whose thesis no longer holds.                 *)
Exit(p) == IF p.thesis.risk \in {"extreme", "high_growth"} THEN "sell_thesis_broken" ELSE "reduce_now"

ThesisSellTrigger(p, r) ==
    IF p.thesis.sellOnSevere /\ p.trend.level = "severe" /\ p.holding
        /\ r.action \in {"hold", "watchlist", "wait", "add_on_pullback", "hold_no_add"}
    THEN To(r, Exit(p), "thesis_sell_trigger_hit") ELSE r

ThesisNoAddTrigger(p, d, r) ==
    IF r.action \in AddLike /\ NoAddTriggerHit(p.thesis, d.current, p.trend.level, p.event.strength)
    THEN To(r, NoAdd(p), "thesis_no_add_trigger_hit") ELSE r

(* A plausible bug, used as a mutant only: a holder already told not to    *)
(* add is left there.                                                      *)
FundamentalRed_NoAddStays(p, r) ==
    IF p.fund.status # "red" /\ ~p.fund.broken THEN r
    ELSE IF p.holding
    THEN To(r, IF r.action \in AddLike \cup {"hold", "watchlist", "wait"} THEN Exit(p) ELSE r.action,
            "fundamental_red_action")
    ELSE IF r.action \in AddLike THEN To(r, "wait", "fundamental_red_blocked") ELSE r

(* 6c. The fundamental status.                                             *)
FundamentalRed(p, r) ==
    IF p.fund.status # "red" /\ ~p.fund.broken THEN r
    ELSE IF p.holding
    THEN LET left == IF r.action \in AddLike \cup {"hold", "watchlist", "wait", "hold_no_add"}
                     THEN IF p.fund.broken THEN "sell_thesis_broken" ELSE Exit(p)
                     ELSE r.action
             flagged == To(r, left, "fundamental_red_action")
         IN IF p.fund.broken THEN Flag(flagged, "thesis_broken_detected") ELSE flagged
    ELSE IF r.action \in AddLike THEN To(r, "wait", "fundamental_red_blocked") ELSE r

FundamentalOrange(p, r) ==
    IF p.fund.status = "orange" /\ r.action \in AddLike
    THEN To(r, NoAdd(p), "fundamental_orange_blocked") ELSE r

FundamentalYellow(p, d, r) ==
    IF p.fund.status = "yellow" /\ r.action \in StrongAdd
    THEN To(r, IF AiSupportsPullback(p) /\ RatioAllowsPullback(d) THEN "add_on_pullback" ELSE PullbackOnly(p),
            "fundamental_yellow_downgrade")
    ELSE r

(* A plausible bug, used as a mutant only: pullback additions escape.      *)
LowRatio_StrongOnly(p, d, r) ==
    IF d.ratio = Absent \/ r.action \notin StrongAdd THEN r
    ELSE IF d.ratio < 150 THEN To(r, NoAdd(p), "rr_below_one_five")
    ELSE r

(* 6d. The reward/risk ratio and the downside.                             *)
LowRatio(p, d, r) ==
    IF d.ratio = Absent \/ r.action \notin AddLike THEN r
    ELSE IF d.ratio < 100 THEN To(r, IF p.holding THEN "reduce_now" ELSE "wait", "rr_below_one")
    ELSE IF d.ratio < 150 THEN To(r, NoAdd(p), "rr_below_one_five")
    ELSE r

LargeDownside(p, d, r) ==
    IF d.downside > 30 /\ r.action \in StrongAdd THEN To(r, PullbackOnly(p), "rr_downside_too_high") ELSE r

(* 7 and 8. A severe breakdown; a target above the limit is only flagged.  *)
SevereBreakdown(p, r) ==
    IF IsSevereBreakdown(p) /\ p.holding /\ r.action \in {"hold", "watchlist", "wait", "add_on_pullback"}
    THEN To(r, "reduce_now", "thesis_breakdown_detected") ELSE r

TargetAboveMax(d, r) == IF d.max > 0 /\ d.target > d.max THEN Flag(r, "target_above_max_position") ELSE r

-----------------------------------------------------------------------------
(* The rules in the order of the code, in four stages.                     *)

AfterLimits(p, d) ==
    LET drafted == [action |-> d.action, flags |-> {}]
    IN InsufficientData(p, MissingInvalidation(p, d, MissingLimit(p, d, drafted)))

AfterAccount(p, d) == AiLimit(p, d, AiBias(p, PositionLimit(p, d, WeakCatalyst(p, d, AfterLimits(p, d)))))

AfterThesis(p, d) ==
    ThesisNoAddTrigger(p, d,
        ThesisSellTrigger(p, ThesisExtreme(p, ThesisLimit(p, d, TrendBreak(p, d, AfterAccount(p, d))))))

AfterFundamentals(p, d) == FundamentalYellow(p, d, FundamentalOrange(p, FundamentalRed(p, AfterThesis(p, d))))

AfterRules(p, d) ==
    TargetAboveMax(d, SevereBreakdown(p, LargeDownside(p, d, LowRatio(p, d, AfterFundamentals(p, d)))))

(* The confidence the gate allows at most.                                 *)
ConfidenceCap(p, flags) ==
    IF \/ flags \cap {"panic_sell_blocked", "fundamental_red_action", "fundamental_red_blocked",
                      "thesis_broken_detected"} # {}
       \/ FallbackCount(p) >= 3
    THEN "low"
    ELSE IF \/ flags \cap {"weak_catalyst_downgrade", "insufficient_data"} # {}
            \/ p.trend.quality = "low" /\ p.trend.level = "unknown"
            \/ p.fund.quality = "low" /\ p.fund.status = "unknown"
    THEN "medium"
    ELSE "none"

Rank(confidence) == CASE confidence = "low" -> 0 [] confidence = "medium" -> 1 [] OTHER -> 2

(* A plausible bug, used as a mutant only: the cap replaces the confidence.*)
Clamp_Replaces(confidence, cap) == IF cap = "none" THEN confidence ELSE cap

(* A cap lowers the confidence and never raises it.                        *)
Clamp(confidence, cap) == IF cap = "none" \/ Rank(confidence) <= Rank(cap) THEN confidence ELSE cap

Evaluate(p, d) ==
    IF Panic(p, d)
    THEN [action |-> "panic_blocked", flags |-> {"panic_sell_blocked"}, cap |-> "low"]
    ELSE [action |-> AfterRules(p, d).action, flags |-> AfterRules(p, d).flags,
          cap |-> ConfidenceCap(p, AfterRules(p, d).flags)]

(* What stands in for the gate when it raises.                             *)
FailSafe(p) == [action |-> NoAdd(p), flags |-> {"risk_gate_failed"}, cap |-> "low"]

=============================================================================
