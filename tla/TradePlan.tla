------------------------------ MODULE TradePlan ------------------------------
(***************************************************************************)
(* The trade plan of services/trade_decision_trade_plan_agent.py: how the  *)
(* model's answer y is turned into a plan card for the card pack p, and    *)
(* the skeleton of agents/trade_decision_cards.py that replaces it.        *)
(*                                                                         *)
(* The rules rewrite r, an action and a target position.  The investment   *)
(* thesis is attached to the pack by the composer, after the plan is made, *)
(* so the branch that would take the limit from it is never reached here.  *)
(***************************************************************************)
EXTENDS DecisionCards

Current(p) == IF p.holding THEN p.position ELSE 0

PlanMax(p) ==
    IF p.ai.evaluated /\ p.ai.max >= 0 THEN p.ai.max
    ELSE IF p.fit.max >= 0 THEN p.fit.max
    ELSE Current(p)

Refused(p) == [action |-> IF p.holding THEN "hold_no_add" ELSE "watchlist", target |-> Current(p)]

Truncated(p, y) ==
    [action |-> y.action,
     target |-> Least(Greatest(0, IF y.target = Absent THEN Current(p) ELSE y.target), PlanMax(p))]

(* What the assessment of the position forbids or softens.                 *)
StanceForbids(p, r) ==
    IF r.action \in AddLike /\ p.ai.stance \in {"overweight", "over_limit", "forbidden"} THEN Refused(p) ELSE r

BiasForbids(p, r) ==
    IF r.action \in AddLike /\ p.ai.bias \in {"hold_no_add", "avoid", "prefer_reduce"} THEN Refused(p)
    ELSE IF r.action \in StrongAdd /\ p.ai.bias = "prefer_pullback_add"
         THEN [r EXCEPT !.action = "add_on_pullback"]
    ELSE r

(* When the assessment and the evidence both support buying, a passive     *)
(* answer is promoted and the target raised to the recommended one.        *)
PolicySupportsAdd(p) ==
    /\ p.ai.evaluated
    /\ p.ai.stance \in {"underweight", "no_position"}
    /\ p.ai.bias \in AddPermissions
    /\ p.ai.target > Current(p)

HasNoData(card) == card.stance = "insufficient_data"

EvidenceAllowsAdd(p, y) ==
    /\ y.stance \in {"bullish", "neutral"}
    /\ p.fund.status \notin {"red", "orange"}
    /\ p.trend.level \notin {"severe", "broken"}
    /\ \A a, b \in {"trend", "fund", "event"} : a # b => ~(HasNoData(p[a]) /\ HasNoData(p[b]))

Supported(p, y) == PolicySupportsAdd(p) /\ EvidenceAllowsAdd(p, y)

Promoted(p, y, r) ==
    IF r.action \in Passive /\ Supported(p, y)
    THEN [r EXCEPT !.action = IF p.ai.bias = "prefer_pullback_add" THEN "add_on_pullback" ELSE "add_small"]
    ELSE r

Aligned(p, y, r) ==
    IF r.action \in AddLike /\ Supported(p, y)
    THEN [r EXCEPT !.target = Greatest(@, Least(p.ai.target, PlanMax(p)))]
    ELSE r

(* What no plan may say: leaving a position that is not held, buying       *)
(* without data or, for a holder, against a bearish view.                  *)
NothingToLeave(p, y, r) ==
    IF ~p.holding /\ r.action \in Reducing \cup Selling
    THEN [action |-> IF y.stance = "bearish" THEN "avoid" ELSE "watchlist", target |-> 0]
    ELSE r

NoBlindAdd(p, y, r) == IF y.stance = "insufficient_data" /\ r.action \in AddLike THEN Refused(p) ELSE r

NoBearishAdd(p, y, r) ==
    IF y.stance = "bearish" /\ p.holding /\ r.action \in AddLike THEN Refused(p) ELSE r

(* A plausible bug, used as a mutant only: reductions are not checked.     *)
MovesThePosition_AddsOnly(p, r) ==
    IF r.action \in AddLike /\ r.target <= Current(p) THEN Refused(p)
    ELSE IF r.action \in Selling THEN [r EXCEPT !.target = 0]
    ELSE r

(* An addition must raise the position and a reduction lower it.           *)
MovesThePosition(p, r) ==
    IF (r.action \in AddLike /\ r.target <= Current(p)) \/ (r.action \in Reducing /\ r.target >= Current(p))
    THEN Refused(p)
    ELSE IF r.action \in Selling THEN [r EXCEPT !.target = 0]
    ELSE r

Sanitized(p, y) ==
    LET advised == Aligned(p, y, Promoted(p, y, BiasForbids(p, StanceForbids(p, Truncated(p, y)))))
    IN MovesThePosition(p, NoBearishAdd(p, y, NoBlindAdd(p, y, NothingToLeave(p, y, advised))))

PlanCard(p, y) ==
    [action |-> Sanitized(p, y).action, target |-> Sanitized(p, y).target, current |-> Current(p),
     max |-> PlanMax(p), invalidation |-> y.invalidation, ratio |-> y.ratio, downside |-> y.downside,
     skeleton |-> FALSE]

SkeletonPlan(p) ==
    [action |-> Refused(p).action, target |-> Current(p), current |-> p.position,
     max |-> Current(p), invalidation |-> FALSE, ratio |-> Absent, downside |-> Absent, skeleton |-> TRUE]

=============================================================================
