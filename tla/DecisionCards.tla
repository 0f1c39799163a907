--------------------------- MODULE DecisionCards ---------------------------
(***************************************************************************)
(* The evidence a trade decision is made from: the cards the sub-agents    *)
(* build (services/trade_decision_sub_agents.py), the investment theses    *)
(* (services/investment_thesis.py), the trend-break level computed from    *)
(* the candles (services/technical_signal_engine.py) and the fundamental   *)
(* status computed from the reports (services/fundamental_change_engine.py)*)
(*                                                                         *)
(* A position is in per mille of the account, a reward/risk ratio in       *)
(* hundredths.  What a language model or a market data tool answers is a   *)
(* free choice among the values the rules tell apart; what the code        *)
(* computes from it is computed here.                                      *)
(***************************************************************************)
EXTENDS Integers

Absent == -1

Least(a, b) == IF a < b THEN a ELSE b
Greatest(a, b) == IF a > b THEN a ELSE b

-----------------------------------------------------------------------------
(* The vocabulary of account actions.                                      *)

AddLike == {"add", "add_small", "add_batch", "add_on_pullback", "add_right_side"}
StrongAdd == {"add", "add_batch", "add_right_side"}
Reducing == {"reduce", "reduce_batch", "reduce_now", "trim_on_rebound"}
Selling == {"sell", "sell_thesis_broken"}
Passive == {"hold", "hold_no_add", "wait", "watchlist", "avoid", "panic_blocked"}
Actions == AddLike \cup Reducing \cup Selling \cup Passive

-----------------------------------------------------------------------------
(* Investment theses.  The text of a rule matters only through the tokens  *)
(* the code looks for in it: sellOnSevere, a sell trigger naming a severe  *)
(* trend; brokenBy, the reported signals whose tokens occur in a sell      *)
(* trigger; noAddOn, what the no-add triggers speak of.                    *)

Thesis(role, risk, max, target, sellOnSevere, brokenBy, noAddOn) ==
    [role |-> role, risk |-> risk, max |-> max, target |-> target,
     sellOnSevere |-> sellOnSevere, brokenBy |-> brokenBy, noAddOn |-> noAddOn]

DefaultThesis == Thesis("unknown", "unknown", 50, 30, FALSE, {}, {})

RegisteredTheses ==
    {Thesis("core_growth", "high_growth", 280, 200, TRUE, {"revenue", "guidance"}, {"trend", "catalyst"}),
     Thesis("btc_proxy", "extreme", 100, 50, TRUE, {}, {"trend"}),
     Thesis("cloud_infra_growth", "medium_high", 120, 80, FALSE, {"revenue", "cash"}, {}),
     Thesis("software_platform", "medium", 200, 150, FALSE, {"revenue"}, {"catalyst"}),
     Thesis("social_platform", "medium_high", 150, 100, FALSE, {"revenue"}, {}),
     Thesis("core_balance", "low", 50, 30, FALSE, {}, {"limit"}),
     Thesis("opportunistic", "high_growth", 80, 50, FALSE, {"margin"}, {"trend"})}

Theses == RegisteredTheses \cup {DefaultThesis}

NoAddTriggerHit(thesis, position, level, strength) ==
    \/ "trend" \in thesis.noAddOn /\ level \in {"broken", "severe"}
    \/ "limit" \in thesis.noAddOn /\ position >= thesis.max
    \/ "catalyst" \in thesis.noAddOn /\ strength \in {"weak", "no_catalyst"}

-----------------------------------------------------------------------------
(* Cards a sub-agent falls back to when it cannot answer.                  *)

FallbackTrend == [stance |-> "insufficient_data", score |-> 0, quality |-> "low", level |-> "unknown"]
FallbackFundamental == [stance |-> "insufficient_data", score |-> 0, quality |-> "low",
                        pe |-> Absent, status |-> "unknown", broken |-> FALSE]
FallbackEvent == [stance |-> "insufficient_data", score |-> 0, quality |-> "low",
                  strength |-> "neutral", quiet |-> TRUE]
FallbackFit == [level |-> "unknown", score |-> 0, quality |-> "low", max |-> Absent, warned |-> FALSE]

(* A card counts as a fallback when it has no data, or next to none.       *)
IsFallback(card) == card.stance = "insufficient_data" \/ (card.quality = "low" /\ card.score <= 1)

FallbackCount(pack) ==
    (IF IsFallback(pack.trend) THEN 1 ELSE 0) + (IF IsFallback(pack.fund) THEN 1 ELSE 0)
        + (IF IsFallback(pack.event) THEN 1 ELSE 0)

-----------------------------------------------------------------------------
(* The market trend card.  Without candles there is no break level and the *)
(* quality of the evidence stays low whatever the model says.              *)

(* The facts of the candles: "below_ma200", "lags_both", "lags_one",       *)
(* "below_falling_ma50", "below_ma20" and "heavy_volume_drop".             *)
BreakLevel(candles, facts) ==
    IF ~candles THEN "unknown"
    ELSE IF {"below_ma200", "lags_both"} \cap facts # {} THEN "severe"
    ELSE IF "below_falling_ma50" \in facts THEN "broken"
    ELSE IF facts # {} THEN "warning"
    ELSE "none"

TrendCard(stance, score, tools, candles, facts) ==
    [stance |-> stance, score |-> Least(Greatest(score, 0), 15),
     quality |-> IF ~tools \/ ~candles THEN "low" ELSE IF score >= 10 THEN "high" ELSE "medium",
     level |-> BreakLevel(candles, facts)]

-----------------------------------------------------------------------------
(* The fundamental card.  change says of each reported dimension whether   *)
(* it worsened (1), improved (-1) or neither; cash flow and the segments   *)
(* only ever count against.  A signal named by the thesis breaks it, and a *)
(* broken thesis is red whatever the sum says.                             *)

Dimensions == {"revenue", "margin", "cash", "guidance", "segment", "rating", "eps"}

SignalSum(change) ==
    2 * change["revenue"] + 2 * change["margin"] + 2 * change["cash"] + 3 * change["guidance"]
        + 2 * change["segment"] + change["rating"] + 2 * change["eps"]

ThesisBroken(change, thesis) == \E d \in thesis.brokenBy : change[d] = 1

FundamentalStatus(change, thesis) ==
    IF ThesisBroken(change, thesis) \/ SignalSum(change) >= 6 THEN "red"
    ELSE IF \A d \in Dimensions : change[d] = 0 THEN "unknown"
    ELSE IF SignalSum(change) >= 3 THEN "orange"
    ELSE IF SignalSum(change) <= -3 THEN "green"
    ELSE "yellow"

(* The parsed card's stance follows the price/earnings ratio alone, so it  *)
(* is never bearish.                                                       *)
FundamentalCard(score, pe, tools, growth, change, thesis) ==
    [stance |-> IF pe = Absent THEN "mixed" ELSE IF pe < 30 THEN "bullish" ELSE "neutral",
     score |-> Least(Greatest(score, 0), 35),
     quality |-> IF score <= 0 \/ ~tools THEN "low" ELSE IF growth THEN "high" ELSE "medium",
     pe |-> pe, status |-> FundamentalStatus(change, thesis), broken |-> ThesisBroken(change, thesis)]

(* The card built from the tools' answers alone when the model's cannot be *)
(* read.                                                                   *)
DeterministicFundamental(reports, pe, rating) ==
    LET score == (IF reports THEN 10 ELSE 0) + (IF pe # Absent THEN 8 ELSE 0) + (IF rating THEN 5 ELSE 0)
    IN [stance |-> IF score > 0 THEN "neutral" ELSE "insufficient_data", score |-> score,
        quality |-> IF score > 0 THEN "medium" ELSE "low", pe |-> pe, status |-> "unknown", broken |-> FALSE]

-----------------------------------------------------------------------------
(* The event card: quiet, no key event and at most one piece of news.      *)

EventCard(stance, score, tools, limited, strength, quiet) ==
    [stance |-> stance, score |-> Least(Greatest(score, 0), 5),
     quality |-> IF limited /\ ~tools THEN "low" ELSE "medium", strength |-> strength, quiet |-> quiet]

DeterministicEvent(news) ==
    [stance |-> IF news THEN "neutral" ELSE "insufficient_data", score |-> IF news THEN 2 ELSE 0,
     quality |-> IF news THEN "medium" ELSE "low", strength |-> "weak", quiet |-> ~news]

IsWeakCatalyst(event) == event.strength \in {"weak", "no_catalyst"} \/ event.score <= 1 \/ event.quiet

(* A negative sentiment is what makes an event card bearish.               *)
IsSevereBreakdown(pack) ==
    \/ pack.trend.stance = "bearish" /\ pack.trend.score <= 1
    \/ pack.fund.stance = "bearish" /\ pack.fund.score <= 1
    \/ pack.event.strength = "weak" /\ pack.event.stance = "bearish" /\ pack.event.score <= 1

-----------------------------------------------------------------------------
(* The account fit card, from the share of the account that is liquid, the *)
(* position and the last review of the symbol.                             *)

(* The latest review is "none", "good", "tagged", "below_50" or "below_40". *)

FitLevel(liquid, position, review) ==
    IF liquid > 300 /\ position < 50 THEN IF review = "below_40" THEN "fair" ELSE "excellent"
    ELSE IF liquid > 150 /\ position < 100 THEN "good"
    ELSE IF liquid > 50 THEN "fair"
    ELSE "poor"

FitScore(liquid, position) ==
    IF liquid > 300 /\ position < 50 THEN 20
    ELSE IF liquid > 150 /\ position < 100 THEN 16
    ELSE IF liquid > 50 THEN 10
    ELSE 4

SuggestedMax(position) ==
    IF position < 10 THEN 50
    ELSE IF position < 30 THEN 80
    ELSE IF position < 60 THEN 100
    ELSE IF position < 100 THEN 50
    ELSE 30

FitCard(liquid, position, review) ==
    [level |-> FitLevel(liquid, position, review), score |-> FitScore(liquid, position), quality |-> "high",
     max |-> SuggestedMax(position), warned |-> review \in {"tagged", "below_40"}]

-----------------------------------------------------------------------------
(* What the model recommends for the position, once validated: a user      *)
(* policy that forbids the asset turns a permission to buy into avoid.     *)

NoAssessment == [evaluated |-> FALSE, max |-> Absent, target |-> Absent, stance |-> "unknown", bias |-> "unknown"]

AddPermissions == {"allow_add", "prefer_pullback_add"}

Assessment(max, target, stance, bias, forbidden) ==
    [evaluated |-> TRUE, max |-> max, target |-> target, stance |-> stance,
     bias |-> IF forbidden /\ bias \in AddPermissions THEN "avoid" ELSE bias]

=============================================================================
