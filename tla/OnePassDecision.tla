--------------------------- MODULE OnePassDecision ---------------------------
(***************************************************************************)
(* The one-pass trade decision of agents/trade_decision/agent.py, the one  *)
(* the route answers with while a client waits: four sub-agents ask the    *)
(* model in parallel, a deterministic engine weighs risk against reward,   *)
(* one more answer is the decision and the gate of agents/trade_decision/  *)
(* risk_gate.py has the last word.                                         *)
(*                                                                         *)
(* The gate is a second copy of services/trade_decision_risk_gate.py that  *)
(* has gone its own way.  On this path no market data tool is passed to    *)
(* the sub-agents and no engine fills the trend-break level and the        *)
(* fundamental status in: they stay "unknown", so the rules that test them *)
(* (trend break, sell and no-add triggers, fundamentals, a downside above  *)
(* 30) have no case and are left out.  Numbers are in thousandths.         *)
(***************************************************************************)
EXTENDS DecisionCards

CONSTANTS Cases,     \* what the database and the question say of the symbol
          Cards,     \* for each sub-agent, the cards its answer may amount to
          Drafts     \* what the model may answer when asked for the decision

VARIABLES facts,     \* the account facts
          cards,     \* the card of each sub-agent, Pending until it is there
          draft,     \* the composed decision
          verdict,   \* what the gate made of it
          stage      \* "analyze", "compose", "gate", "publish", "saved" or "failed"

vars == <<facts, cards, draft, verdict, stage>>

Agents == {"fit", "trend", "fund", "event"}
Pending == [stance |-> "pending"]
Unreadable == -2    \* a score that is no number

(* Only the level of the account-fit card is looked at; the public cards   *)
(* are of low quality, having used no tool.                                *)
FitAnswer(level) == [level |-> level]

TrendAnswer(stance, score) == [stance |-> stance, score |-> score, quality |-> "low", level |-> "unknown"]

FundamentalAnswer(stance, score, pe, growth) ==
    [stance |-> stance, score |-> score, quality |-> "low", pe |-> pe, growth |-> growth,
     status |-> "unknown", broken |-> FALSE]

EventAnswer(stance, score, strength, sentiment, quiet) ==
    [stance |-> stance, score |-> score, quality |-> "low", strength |-> strength,
     sentiment |-> sentiment, quiet |-> quiet]

(* The card that stands in for a sub-agent whose call or answer failed.    *)
FallbackCard(a) ==
    CASE a = "fit" -> FitAnswer("unknown")
      [] a = "trend" -> FallbackTrend
      [] a = "fund" -> FundamentalAnswer("insufficient_data", 0, Absent, Absent)
      [] OTHER -> EventAnswer("insufficient_data", 0, "neutral", "neutral", TRUE)

NoDraft == [action |-> "none"]
FallbackDecision ==
    [action |-> "watchlist", confidence |-> "low", max |-> Absent, current |-> Absent, target |-> Absent,
     invalidation |-> FALSE, panicWords |-> FALSE, readable |-> TRUE]

-----------------------------------------------------------------------------
(* The reward/risk ratio.  Without technical signals the downside is the   *)
(* penalty of an extreme asset, if any, and the upside the growth the      *)
(* fundamental card tells of, which needs a price and a price/earnings     *)
(* ratio.                                                                  *)

Downside(f) == IF f.thesis.risk = "extreme" THEN 15 ELSE Absent

Upside(f, fund) ==
    IF f.price > 0 /\ fund.pe > 0 /\ fund.growth \in 1 .. 199 THEN Least(fund.growth, 20) ELSE Absent

Ratio(f, fund) ==
    IF Downside(f) = Absent \/ Upside(f, fund) = Absent THEN Absent
    ELSE (100 * Upside(f, fund)) \div Downside(f)

-----------------------------------------------------------------------------
(* The gate.  As in RiskGate, a rule takes the result so far to the one    *)
(* after it; f are the facts, c the cards and d the draft.                 *)

To(r, action, flag) == [action |-> action, flags |-> r.flags \cup {flag}]

(* The symbol counts as held once the database has a position row for it,  *)
(* of whatever date (_build_account_facts).                                *)
Holding(f) == f.seen

NoAdd(f) == IF Holding(f) THEN "hold_no_add" ELSE "wait"
PullbackOnly(f) == IF Holding(f) THEN "hold_no_add" ELSE "add_on_pullback"

IsBearish(card) == card.stance = "bearish" /\ card.score <= 1

(* The gate compares the score of every card that has data.                *)
GateRaises(c, d) ==
    \/ ~d.readable
    \/ \E a \in {"trend", "fund", "event"} : c[a].stance # "insufficient_data" /\ c[a].score = Unreadable

Panic(f, c, d) == d.panicWords /\ Holding(f) /\ ~IsBearish(c["fund"]) /\ ~IsBearish(c["trend"])

Evidence(c) == [trend |-> c["trend"], fund |-> c["fund"], event |-> c["event"]]

PositionLimits(f, c, d, r) ==
    LET limited == IF r.action \in AddLike /\ d.max <= 0 THEN To(r, NoAdd(f), "missing_position_limit") ELSE r
        backed == IF limited.action \in StrongAdd /\ ~d.invalidation
                  THEN To(limited, PullbackOnly(f), "missing_invalidation_conditions") ELSE limited
    IN IF /\ backed.action \in AddLike
          /\ \/ d.max > 0 /\ d.current # Absent /\ d.current >= d.max
             \/ c["fit"].level \in {"concentrated", "poor"}
       THEN To(backed, "hold_no_add", "position_limit_reached") ELSE backed

(* A plausible bug, used as a mutant only: the trend card is not looked at *)
(* by itself.                                                              *)
DataQuality_CountOnly(f, c, r) ==
    IF r.action \in AddLike /\ (FallbackCount(Evidence(c)) >= 2 \/ IsFallback(c["fund"]))
    THEN To(r, NoAdd(f), "insufficient_data")
    ELSE IF r.action \in AddLike /\ IsWeakCatalyst(c["event"]) THEN To(r, NoAdd(f), "weak_catalyst_downgrade")
    ELSE r

(* The risk/reward card is always of high quality.                         *)
DataQuality(f, c, r) ==
    IF r.action \in AddLike
        /\ (FallbackCount(Evidence(c)) >= 2 \/ IsFallback(c["trend"]) \/ IsFallback(c["fund"]))
    THEN To(r, NoAdd(f), "insufficient_data")
    ELSE IF r.action \in AddLike /\ IsWeakCatalyst(c["event"]) THEN To(r, NoAdd(f), "weak_catalyst_downgrade")
    ELSE r

ThesisRules(f, d, r) ==
    LET limited == IF r.action \in AddLike /\ f.thesis.max > 0 /\ d.current # Absent /\ d.current >= f.thesis.max
                   THEN To(r, "hold_no_add", "thesis_position_limit") ELSE r
    IN IF f.thesis.risk = "extreme" /\ limited.action \in StrongAdd
       THEN To(limited, PullbackOnly(f), "thesis_extreme_risk_blocked") ELSE limited

(* A plausible bug, used as a mutant only: a ratio of one is enough.       *)
LowRatio_BelowOne(f, c, r) ==
    LET ratio == Ratio(f, c["fund"])
    IN IF ratio # Absent /\ r.action \in AddLike /\ ratio < 100
       THEN To(r, IF Holding(f) THEN "reduce_now" ELSE "wait", "rr_below_one") ELSE r

LowRatio(f, c, r) ==
    LET ratio == Ratio(f, c["fund"])
    IN IF ratio = Absent \/ r.action \notin AddLike THEN r
       ELSE IF ratio < 100 THEN To(r, IF Holding(f) THEN "reduce_now" ELSE "wait", "rr_below_one")
       ELSE IF ratio < 150 THEN To(r, NoAdd(f), "rr_below_one_five")
       ELSE r

IsBreakdown(c) ==
    \/ IsBearish(c["trend"]) \/ IsBearish(c["fund"])
    \/ c["event"].strength = "weak" /\ c["event"].sentiment = "negative" /\ c["event"].score <= 1

Breakdown(f, c, r) ==
    IF IsBreakdown(c) /\ Holding(f) /\ r.action \in {"hold", "watchlist", "wait", "add_on_pullback"}
    THEN To(r, "reduce_now", "thesis_breakdown_detected") ELSE r

(* A target above the limit is only flagged.                               *)
TargetAboveMax(d, r) ==
    IF d.max > 0 /\ d.target > d.max THEN [r EXCEPT !.flags = @ \cup {"target_above_max_position"}] ELSE r

AfterRules(f, c, d) ==
    LET drafted == [action |-> d.action, flags |-> {}]
    IN TargetAboveMax(d, Breakdown(f, c, LowRatio(f, c,
           ThesisRules(f, d, DataQuality(f, c, PositionLimits(f, c, d, drafted))))))

Cap(c, flags) ==
    IF FallbackCount(Evidence(c)) >= 3 THEN "low"
    ELSE IF flags \cap {"weak_catalyst_downgrade", "insufficient_data"} # {} THEN "medium"
    ELSE "none"

Rank(confidence) == CASE confidence = "low" -> 0 [] confidence = "medium" -> 1 [] OTHER -> 2
Clamp(confidence, cap) == IF cap = "none" \/ Rank(confidence) <= Rank(cap) THEN confidence ELSE cap

(* What the decision says after the gate.  When the gate raises, the       *)
(* action is replaced and the confidence left as it is.                    *)
Verdict(f, c, d) ==
    IF GateRaises(c, d) THEN [action |-> "wait", flags |-> {"risk_gate_failed"}, confidence |-> d.confidence]
    ELSE IF Panic(f, c, d)
    THEN [action |-> "panic_blocked", flags |-> {"panic_sell_blocked"}, confidence |-> "low"]
    ELSE LET r == AfterRules(f, c, d)
         IN [action |-> r.action, flags |-> r.flags, confidence |-> Clamp(d.confidence, Cap(c, r.flags))]

-----------------------------------------------------------------------------
Init ==
    /\ facts \in Cases
    /\ cards = [a \in Agents |-> Pending]
    /\ draft = NoDraft
    /\ verdict = NoDraft
    /\ stage = "analyze"

(* A sub-agent ends in its thread; the last one lets the request go on.    *)
Ends(a, card) ==
    /\ stage = "analyze" /\ cards[a] = Pending
    /\ cards' = [cards EXCEPT ![a] = card]
    /\ stage' = IF \A b \in Agents \ {a} : cards[b] # Pending THEN "compose" ELSE "analyze"
    /\ UNCHANGED <<facts, draft, verdict>>

SubAgentAnswers(a) == \E card \in Cards[a] : Ends(a, card)
SubAgentFails(a) == Ends(a, FallbackCard(a))

(* The question counts as much as the summary when panic is looked for.    *)
Compose(d) ==
    /\ stage = "compose"
    /\ draft' = [d EXCEPT !.panicWords = @ \/ facts.panicWords]
    /\ stage' = "gate"
    /\ UNCHANGED <<facts, cards, verdict>>

ComposeAnswers == \E d \in Drafts : Compose(d)
ComposeFails == Compose(FallbackDecision)

ApplyRiskGate ==
    /\ stage = "gate"
    /\ verdict' = Verdict(facts, cards, draft)
    /\ stage' = "publish"
    /\ UNCHANGED <<facts, cards, draft>>

(* The reports are written before the row; when either write fails nothing *)
(* is saved and the request is answered with an error.                     *)
Save == stage = "publish" /\ stage' = "saved" /\ UNCHANGED <<facts, cards, draft, verdict>>
SaveFails == stage = "publish" /\ stage' = "failed" /\ UNCHANGED <<facts, cards, draft, verdict>>

Next ==
    \/ \E a \in Agents : SubAgentAnswers(a) \/ SubAgentFails(a)
    \/ ComposeAnswers \/ ComposeFails
    \/ ApplyRiskGate
    \/ Save \/ SaveFails

Spec == Init /\ [][Next]_vars

-----------------------------------------------------------------------------
Decided == stage \in {"publish", "saved", "failed"}
Added == Decided /\ verdict.action \in AddLike

(* The same evidence and draft, as the gate of the decision graph is given *)
(* them: without an assessment, the level and the status unknown.          *)
Graph == INSTANCE RiskGate

AsPack ==
    [holding |-> Holding(facts), position |-> 0, fit |-> cards["fit"], thesis |-> facts.thesis, ai |-> NoAssessment,
     trend |-> cards["trend"], fund |-> cards["fund"], panicWords |-> draft.panicWords,
     event |-> [cards["event"] EXCEPT !.stance = IF @ = "insufficient_data" THEN @
                                                 ELSE IF cards["event"].sentiment = "negative" THEN "bearish"
                                                 ELSE "neutral"]]

AsDraft ==
    [action |-> draft.action, max |-> draft.max, current |-> draft.current, target |-> draft.target,
     invalidation |-> draft.invalidation, planBroken |-> FALSE,
     ratio |-> Ratio(facts, cards["fund"]), downside |-> Downside(facts)]

(* The two copies of the gate have diverged, but not in what they let      *)
(* through: an addition this gate publishes is one the gate of the         *)
(* decision graph publishes too on the same evidence, by the same name.    *)
AddsAsTheGraphDoes ==
    Added => Graph!Evaluate(AsPack, AsDraft).action = verdict.action

(* No addition is published on a breakdown, for an asset whose known       *)
(* reward does not make up for its risk, at the limit, or on a public card *)
(* without data, and its confidence is the one it was drafted with.  The   *)
(* breakdown rule itself neither looks at non-holders nor at the strong    *)
(* and small additions: what stops these is that a bearish card with no    *)
(* tool behind it counts as no data, and a weak catalyst.                  *)
OnePassAddIsEarned ==
    Added =>
        /\ draft.action \in AddLike
        /\ ~IsBreakdown(cards)
        /\ ~IsFallback(cards["trend"]) /\ ~IsFallback(cards["fund"])
        /\ Ratio(facts, cards["fund"]) = Absent
        /\ draft.max > 0
        /\ draft.current < Least(draft.max, facts.thesis.max)
        /\ verdict.confidence = draft.confidence

-----------------------------------------------------------------------------
(* What "reduce" and "panic" tell a user of is a position: refuted, since  *)
(* a symbol sold long ago still has rows of the days it was held           *)
(* (_build_account_facts, "Get current position for the symbol").          *)
OnlyHoldersAreTold ==
    Decided /\ "risk_gate_failed" \notin verdict.flags /\ draft.action \notin Reducing \cup {"panic_blocked"}
        /\ verdict.action \in Reducing \cup {"panic_blocked"} => facts.held

(* "Fail-safe", with a cap of low on the confidence (make_fail_safe_result *)
(* in risk_gate.py): refuted, the cap is reported and never applied.       *)
FailSafeIsOfLowConfidence == Decided /\ "risk_gate_failed" \in verdict.flags => verdict.confidence = "low"

=============================================================================
