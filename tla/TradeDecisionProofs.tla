------------------------- MODULE TradeDecisionProofs -------------------------
(***************************************************************************)
(* Proofs that the risk gate keeps its promises for every card pack and    *)
(* every answer of the model, that the older gate of the one-pass flow     *)
(* publishes no addition this one would not, and that a portfolio report   *)
(* shows the decisions on the scan of its loop.                            *)
(*                                                                         *)
(* The gate is a chain of some twenty rules.  For each rule one lemma says *)
(* what an addition that leaves the rule tells of the addition that        *)
(* entered it, and what a strong addition tells; the chain then gives the  *)
(* facts about the published action, whatever the rules in between did.    *)
(***************************************************************************)
EXTENDS MCTradeDecision, Sequences, FiniteSetTheorems, TLAPS

(* The rules about limits, conditions and data.                            *)
LEMMA LimitRules ==
    ASSUME NEW p, NEW d, AfterLimits(p, d).action \in AddLike
    PROVE  /\ d.action \in AddLike
           /\ ~(d.max <= 0)
           /\ ~(FallbackCount(p) >= 2)
           /\ AfterLimits(p, d).action # d.action => AfterLimits(p, d).action = "add_on_pullback"
           /\ AfterLimits(p, d).action \in StrongAdd => d.invalidation
<1> DEFINE r0 == [action |-> d.action, flags |-> {}]
           r1 == MissingLimit(p, d, r0)
           r2 == MissingInvalidation(p, d, r1)
           r3 == InsufficientData(p, r2)
<1>1. r3.action \in AddLike => r3.action = r2.action /\ ~(FallbackCount(p) >= 2)
  BY DEF InsufficientData, To, NoAdd, AddLike
<1>2. r2.action \in AddLike =>
        /\ r1.action \in AddLike
        /\ r2.action # r1.action => r2.action = "add_on_pullback"
        /\ r2.action \in StrongAdd => d.invalidation
  BY DEF MissingInvalidation, To, PullbackOnly, AddLike, StrongAdd
<1>3. r1.action \in AddLike => r1.action = d.action /\ ~(d.max <= 0)
  BY DEF MissingLimit, To, NoAdd, AddLike
<1>4. AfterLimits(p, d) = r3
  BY DEF AfterLimits
<1> HIDE DEF r1, r2, r3
<1> QED  BY <1>1, <1>2, <1>3, <1>4 DEF AddLike, StrongAdd

(* The rules about the catalyst, the account and the assessment.           *)
LEMMA AccountRules ==
    ASSUME NEW p, NEW d, AfterAccount(p, d).action \in AddLike
    PROVE  /\ AfterLimits(p, d).action \in AddLike
           /\ ~(d.max > 0 /\ d.current >= d.max) /\ p.fit.level # "poor"
           /\ p.ai.evaluated => p.ai.bias \notin {"hold_no_add", "avoid", "prefer_reduce"}
           /\ p.ai.evaluated /\ ~(p.ai.max <= 0) => ~(d.current >= p.ai.max) /\ ~(d.target > p.ai.max)
           /\ AfterAccount(p, d).action # AfterLimits(p, d).action => AfterAccount(p, d).action = "add_on_pullback"
           /\ AfterAccount(p, d).action \in StrongAdd /\ IsWeakCatalyst(p.event) =>
                  AfterAccount(p, d).action = "add_right_side" /\ d.ratio >= 200
<1> DEFINE r0 == AfterLimits(p, d)
           r1 == WeakCatalyst(p, d, r0)
           r2 == PositionLimit(p, d, r1)
           r3 == AiBias(p, r2)
           r4 == AiLimit(p, d, r3)
<1>1. r4.action \in AddLike =>
        /\ r4.action = r3.action
        /\ p.ai.evaluated /\ ~(p.ai.max <= 0) => ~(d.current >= p.ai.max) /\ ~(d.target > p.ai.max)
  BY DEF AiLimit, To, Flag, NoAdd, AddLike
<1>2. r3.action \in AddLike =>
        /\ r3.action = r2.action
        /\ p.ai.evaluated => p.ai.bias \notin {"hold_no_add", "avoid", "prefer_reduce"}
  BY DEF AiBias, To, NoAdd, AddLike
<1>3. r2.action \in AddLike =>
        r2.action = r1.action /\ ~(d.max > 0 /\ d.current >= d.max) /\ p.fit.level # "poor"
  BY DEF PositionLimit, To, AddLike
<1>4. r1.action \in AddLike =>
        /\ r0.action \in AddLike
        /\ r1.action # r0.action => r1.action = "add_on_pullback"
        /\ r1.action \in StrongAdd /\ IsWeakCatalyst(p.event) => r1.action = "add_right_side" /\ d.ratio >= 200
  <2>1. CASE ~IsWeakCatalyst(p.event)
    BY <2>1 DEF WeakCatalyst
  <2>2. CASE IsWeakCatalyst(p.event) /\ WeakRightSideAllowed(p, d, r0)
    BY <2>2 DEF WeakCatalyst, WeakRightSideAllowed
  <2>3. CASE IsWeakCatalyst(p.event) /\ ~WeakRightSideAllowed(p, d, r0)
    <3>1. CASE r0.action \notin AddLike
      <4>1. r1.action = r0.action
        BY <2>3, <3>1 DEF WeakCatalyst, Flag
      <4> QED  BY <3>1, <4>1
    <3>2. CASE r0.action \in AddLike /\ WeakPullbackAllowed(p, d, r0)
      <4>1. r1.action = r0.action
        BY <2>3, <3>2 DEF WeakCatalyst, Flag
      <4>2. r0.action = "add_on_pullback"
        BY <3>2 DEF WeakPullbackAllowed
      <4> QED  BY <3>2, <4>1, <4>2 DEF StrongAdd
    <3>3. CASE r0.action \in AddLike /\ ~WeakPullbackAllowed(p, d, r0)
      <4>1. r1.action \in {"add_on_pullback", "hold_no_add", "wait"}
        BY <2>3, <3>3 DEF WeakCatalyst, To, NoAdd
      <4> QED  BY <3>3, <4>1 DEF AddLike, StrongAdd
    <3> QED  BY <3>1, <3>2, <3>3
  <2> QED  BY <2>1, <2>2, <2>3
<1>5. AfterAccount(p, d) = r4
  BY DEF AfterAccount
<1> HIDE DEF r0, r1, r2, r3, r4
<1>6. r0 = AfterLimits(p, d)
  BY DEF r0
<1> QED  BY <1>1, <1>2, <1>3, <1>4, <1>5, <1>6 DEF AddLike, StrongAdd

(* The rules about the trend and the thesis.                               *)
LEMMA ThesisRules ==
    ASSUME NEW p, NEW d, AfterThesis(p, d).action \in AddLike
    PROVE  /\ AfterAccount(p, d).action \in AddLike
           /\ p.trend.level \notin {"severe", "broken"}
           /\ ~(p.thesis.max > 0 /\ d.current >= p.thesis.max)
           /\ ~NoAddTriggerHit(p.thesis, d.current, p.trend.level, p.event.strength)
           /\ AfterThesis(p, d).action # AfterAccount(p, d).action => AfterThesis(p, d).action = "add_on_pullback"
           /\ AfterThesis(p, d).action \in StrongAdd => p.trend.level # "warning" /\ p.thesis.risk # "extreme"
<1> DEFINE r0 == AfterAccount(p, d)
           r1 == TrendBreak(p, d, r0)
           r2 == ThesisLimit(p, d, r1)
           r3 == ThesisExtreme(p, r2)
           r4 == ThesisSellTrigger(p, r3)
           r5 == ThesisNoAddTrigger(p, d, r4)
<1>1. r5.action \in AddLike =>
        r5.action = r4.action /\ ~NoAddTriggerHit(p.thesis, d.current, p.trend.level, p.event.strength)
  BY DEF ThesisNoAddTrigger, To, NoAdd, AddLike
<1>2. r4.action \in AddLike => r4.action = r3.action
  BY DEF ThesisSellTrigger, Exit, To, AddLike
<1>3. r3.action \in AddLike =>
        /\ r2.action \in AddLike
        /\ r3.action # r2.action => r3.action = "add_on_pullback"
        /\ r3.action \in StrongAdd => p.thesis.risk # "extreme"
  BY DEF ThesisExtreme, PullbackOnly, To, AddLike, StrongAdd
<1>4. r2.action \in AddLike => r2.action = r1.action /\ ~(p.thesis.max > 0 /\ d.current >= p.thesis.max)
  BY DEF ThesisLimit, To, AddLike
<1>5. r1.action \in AddLike =>
        /\ r0.action \in AddLike
        /\ p.trend.level \notin {"severe", "broken"}
        /\ r1.action # r0.action => r1.action = "add_on_pullback"
        /\ r1.action \in StrongAdd => p.trend.level # "warning"
  BY DEF TrendBreak, PullbackOnly, NoAdd, To, Flag, AddLike, StrongAdd
<1>6. AfterThesis(p, d) = r5
  BY DEF AfterThesis
<1> HIDE DEF r0, r1, r2, r3, r4, r5
<1>7. r0 = AfterAccount(p, d)
  BY DEF r0
<1> QED  BY <1>1, <1>2, <1>3, <1>4, <1>5, <1>6, <1>7 DEF AddLike, StrongAdd

(* The rules about the fundamentals.                                       *)
LEMMA FundamentalRules ==
    ASSUME NEW p, NEW d, AfterFundamentals(p, d).action \in AddLike
    PROVE  /\ AfterThesis(p, d).action \in AddLike
           /\ p.fund.status \notin {"red", "orange"} /\ ~p.fund.broken
           /\ AfterFundamentals(p, d).action # AfterThesis(p, d).action =>
                  AfterFundamentals(p, d).action = "add_on_pullback"
           /\ AfterFundamentals(p, d).action \in StrongAdd => p.fund.status # "yellow"
<1> DEFINE r0 == AfterThesis(p, d)
           r1 == FundamentalRed(p, r0)
           r2 == FundamentalOrange(p, r1)
           r3 == FundamentalYellow(p, d, r2)
<1>1. r3.action \in AddLike =>
        /\ r2.action \in AddLike
        /\ r3.action # r2.action => r3.action = "add_on_pullback"
        /\ r3.action \in StrongAdd => p.fund.status # "yellow"
  BY DEF FundamentalYellow, PullbackOnly, To, AddLike, StrongAdd
<1>2. r2.action \in AddLike => r2.action = r1.action /\ p.fund.status # "orange"
  BY DEF FundamentalOrange, NoAdd, To, AddLike
<1>3. r1.action \in AddLike => r1.action = r0.action /\ p.fund.status # "red" /\ ~p.fund.broken
  BY DEF FundamentalRed, Exit, To, Flag, AddLike
<1>4. AfterFundamentals(p, d) = r3
  BY DEF AfterFundamentals
<1> HIDE DEF r0, r1, r2, r3
<1>5. r0 = AfterThesis(p, d)
  BY DEF r0
<1> QED  BY <1>1, <1>2, <1>3, <1>4, <1>5 DEF AddLike, StrongAdd

(* The rules about the ratio and the downside.                             *)
LEMMA RatioRules ==
    ASSUME NEW p, NEW d, d.ratio \in Int, AfterRules(p, d).action \in AddLike
    PROVE  /\ AfterFundamentals(p, d).action \in AddLike
           /\ d.ratio = Absent \/ d.ratio >= 150
           /\ AfterRules(p, d).action # AfterFundamentals(p, d).action =>
                  AfterRules(p, d).action = "add_on_pullback"
           /\ AfterRules(p, d).action \in StrongAdd => ~(d.downside > 30)
<1> DEFINE r0 == AfterFundamentals(p, d)
           r1 == LowRatio(p, d, r0)
           r2 == LargeDownside(p, d, r1)
           r3 == SevereBreakdown(p, r2)
           r4 == TargetAboveMax(d, r3)
<1>1. r4.action = r3.action
  BY DEF TargetAboveMax, Flag
<1>2. r3.action \in AddLike => r3.action = r2.action
  BY DEF SevereBreakdown, To, AddLike
<1>3. r2.action \in AddLike =>
        /\ r1.action \in AddLike
        /\ r2.action # r1.action => r2.action = "add_on_pullback"
        /\ r2.action \in StrongAdd => ~(d.downside > 30)
  BY DEF LargeDownside, PullbackOnly, To, AddLike, StrongAdd
<1>4. r1.action \in AddLike => r1.action = r0.action /\ (d.ratio = Absent \/ d.ratio >= 150)
  BY DEF LowRatio, NoAdd, To, AddLike
<1>5. AfterRules(p, d) = r4
  BY DEF AfterRules
<1> HIDE DEF r0, r1, r2, r3, r4
<1>6. r0 = AfterFundamentals(p, d)
  BY DEF r0
<1> QED  BY <1>1, <1>2, <1>3, <1>4, <1>5, <1>6 DEF AddLike, StrongAdd


-----------------------------------------------------------------------------
(* The facts about an addition that has passed every rule of the gate.     *)
PassedTheGate(p, d, action) ==
    /\ d.action \in AddLike
    /\ action # d.action => action = "add_on_pullback"
    /\ ~(d.max <= 0) /\ ~(d.max > 0 /\ d.current >= d.max)
    /\ ~(p.thesis.max > 0 /\ d.current >= p.thesis.max)
    /\ p.ai.evaluated /\ ~(p.ai.max <= 0) => ~(d.current >= p.ai.max) /\ ~(d.target > p.ai.max)
    /\ p.ai.evaluated => p.ai.bias \notin {"hold_no_add", "avoid", "prefer_reduce"}
    /\ ~(FallbackCount(p) >= 2)
    /\ p.fit.level # "poor"
    /\ p.trend.level \notin {"severe", "broken"}
    /\ p.fund.status \notin {"red", "orange"} /\ ~p.fund.broken
    /\ d.ratio = Absent \/ d.ratio >= 150
    /\ ~NoAddTriggerHit(p.thesis, d.current, p.trend.level, p.event.strength)

(* The additional facts about a strong addition.                           *)
PassedAsStrong(p, d, action) ==
    /\ action = d.action
    /\ d.invalidation
    /\ p.trend.level # "warning" /\ p.fund.status # "yellow" /\ p.thesis.risk # "extreme"
    /\ ~(d.downside > 30)
    /\ IsWeakCatalyst(p.event) => action = "add_right_side" /\ d.ratio >= 200

LEMMA GateFacts ==
    ASSUME NEW p, NEW d, d.ratio \in Int, Evaluate(p, d).action \in AddLike
    PROVE  /\ PassedTheGate(p, d, Evaluate(p, d).action)
           /\ Evaluate(p, d).action \in StrongAdd => PassedAsStrong(p, d, Evaluate(p, d).action)
<1> DEFINE a == AfterRules(p, d).action
           b == AfterFundamentals(p, d).action
           c == AfterThesis(p, d).action
           e == AfterAccount(p, d).action
           f == AfterLimits(p, d).action
<1>1. Evaluate(p, d).action = a
  BY DEF Evaluate, AddLike
<1>2. a \in AddLike
  BY <1>1
<1>3. /\ b \in AddLike
      /\ d.ratio = Absent \/ d.ratio >= 150
      /\ a # b => a = "add_on_pullback"
      /\ a \in StrongAdd => ~(d.downside > 30)
  BY <1>2, RatioRules
<1>4. /\ c \in AddLike
      /\ p.fund.status \notin {"red", "orange"} /\ ~p.fund.broken
      /\ b # c => b = "add_on_pullback"
      /\ b \in StrongAdd => p.fund.status # "yellow"
  BY <1>3, FundamentalRules
<1>5. /\ e \in AddLike
      /\ p.trend.level \notin {"severe", "broken"}
      /\ ~(p.thesis.max > 0 /\ d.current >= p.thesis.max)
      /\ ~NoAddTriggerHit(p.thesis, d.current, p.trend.level, p.event.strength)
      /\ c # e => c = "add_on_pullback"
      /\ c \in StrongAdd => p.trend.level # "warning" /\ p.thesis.risk # "extreme"
  BY <1>4, ThesisRules
<1>6. /\ f \in AddLike
      /\ ~(d.max > 0 /\ d.current >= d.max) /\ p.fit.level # "poor"
      /\ p.ai.evaluated => p.ai.bias \notin {"hold_no_add", "avoid", "prefer_reduce"}
      /\ p.ai.evaluated /\ ~(p.ai.max <= 0) => ~(d.current >= p.ai.max) /\ ~(d.target > p.ai.max)
      /\ e # f => e = "add_on_pullback"
      /\ e \in StrongAdd /\ IsWeakCatalyst(p.event) => e = "add_right_side" /\ d.ratio >= 200
  BY <1>5, AccountRules
<1>7. /\ d.action \in AddLike
      /\ ~(d.max <= 0)
      /\ ~(FallbackCount(p) >= 2)
      /\ f # d.action => f = "add_on_pullback"
      /\ f \in StrongAdd => d.invalidation
  BY <1>6, LimitRules
<1> HIDE DEF a, b, c, e, f
<1>8. "add_on_pullback" \notin StrongAdd
  BY DEF StrongAdd
<1>9. a # d.action => a = "add_on_pullback"
  BY <1>3, <1>4, <1>5, <1>6, <1>7
<1>10. PassedTheGate(p, d, a)
  BY <1>3, <1>4, <1>5, <1>6, <1>7, <1>9 DEF PassedTheGate
<1>11. ASSUME a \in StrongAdd PROVE PassedAsStrong(p, d, a)
  <2>1. a = b /\ b = c /\ c = e /\ e = f /\ f = d.action
    BY <1>3, <1>4, <1>5, <1>6, <1>7, <1>8, <1>11
  <2> QED  BY <1>3, <1>4, <1>5, <1>6, <1>7, <1>11, <2>1 DEF PassedAsStrong
<1> QED  BY <1>1, <1>10, <1>11

-----------------------------------------------------------------------------
(* What every rule keeps: the action is one of the vocabulary, only a      *)
(* holder is told to leave a position, and the two flags that other parts  *)
(* of the code raise are not raised by a rule.                             *)
Sound(p, r) ==
    /\ r.action \in Actions
    /\ p.holding \/ r.action \notin Reducing \cup Selling
    /\ "panic_sell_blocked" \notin r.flags /\ "risk_gate_failed" \notin r.flags

LEMMA RulesAreSound ==
    ASSUME NEW p, NEW d, NEW r, Sound(p, r)
    PROVE  /\ Sound(p, MissingLimit(p, d, r))
           /\ Sound(p, MissingInvalidation(p, d, r))
           /\ Sound(p, InsufficientData(p, r))
           /\ Sound(p, WeakCatalyst(p, d, r))
           /\ Sound(p, PositionLimit(p, d, r))
           /\ Sound(p, AiBias(p, r))
           /\ Sound(p, AiLimit(p, d, r))
           /\ Sound(p, TrendBreak(p, d, r))
           /\ Sound(p, ThesisLimit(p, d, r))
           /\ Sound(p, ThesisExtreme(p, r))
           /\ Sound(p, ThesisSellTrigger(p, r))
           /\ Sound(p, ThesisNoAddTrigger(p, d, r))
           /\ Sound(p, FundamentalRed(p, r))
           /\ Sound(p, FundamentalOrange(p, r))
           /\ Sound(p, FundamentalYellow(p, d, r))
           /\ Sound(p, LowRatio(p, d, r))
           /\ Sound(p, LargeDownside(p, d, r))
           /\ Sound(p, SevereBreakdown(p, r))
           /\ Sound(p, TargetAboveMax(d, r))
<1> USE DEF Sound, To, Actions, AddLike, StrongAdd, Reducing, Selling, Passive
<1>1. Sound(p, MissingLimit(p, d, r))
  BY DEF MissingLimit, NoAdd
<1>2. Sound(p, MissingInvalidation(p, d, r))
  BY DEF MissingInvalidation, PullbackOnly
<1>3. Sound(p, InsufficientData(p, r))
  BY DEF InsufficientData, NoAdd
<1>4. Sound(p, WeakCatalyst(p, d, r))
  BY DEF WeakCatalyst, NoAdd, Flag
<1>5. Sound(p, PositionLimit(p, d, r))
  BY DEF PositionLimit
<1>6. Sound(p, AiBias(p, r))
  BY DEF AiBias, NoAdd
<1>7. Sound(p, AiLimit(p, d, r))
  BY DEF AiLimit, NoAdd, Flag
<1>8. Sound(p, TrendBreak(p, d, r))
  BY DEF TrendBreak, NoAdd, PullbackOnly, Flag
<1>9. Sound(p, ThesisLimit(p, d, r))
  BY DEF ThesisLimit
<1>10. Sound(p, ThesisExtreme(p, r))
  BY DEF ThesisExtreme, PullbackOnly
<1>11. Sound(p, ThesisSellTrigger(p, r))
  BY DEF ThesisSellTrigger, Exit
<1>12. Sound(p, ThesisNoAddTrigger(p, d, r))
  BY DEF ThesisNoAddTrigger, NoAdd
<1>13. Sound(p, FundamentalRed(p, r))
  BY DEF FundamentalRed, Exit, Flag
<1>14. Sound(p, FundamentalOrange(p, r))
  BY DEF FundamentalOrange, NoAdd
<1>15. Sound(p, FundamentalYellow(p, d, r))
  BY DEF FundamentalYellow, PullbackOnly
<1>16. Sound(p, LowRatio(p, d, r))
  BY DEF LowRatio, NoAdd
<1>17. Sound(p, LargeDownside(p, d, r))
  BY DEF LargeDownside, PullbackOnly
<1>18. Sound(p, SevereBreakdown(p, r))
  BY DEF SevereBreakdown
<1>19. Sound(p, TargetAboveMax(d, r))
  BY DEF TargetAboveMax, Flag
<1> QED  BY <1>1, <1>2, <1>3, <1>4, <1>5, <1>6, <1>7, <1>8, <1>9, <1>10, <1>11, <1>12, <1>13, <1>14, <1>15, <1>16, <1>17, <1>18, <1>19

(* So it is after every stage of the gate.                                 *)
LEMMA StagesAreSound ==
    ASSUME NEW p, NEW d, d.action \in Actions, p.holding \/ d.action \notin Reducing \cup Selling
    PROVE  Sound(p, AfterThesis(p, d)) /\ Sound(p, AfterRules(p, d))
<1> DEFINE r0 == [action |-> d.action, flags |-> {}]
<1>1. Sound(p, r0)
  BY DEF Sound
<1>2. Sound(p, AfterLimits(p, d))
  <2> HIDE DEF r0
  <2>1. Sound(p, MissingInvalidation(p, d, MissingLimit(p, d, r0)))
    BY <1>1, RulesAreSound
  <2>2. Sound(p, InsufficientData(p, MissingInvalidation(p, d, MissingLimit(p, d, r0))))
    BY <2>1, RulesAreSound
  <2> QED  BY <2>2 DEF AfterLimits, r0
<1> HIDE DEF r0
<1>3. Sound(p, AfterAccount(p, d))
  <2>1. Sound(p, PositionLimit(p, d, WeakCatalyst(p, d, AfterLimits(p, d))))
    BY <1>2, RulesAreSound
  <2> DEFINE r2 == PositionLimit(p, d, WeakCatalyst(p, d, AfterLimits(p, d)))
  <2>2. Sound(p, AiLimit(p, d, AiBias(p, r2)))
    BY <2>1, RulesAreSound
  <2> QED  BY <2>2 DEF AfterAccount
<1>4. Sound(p, AfterThesis(p, d))
  <2> DEFINE r3 == ThesisExtreme(p, ThesisLimit(p, d, TrendBreak(p, d, AfterAccount(p, d))))
  <2>1. Sound(p, r3)
    BY <1>3, RulesAreSound
  <2> HIDE DEF r3
  <2>2. Sound(p, ThesisNoAddTrigger(p, d, ThesisSellTrigger(p, r3)))
    BY <2>1, RulesAreSound
  <2> QED  BY <2>2 DEF AfterThesis, r3
<1>5. Sound(p, AfterFundamentals(p, d))
  <2>1. Sound(p, FundamentalYellow(p, d, FundamentalOrange(p, FundamentalRed(p, AfterThesis(p, d)))))
    BY <1>4, RulesAreSound
  <2> QED  BY <2>1 DEF AfterFundamentals
<1>6. Sound(p, AfterRules(p, d))
  <2> DEFINE r2 == LargeDownside(p, d, LowRatio(p, d, AfterFundamentals(p, d)))
  <2>1. Sound(p, r2)
    BY <1>5, RulesAreSound
  <2> HIDE DEF r2
  <2>2. Sound(p, TargetAboveMax(d, SevereBreakdown(p, r2)))
    BY <2>1, RulesAreSound
  <2> QED  BY <2>2 DEF AfterRules, r2
<1> QED  BY <1>4, <1>6

LEMMA GateIsSound ==
    ASSUME NEW p, NEW d, d.action \in Actions, p.holding \/ d.action \notin Reducing \cup Selling
    PROVE  /\ Evaluate(p, d).action \in Actions
           /\ Evaluate(p, d).action \in Reducing \cup Selling \/ "panic_sell_blocked" \in Evaluate(p, d).flags
                => p.holding
           /\ "risk_gate_failed" \notin Evaluate(p, d).flags
<1>1. CASE Panic(p, d)
  BY <1>1 DEF Evaluate, Panic, Actions, Passive, Reducing, Selling
<1>2. CASE ~Panic(p, d)
  BY <1>2, StagesAreSound DEF Evaluate, Sound
<1> QED  BY <1>1, <1>2

-----------------------------------------------------------------------------
(* The plan.  Each rule of the plan keeps an action of the vocabulary and a*)
(* target that is a number between zero and the limit of the plan.         *)
Numbers(p) ==
    /\ p.position \in Nat /\ p.thesis.max \in Int /\ p.thesis.target \in Int
    /\ p.ai.max \in Int /\ p.ai.target \in Int /\ p.fit.max \in Int

Proper(p, r) == r.action \in Actions /\ r.target \in Int /\ 0 <= r.target

LEMMA PlanLimits ==
    ASSUME NEW p, Numbers(p)
    PROVE  Current(p) \in Nat /\ PlanMax(p) \in Nat /\ Proper(p, Refused(p))
BY DEF Numbers, Current, PlanMax, Proper, Refused, Actions, Passive

LEMMA SanitizedIsProper ==
    ASSUME NEW p, Numbers(p), NEW y, y.action \in Actions, y.target \in Int
    PROVE  /\ Proper(p, Sanitized(p, y))
           /\ p.holding \/ Sanitized(p, y).action \notin Reducing \cup Selling
           /\ Sanitized(p, y).action \in AddLike =>
                  Current(p) < Sanitized(p, y).target /\ Sanitized(p, y).target <= PlanMax(p)
           /\ Sanitized(p, y).action \in Reducing => Sanitized(p, y).target < Current(p)
           /\ Sanitized(p, y).action \in Selling => Sanitized(p, y).target = 0
<1> DEFINE Held(r) == Proper(p, r) /\ (r.target <= PlanMax(p) \/ r.target <= Current(p))
           r0 == Truncated(p, y)
           r1 == StanceForbids(p, r0)
           r2 == BiasForbids(p, r1)
           r3 == Promoted(p, y, r2)
           r4 == Aligned(p, y, r3)
           r5 == NothingToLeave(p, y, r4)
           r6 == NoBlindAdd(p, y, r5)
           r7 == NoBearishAdd(p, y, r6)
           r8 == MovesThePosition(p, r7)
<1> USE PlanLimits
<1>0. /\ Refused(p).action \notin AddLike \cup Reducing \cup Selling
      /\ Held(Refused(p)) /\ DOMAIN Refused(p) = {"action", "target"}
  BY DEF Refused, AddLike, Reducing, Selling
<1>1. Held(r0) /\ DOMAIN r0 = {"action", "target"}
  BY DEF Truncated, Proper, Least, Greatest
<1>2. Held(r1) /\ DOMAIN r1 = {"action", "target"}
  BY <1>0, <1>1 DEF StanceForbids
<1>3. Held(r2) /\ DOMAIN r2 = {"action", "target"}
  BY <1>0, <1>2 DEF BiasForbids, Proper, Actions, AddLike
<1>4. Held(r3) /\ DOMAIN r3 = {"action", "target"}
  BY <1>3 DEF Promoted, Proper, Actions, AddLike
<1>5. Held(r4) /\ DOMAIN r4 = {"action", "target"}
  <2>1. CASE r4 = r3
    BY <1>4, <2>1
  <2>2. CASE r4 # r3
    <3>1. PolicySupportsAdd(p) /\ r4 = [r3 EXCEPT !.target = Greatest(@, Least(p.ai.target, PlanMax(p)))]
      BY <2>2 DEF Aligned, Supported
    <3>2. Least(p.ai.target, PlanMax(p)) \in Int /\ Least(p.ai.target, PlanMax(p)) <= PlanMax(p)
      BY DEF Least, Numbers
    <3> QED  BY <1>4, <3>1, <3>2 DEF Greatest, Proper
  <2> QED  BY <2>1, <2>2
<1>6. Held(r5) /\ DOMAIN r5 = {"action", "target"} /\ (p.holding \/ r5.action \notin Reducing \cup Selling)
  BY <1>5 DEF NothingToLeave, Proper, Actions, Passive, Reducing, Selling
<1> HIDE DEF r0, r1, r2, r3, r4, r5
<1>7. Held(r6) /\ DOMAIN r6 = {"action", "target"} /\ (p.holding \/ r6.action \notin Reducing \cup Selling)
  BY <1>0, <1>6 DEF NoBlindAdd
<1>8. Held(r7) /\ DOMAIN r7 = {"action", "target"} /\ (p.holding \/ r7.action \notin Reducing \cup Selling)
  BY <1>0, <1>7 DEF NoBearishAdd
<1> HIDE DEF r6, r7
<1>9. Sanitized(p, y) = r8
  BY DEF Sanitized, r0, r1, r2, r3, r4, r5, r6, r7
<1>10. /\ Proper(p, r8)
       /\ p.holding \/ r8.action \notin Reducing \cup Selling
       /\ r8.action \in AddLike => Current(p) < r8.target /\ r8.target <= PlanMax(p)
       /\ r8.action \in Reducing => r8.target < Current(p)
       /\ r8.action \in Selling => r8.target = 0
  <2>1. CASE r8 = Refused(p)
    BY <1>0, <2>1
  <2>2. CASE r8 # Refused(p)
    <3>1. /\ r7.action \in AddLike => ~(r7.target <= Current(p))
          /\ r7.action \in Reducing => ~(r7.target >= Current(p))
          /\ r8 = IF r7.action \in Selling THEN [r7 EXCEPT !.target = 0] ELSE r7
      BY <2>2 DEF MovesThePosition
    <3>2. CASE r7.action \in Selling
      <4>1. r8.action = r7.action /\ r8.target = 0
        BY <1>8, <3>1, <3>2
      <4> QED  BY <1>8, <3>2, <4>1 DEF Proper, AddLike, Reducing, Selling
    <3>3. CASE r7.action \notin Selling
      <4>1. r8 = r7
        BY <3>1, <3>3
      <4> HIDE DEF r8
      <4> QED  BY <1>8, <3>1, <3>3, <4>1 DEF Proper
    <3> QED  BY <3>2, <3>3
  <2> QED  BY <2>1, <2>2
<1> QED  BY <1>9, <1>10

-----------------------------------------------------------------------------
(* The draft the gate is given.                                            *)
DraftTyped(p, d) ==
    /\ d.action \in Actions
    /\ p.holding \/ d.action \notin Reducing \cup Selling
    /\ d.current \in Int /\ d.target \in Int /\ d.max \in Int
    /\ d.ratio \in Int /\ d.downside \in Int

PlannedBy(p, plan_) == (\E y \in Answers : plan_ = PlanCard(p, y)) \/ plan_ = SkeletonPlan(p)

LEMMA AdviceIsNumeric ==
    ASSUME NEW p, Numbers(p), NEW action
    PROVE  LET advice == WithBudget(p, action, Advice(p, action))
           IN /\ advice.current \in Int /\ advice.target \in Int /\ advice.max \in Int
              /\ advice.target >= 0
<1> DEFINE a0 == Advice(p, action)
<1>1. /\ DOMAIN a0 = {"current", "target", "max"}
      /\ a0.current \in Int /\ a0.target \in Int /\ a0.max \in Int /\ a0.target >= 0
  BY DEF Advice, Numbers
<1> HIDE DEF a0
<1> DEFINE a1 == WithBudget(p, action, a0)
<1>2. a1.current \in Int /\ a1.target \in Int /\ a1.max \in Int /\ a1.target >= 0
  BY <1>1 DEF WithBudget, Numbers, Least
<1> QED  BY <1>2 DEF a0

LEMMA DraftIsTyped ==
    ASSUME NEW p \in Packs, NEW plan_, PlannedBy(p, plan_)
    PROVE  DraftTyped(p, Draft(p, plan_))
<1>1. Numbers(p)
  BY CardsAssumption DEF Numbers
<1>2. CASE \E y \in Answers : plan_ = PlanCard(p, y)
  <2>1. PICK y \in Answers : plan_ = PlanCard(p, y)
    BY <1>2
  <2>2. y.action \in Actions /\ y.target \in Int /\ y.ratio \in Int /\ y.downside \in Int
    BY CardsAssumption
  <2>3. Proper(p, Sanitized(p, y)) /\ (p.holding \/ Sanitized(p, y).action \notin Reducing \cup Selling)
    BY <1>1, <2>2, SanitizedIsProper
  <2>4. Current(p) \in Nat /\ PlanMax(p) \in Nat
    BY <1>1, PlanLimits
  <2> QED  BY <2>1, <2>2, <2>3, <2>4 DEF Draft, PlanCard, DraftTyped, Proper
<1>3. CASE plan_ = SkeletonPlan(p)
  <2> DEFINE action == DraftAction(p, plan_)
             advice == WithBudget(p, action, Advice(p, action))
  <2>1. advice.current \in Int /\ advice.target \in Int /\ advice.max \in Int
    BY <1>1, AdviceIsNumeric
  <2>2. plan_.action \in {"hold_no_add", "watchlist"} /\ plan_.ratio = Absent /\ plan_.downside = Absent /\ plan_.skeleton
    BY <1>3 DEF SkeletonPlan, Refused
  <2>3. action \in Actions /\ action \notin Reducing \cup Selling
    BY <2>2 DEF DraftAction, Guidance, Actions, AddLike, Passive, Reducing, Selling
  <2> HIDE DEF action, advice
  <2>4. /\ Draft(p, plan_).action = action /\ Draft(p, plan_).current = advice.current
        /\ Draft(p, plan_).target = advice.target /\ Draft(p, plan_).max = advice.max
        /\ Draft(p, plan_).ratio = Absent /\ Draft(p, plan_).downside = Absent
    BY <2>2 DEF Draft, action, advice
  <2> QED  BY <2>1, <2>3, <2>4 DEF DraftTyped, Absent
<1> QED  BY <1>2, <1>3 DEF PlannedBy

-----------------------------------------------------------------------------
(* The inductive invariant: the plan was made from the pack, and the       *)
(* decision from the pack and the plan.  Everything else follows from it,  *)
(* as a decision is computed in one step.                                  *)
Origin ==
    /\ pack \in Packs
    /\ stage \in {"evidence", "planned", "composed"}
    /\ stage # "evidence" => PlannedBy(pack, plan)
    /\ Decided => \/ decision = Composed(Evaluate(pack, Draft(pack, plan)))
                  \/ decision = Composed(FailSafe(pack))

THEOREM DecisionHasItsOrigin == Spec => []Origin
<1>1. Init => Origin
  BY DEF Init, Origin, Decided
<1>2. Origin /\ [Next]_vars => Origin'
  <2> SUFFICES ASSUME Origin, [Next]_vars PROVE Origin'
    OBVIOUS
  <2>1. ASSUME NEW y \in Answers, PlanAnswered(y) PROVE Origin'
    BY <2>1 DEF Origin, PlanAnswered, PlannedBy, Decided
  <2>2. CASE PlanFailed
    BY <2>2 DEF Origin, PlanFailed, PlannedBy, Decided
  <2>3. CASE ComposeDecision
    BY <2>3 DEF Origin, ComposeDecision, PlannedBy, Decided, Composed
  <2>4. CASE ComposeWithoutGate
    BY <2>4 DEF Origin, ComposeWithoutGate, PlannedBy, Decided, Composed
  <2>5. CASE UNCHANGED vars
    BY <2>5 DEF Origin, vars, PlannedBy, Decided, Composed
  <2> QED  BY <2>1, <2>2, <2>3, <2>4, <2>5 DEF Next
<1> QED  BY <1>1, <1>2, PTL DEF Spec

(* The parts of a composed decision.                                       *)
LEMMA ComposedParts ==
    ASSUME NEW g
    PROVE  /\ Composed(g).draft = Draft(pack, plan).action
           /\ Composed(g).final = g.action
           /\ Composed(g).flags = g.flags
           /\ \/ Composed(g).action = g.action
              \/ /\ FallbackCount(pack) >= 2 /\ g.action \in {"add", "add_small", "add_batch"}
                 /\ Composed(g).action \in {"hold", "watchlist"}
           /\ g.action = Draft(pack, plan).action /\ "risk_gate_failed" \notin g.flags =>
                  Composed(g).invalidation = Draft(pack, plan).invalidation
<1> DEFINE d == Draft(pack, plan)
           h == Gated(pack, d, Confidence(pack), g)
<1>1. /\ h.draft = d.action /\ h.final = g.action /\ h.flags = g.flags /\ h.action = g.action
      /\ g.action = d.action /\ "risk_gate_failed" \notin g.flags => h.invalidation = d.invalidation
      /\ DOMAIN h = {"draft", "final", "action", "flags", "confidence", "cap", "current", "target", "max",
                     "step", "invalidation"}
  <2> HIDE DEF d
  <2> QED  BY DEF Gated
<1> HIDE DEF h, d
<1>2. Composed(g) = WithPublicData(pack, h)
  BY DEF Composed, h, d
<1>3. /\ Composed(g).draft = h.draft /\ Composed(g).final = h.final /\ Composed(g).flags = h.flags
      /\ Composed(g).invalidation = h.invalidation
  BY <1>1, <1>2 DEF WithPublicData
<1>4. \/ Composed(g).action = h.action
      \/ /\ FallbackCount(pack) >= 2 /\ h.action \in {"add", "add_small", "add_batch"}
         /\ Composed(g).action \in {"hold", "watchlist"}
  <2>1. CASE FallbackCount(pack) < 2
    BY <1>2, <2>1 DEF WithPublicData
  <2>2. CASE ~(FallbackCount(pack) < 2)
    <3>1. FallbackCount(pack) >= 2
      BY <2>2 DEF FallbackCount
    <3> QED  BY <1>1, <1>2, <2>2, <3>1 DEF WithPublicData
  <2> QED  BY <2>1, <2>2
<1> QED  BY <1>1, <1>3, <1>4 DEF d

LEMMA DecidedDraft ==
    ASSUME Origin, Decided
    PROVE  DraftTyped(pack, Draft(pack, plan))
BY DraftIsTyped DEF Origin, Decided

(* The fail-safe result stands for no addition and no sale.                *)
LEMMA FailSafeIsPassive ==
    ASSUME NEW p
    PROVE  /\ FailSafe(p).action \in {"hold_no_add", "wait"}
           /\ "panic_sell_blocked" \notin FailSafe(p).flags
BY DEF FailSafe, NoAdd

(* Rules never turn something else into an addition, nor strengthen one.   *)
THEOREM GateNeverStrengthensAlways == Spec => []GateNeverStrengthens
<1>1. Origin => GateNeverStrengthens
  <2> SUFFICES ASSUME Origin, Decided, decision.final \in AddLike
               PROVE  /\ decision.draft \in AddLike
                      /\ decision.final # decision.draft => decision.final = "add_on_pullback"
    BY DEF GateNeverStrengthens
  <2> DEFINE d == Draft(pack, plan)
  <2>1. d.ratio \in Int
    BY DecidedDraft DEF DraftTyped
  <2>2. CASE decision = Composed(Evaluate(pack, d))
    <3>1. decision.draft = d.action /\ decision.final = Evaluate(pack, d).action
      BY <2>2, ComposedParts
    <3>2. PassedTheGate(pack, d, Evaluate(pack, d).action)
      BY <2>1, <3>1, GateFacts
    <3> QED  BY <3>1, <3>2 DEF PassedTheGate
  <2>3. CASE decision = Composed(FailSafe(pack))
    <3>1. decision.final = FailSafe(pack).action
      BY <2>3, ComposedParts
    <3> QED  BY <3>1, FailSafeIsPassive DEF AddLike
  <2> QED  BY <2>2, <2>3 DEF Origin
<1> QED  BY <1>1, DecisionHasItsOrigin, PTL

(* A published addition meets every rule of the gate.                      *)
THEOREM AddMeetsEveryRuleAlways == Spec => []AddMeetsEveryRule
<1>1. Origin => AddMeetsEveryRule
  <2> SUFFICES ASSUME Origin, Added PROVE AddMeetsEveryRule
    BY DEF AddMeetsEveryRule
  <2> DEFINE d == Draft(pack, plan)
  <2>1. DraftTyped(pack, d) /\ Numbers(pack) /\ FallbackCount(pack) \in Int
    BY DecidedDraft, CardsAssumption DEF Added, Origin, Numbers, FallbackCount
  <2>2. CASE decision = Composed(Evaluate(pack, d))
    <3>1. Evaluate(pack, d).action \in AddLike
      BY <2>2, ComposedParts DEF Added, AddLike
    <3>2. PassedTheGate(pack, d, Evaluate(pack, d).action)
      BY <2>1, <3>1, GateFacts DEF DraftTyped
    <3> HIDE DEF d
    <3>3. d.max \in Int /\ d.current \in Int /\ d.target \in Int
      BY <2>1 DEF DraftTyped
    <3>4. d.max > 0 /\ d.current < d.max /\ FallbackCount(pack) < 2
      BY <2>1, <3>2, <3>3 DEF PassedTheGate
    <3>5. pack.thesis.max > 0 => d.current < pack.thesis.max
      BY <2>1, <3>2, <3>3 DEF PassedTheGate, Numbers
    <3>6. pack.ai.evaluated /\ pack.ai.max > 0 => d.current < pack.ai.max /\ d.target <= pack.ai.max
      BY <2>1, <3>2, <3>3 DEF PassedTheGate, Numbers
    <3> QED  BY <3>2, <3>4, <3>5, <3>6 DEF AddMeetsEveryRule, PassedTheGate, d
  <2>3. CASE decision = Composed(FailSafe(pack))
    BY <2>3, ComposedParts, FailSafeIsPassive DEF Added, AddLike
  <2> QED  BY <2>2, <2>3 DEF Origin, Added
<1> QED  BY <1>1, DecisionHasItsOrigin, PTL

(* A strong addition is backed by conditions, trend and fundamentals.      *)
THEOREM StrongAddIsBackedAlways == Spec => []StrongAddIsBacked
<1>1. Origin => StrongAddIsBacked
  <2> SUFFICES ASSUME Origin, Decided, decision.action \in StrongAdd PROVE StrongAddIsBacked
    BY DEF StrongAddIsBacked
  <2> DEFINE d == Draft(pack, plan)
             a == Evaluate(pack, d).action
  <2>1. DraftTyped(pack, d)
    BY DecidedDraft
  <2>2. CASE decision = Composed(Evaluate(pack, d))
    <3>1. a \in StrongAdd /\ a \in AddLike /\ decision.action = a
      BY <2>2, ComposedParts DEF StrongAdd, AddLike
    <3>2. PassedAsStrong(pack, d, a)
      BY <2>1, <3>1, GateFacts DEF DraftTyped
    <3>3. "risk_gate_failed" \notin Evaluate(pack, d).flags
      BY <2>1, GateIsSound DEF DraftTyped
    <3>4. decision.invalidation = d.invalidation
      BY <2>2, <3>2, <3>3, ComposedParts DEF PassedAsStrong
    <3>5. d.ratio = plan.ratio /\ d.downside = plan.downside
      BY DEF Draft
    <3> HIDE DEF d, a
    <3>6. plan.downside <= 30
      BY <2>1, <3>2, <3>5 DEF PassedAsStrong, DraftTyped
    <3> QED  BY <3>1, <3>2, <3>4, <3>5, <3>6 DEF PassedAsStrong, StrongAddIsBacked
  <2>3. CASE decision = Composed(FailSafe(pack))
    BY <2>3, ComposedParts, FailSafeIsPassive DEF StrongAdd
  <2> QED  BY <2>2, <2>3 DEF Origin
<1> QED  BY <1>1, DecisionHasItsOrigin, PTL

(* Only a holder is told to leave a position, or stopped from leaving it.  *)
THEOREM OnlyHoldersLeaveAlways == Spec => []OnlyHoldersLeave
<1>1. Origin => OnlyHoldersLeave
  <2> SUFFICES ASSUME Origin, Decided,
                      decision.action \in Reducing \cup Selling \/ "panic_sell_blocked" \in decision.flags
               PROVE  pack.holding
    BY DEF OnlyHoldersLeave
  <2> DEFINE d == Draft(pack, plan)
  <2>1. d.action \in Actions /\ (pack.holding \/ d.action \notin Reducing \cup Selling)
    BY DecidedDraft DEF DraftTyped
  <2>2. CASE decision = Composed(Evaluate(pack, d))
    <3>1. \/ Evaluate(pack, d).action \in Reducing \cup Selling
          \/ "panic_sell_blocked" \in Evaluate(pack, d).flags
      BY <2>2, ComposedParts DEF Reducing, Selling
    <3> QED  BY <2>1, <3>1, GateIsSound
  <2>3. CASE decision = Composed(FailSafe(pack))
    BY <2>3, ComposedParts, FailSafeIsPassive DEF Reducing, Selling
  <2> QED  BY <2>2, <2>3 DEF Origin
<1> QED  BY <1>1, DecisionHasItsOrigin, PTL

(* The action shown is the one the calibration speaks of.                  *)
THEOREM ShownActionIsCalibratedAlways == Spec => []ShownActionIsCalibrated
<1>1. Origin => ShownActionIsCalibrated
  <2> SUFFICES ASSUME Origin, Decided PROVE decision.action = decision.final
    BY DEF ShownActionIsCalibrated
  <2> DEFINE d == Draft(pack, plan)
  <2>1. CASE decision = Composed(Evaluate(pack, d))
    <3>1. CASE Evaluate(pack, d).action \in AddLike
      <4>1. ~(FallbackCount(pack) >= 2)
        BY <3>1, DecidedDraft, GateFacts DEF DraftTyped, PassedTheGate
      <4> QED  BY <2>1, <4>1, ComposedParts
    <3>2. CASE Evaluate(pack, d).action \notin AddLike
      BY <2>1, <3>2, ComposedParts DEF AddLike
    <3> QED  BY <3>1, <3>2
  <2>2. CASE decision = Composed(FailSafe(pack))
    BY <2>2, ComposedParts, FailSafeIsPassive
  <2> QED  BY <2>1, <2>2 DEF Origin
<1> QED  BY <1>1, DecisionHasItsOrigin, PTL

(* A plan moves the position the way its action says, within its limit.    *)
THEOREM PlanMovesAsItSaysAlways == Spec => []PlanMovesAsItSays
<1>1. Origin => PlanMovesAsItSays
  <2> SUFFICES ASSUME Origin, stage # "evidence", ~plan.skeleton PROVE PlanMovesAsItSays
    BY DEF PlanMovesAsItSays
  <2>1. PICK y \in Answers : plan = PlanCard(pack, y)
    BY DEF Origin, PlannedBy, SkeletonPlan
  <2>2. Numbers(pack) /\ y.action \in Actions /\ y.target \in Int
    BY CardsAssumption DEF Origin, Numbers
  <2>3. /\ pack.holding \/ Sanitized(pack, y).action \notin Reducing \cup Selling
        /\ Sanitized(pack, y).action \in AddLike =>
               Current(pack) < Sanitized(pack, y).target /\ Sanitized(pack, y).target <= PlanMax(pack)
        /\ Sanitized(pack, y).action \in Reducing => Sanitized(pack, y).target < Current(pack)
        /\ Sanitized(pack, y).action \in Selling => Sanitized(pack, y).target = 0
    BY <2>2, SanitizedIsProper
  <2> QED  BY <2>1, <2>3 DEF PlanMovesAsItSays, PlanCard
<1> QED  BY <1>1, DecisionHasItsOrigin, PTL

-----------------------------------------------------------------------------
(* No rule makes an action a sale that is blocked as panic.                *)
Unblocked(r) == r.action # "panic_blocked"

LEMMA NoRuleBlocks ==
    ASSUME NEW p, NEW d, NEW r, Unblocked(r)
    PROVE  /\ Unblocked(MissingLimit(p, d, r))
           /\ Unblocked(MissingInvalidation(p, d, r))
           /\ Unblocked(InsufficientData(p, r))
           /\ Unblocked(WeakCatalyst(p, d, r))
           /\ Unblocked(PositionLimit(p, d, r))
           /\ Unblocked(AiBias(p, r))
           /\ Unblocked(AiLimit(p, d, r))
           /\ Unblocked(TrendBreak(p, d, r))
           /\ Unblocked(ThesisLimit(p, d, r))
           /\ Unblocked(ThesisExtreme(p, r))
           /\ Unblocked(ThesisSellTrigger(p, r))
           /\ Unblocked(ThesisNoAddTrigger(p, d, r))
<1> USE DEF Unblocked, To, Flag, NoAdd, PullbackOnly
<1>1. Unblocked(MissingLimit(p, d, r)) BY DEF MissingLimit
<1>2. Unblocked(MissingInvalidation(p, d, r)) BY DEF MissingInvalidation
<1>3. Unblocked(InsufficientData(p, r)) BY DEF InsufficientData
<1>4. Unblocked(WeakCatalyst(p, d, r)) BY DEF WeakCatalyst
<1>5. Unblocked(PositionLimit(p, d, r)) BY DEF PositionLimit
<1>6. Unblocked(AiBias(p, r)) BY DEF AiBias
<1>7. Unblocked(AiLimit(p, d, r)) BY DEF AiLimit
<1>8. Unblocked(TrendBreak(p, d, r)) BY DEF TrendBreak
<1>9. Unblocked(ThesisLimit(p, d, r)) BY DEF ThesisLimit
<1>10. Unblocked(ThesisExtreme(p, r)) BY DEF ThesisExtreme
<1>11. Unblocked(ThesisSellTrigger(p, r)) BY DEF ThesisSellTrigger, Exit
<1>12. Unblocked(ThesisNoAddTrigger(p, d, r)) BY DEF ThesisNoAddTrigger
<1> QED  BY <1>1, <1>2, <1>3, <1>4, <1>5, <1>6, <1>7, <1>8, <1>9, <1>10, <1>11, <1>12

(* The rules before those about the fundamentals.                          *)
LEMMA UnblockedSoFar ==
    ASSUME NEW p, NEW d, d.action # "panic_blocked"
    PROVE  Unblocked(AfterThesis(p, d))
<1> DEFINE r0 == [action |-> d.action, flags |-> {}]
           r1 == MissingInvalidation(p, d, MissingLimit(p, d, r0))
           r2 == WeakCatalyst(p, d, AfterLimits(p, d))
           r3 == AiBias(p, PositionLimit(p, d, r2))
           r4 == ThesisLimit(p, d, TrendBreak(p, d, AfterAccount(p, d)))
           r5 == ThesisSellTrigger(p, ThesisExtreme(p, r4))
<1>1. Unblocked(r0) BY DEF Unblocked
<1> HIDE DEF r0
<1>2. Unblocked(r1) BY <1>1, NoRuleBlocks
<1>3. Unblocked(AfterLimits(p, d))
  <2> HIDE DEF r1
  <2>1. Unblocked(InsufficientData(p, r1)) BY <1>2, NoRuleBlocks
  <2> QED  BY <2>1 DEF AfterLimits, r1, r0
<1>4. Unblocked(r2) BY <1>3, NoRuleBlocks
<1> HIDE DEF r2
<1>5. Unblocked(r3) BY <1>4, NoRuleBlocks
<1>6. Unblocked(AfterAccount(p, d))
  <2> HIDE DEF r3
  <2>1. Unblocked(AiLimit(p, d, r3)) BY <1>5, NoRuleBlocks
  <2> QED  BY <2>1 DEF AfterAccount, r3, r2
<1>7. Unblocked(r4) BY <1>6, NoRuleBlocks
<1> HIDE DEF r4
<1>8. Unblocked(r5) BY <1>7, NoRuleBlocks
<1>9. Unblocked(AfterThesis(p, d))
  <2> HIDE DEF r5
  <2>1. Unblocked(ThesisNoAddTrigger(p, d, r5)) BY <1>8, NoRuleBlocks
  <2> QED  BY <2>1 DEF AfterThesis, r5, r4
<1> QED  BY <1>9

(* And those after them.                                                   *)
LEMMA RulesDoNotBlock ==
    ASSUME NEW p, NEW d, d.action # "panic_blocked"
    PROVE  AfterRules(p, d).action # "panic_blocked"
<1> DEFINE r0 == AfterThesis(p, d)
           r1 == FundamentalRed(p, r0)
           r2 == FundamentalOrange(p, r1)
           r3 == FundamentalYellow(p, d, r2)
           r4 == LowRatio(p, d, r3)
           r5 == LargeDownside(p, d, r4)
           r6 == SevereBreakdown(p, r5)
           r7 == TargetAboveMax(d, r6)
<1> USE DEF Unblocked, To, Flag, NoAdd, PullbackOnly
<1>0. Unblocked(r0) BY UnblockedSoFar
<1>1. Unblocked(r1)
  <2> HIDE DEF r0
  <2> QED  BY <1>0 DEF FundamentalRed, Exit
<1> HIDE DEF r1
<1>2. Unblocked(r2) BY <1>1 DEF FundamentalOrange
<1> HIDE DEF r2
<1>3. Unblocked(r3) BY <1>2 DEF FundamentalYellow
<1> HIDE DEF r3
<1>4. Unblocked(r4) BY <1>3 DEF LowRatio
<1> HIDE DEF r4
<1>5. Unblocked(r5) BY <1>4 DEF LargeDownside
<1> HIDE DEF r5
<1>6. Unblocked(r6) BY <1>5 DEF SevereBreakdown
<1> HIDE DEF r6
<1>7. Unblocked(r7) BY <1>6 DEF TargetAboveMax
<1>8. AfterRules(p, d) = r7
  BY DEF AfterRules, AfterFundamentals, r1, r2, r3, r4, r5, r6
<1> QED  BY <1>7, <1>8

Leaving == Reducing \cup Selling \cup {"avoid"}

(* The rules about the fundamentals let a holder leave, and no later rule  *)
(* takes that back.                                                        *)
LEMMA RedLeaves ==
    ASSUME NEW p, NEW d, p.holding, p.fund.status = "red" \/ p.fund.broken,
           d.action \in Actions, d.action # "panic_blocked",
           AfterThesis(p, d).action \in Actions
    PROVE  AfterRules(p, d).action \in Leaving
<1> DEFINE r0 == AfterThesis(p, d)
           r1 == FundamentalRed(p, r0)
           r2 == FundamentalOrange(p, r1)
           r3 == FundamentalYellow(p, d, r2)
           r4 == LowRatio(p, d, r3)
           r5 == LargeDownside(p, d, r4)
           r6 == SevereBreakdown(p, r5)
           r7 == TargetAboveMax(d, r6)
<1> USE DEF Leaving, Actions, AddLike, StrongAdd, Reducing, Selling, Passive
<1>0. r0.action # "panic_blocked" BY UnblockedSoFar DEF Unblocked
<1>1. r1.action \in Leaving
  <2> HIDE DEF r0
  <2> QED  BY <1>0 DEF FundamentalRed, Exit, To, Flag, r0
<1>2. r2 = r1 BY <1>1 DEF FundamentalOrange
<1>3. r3 = r2 BY <1>1, <1>2 DEF FundamentalYellow
<1>4. r4 = r3 BY <1>1, <1>2, <1>3 DEF LowRatio
<1>5. r5 = r4 BY <1>1, <1>2, <1>3, <1>4 DEF LargeDownside
<1>6. r6 = r5 BY <1>1, <1>2, <1>3, <1>4, <1>5 DEF SevereBreakdown
<1>7. r7.action = r6.action BY DEF TargetAboveMax, Flag
<1>8. AfterRules(p, d) = r7 BY DEF AfterRules, AfterFundamentals
<1> HIDE DEF r0, r1, r2, r3, r4, r5, r6, r7
<1> QED  BY <1>1, <1>2, <1>3, <1>4, <1>5, <1>6, <1>7, <1>8

(* A holder is not left waiting on a broken thesis or on red fundamentals, *)
(* and a sale is not blocked as panic in a trend that is gone: Panic looks *)
(* at the same cards as the rules it preempts.                             *)
THEOREM BrokenThesisIsLeftAlways == Spec => []BrokenThesisIsLeft
<1>1. Origin => BrokenThesisIsLeft
  <2> SUFFICES ASSUME Origin, GateRan, pack.holding, decision.draft # "panic_blocked"
               PROVE  /\ pack.fund.broken \/ (pack.fund.status = "red" /\ ~pack.panicWords) =>
                            decision.action \in Reducing \cup Selling \cup {"avoid"}
                      /\ decision.action = "panic_blocked" => pack.trend.level \notin {"broken", "severe"}
    BY DEF BrokenThesisIsLeft
  <2> DEFINE d == Draft(pack, plan)
             g == Evaluate(pack, d)
  <2>1. Decided /\ "risk_gate_failed" \notin decision.flags
    BY DEF GateRan
  <2>2. d.action \in Actions /\ (pack.holding \/ d.action \notin Reducing \cup Selling)
    BY <2>1, DecidedDraft DEF DraftTyped
  <2>3. decision = Composed(g)
    BY <2>1, ComposedParts DEF Origin, FailSafe
  <2>4. /\ decision.action = g.action \/ (g.action \in {"add", "add_small", "add_batch"}
                                          /\ decision.action \in {"hold", "watchlist"})
        /\ d.action # "panic_blocked"
    BY <2>3, ComposedParts
  <2>5. CASE Panic(pack, d)
    <3>1. /\ pack.panicWords /\ ~pack.fund.broken
          /\ pack.trend.level \notin {"broken", "severe"}
      BY <2>5 DEF Panic, SellIsJustified
    <3> QED  BY <3>1
  <2>6. CASE ~Panic(pack, d)
    <3>1. g.action = AfterRules(pack, d).action
      BY <2>6 DEF Evaluate
    <3>2. AfterThesis(pack, d).action \in Actions
      BY <2>2, StagesAreSound DEF Sound
    <3> HIDE DEF d, g
    <3>3. pack.fund.broken \/ pack.fund.status = "red" => g.action \in Leaving
      BY <2>2, <2>4, <3>1, <3>2, RedLeaves
    <3>4. g.action # "panic_blocked"
      BY <2>2, <2>4, <3>1, RulesDoNotBlock
    <3> QED  BY <2>4, <3>3, <3>4 DEF Leaving, Reducing, Selling
  <2> QED  BY <2>5, <2>6
<1> QED  BY <1>1, DecisionHasItsOrigin, PTL

-----------------------------------------------------------------------------
(* The confidence of a composed decision.                                  *)
LEMMA ComposedConfidence ==
    ASSUME NEW g
    PROVE  Composed(g).confidence = IF FallbackCount(pack) < 2 THEN Clamp(Confidence(pack), g.cap) ELSE "low"
<1> DEFINE h == Gated(pack, Draft(pack, plan), Confidence(pack), g)
<1>1. h.confidence = Clamp(Confidence(pack), g.cap) /\ "confidence" \in DOMAIN h
  BY DEF Gated
<1> HIDE DEF h
<1>2. Composed(g) = WithPublicData(pack, h)
  BY DEF Composed, h
<1> QED  BY <1>1, <1>2 DEF WithPublicData

LEMMA Clamping ==
    ASSUME NEW confidence \in {"low", "medium", "high"}, NEW cap \in {"none", "low", "medium"}
    PROVE  /\ Clamp(confidence, cap) = "high" => confidence = "high" /\ cap = "none"
           /\ Rank(Clamp(confidence, cap)) <= Rank(confidence)
BY DEF Clamp, Rank

(* High confidence needs high evidence all round: with one card of the     *)
(* public data missing the average of the four is not high any more.       *)
LEMMA HighNeedsTheData ==
    ASSUME NEW p \in Packs, Confidence(p) = "high"
    PROVE  FallbackCount(p) = 0
<1>1. CardPoints(p) >= 10 /\ p.fallbacks = 0
  BY DEF Confidence
<1>2. /\ ~HasNoData(p.trend) /\ ~HasNoData(p.fund) /\ ~HasNoData(p.event)
      /\ p.event.quality \notin {"low", "high"}
  BY <1>1, CardsAssumption
<1>3. /\ QualityPoints(p.fit) \in 1 .. 3 /\ QualityPoints(p.trend) \in 1 .. 3
      /\ QualityPoints(p.fund) \in 1 .. 3 /\ QualityPoints(p.event) \in 1 .. 2
  BY <1>2 DEF QualityPoints
<1>4. QualityPoints(p.trend) > 1 /\ QualityPoints(p.fund) > 1
  BY <1>1, <1>3 DEF CardPoints
<1>5. p.trend.quality # "low" /\ p.fund.quality # "low"
  BY <1>4 DEF QualityPoints
<1> QED  BY <1>2, <1>5 DEF FallbackCount, IsFallback, HasNoData

(* High confidence is never claimed without the public data, after a stop  *)
(* as panic, on red fundamentals or without the gate; and no stage raises  *)
(* the confidence.                                                         *)
THEOREM ConfidenceIsEarnedAlways == Spec => []ConfidenceIsEarned
<1>1. Origin => ConfidenceIsEarned
  <2> SUFFICES ASSUME Origin, Decided
               PROVE  /\ decision.confidence = "high" =>
                            /\ FallbackCount(pack) = 0
                            /\ decision.flags \cap {"panic_sell_blocked", "fundamental_red_action",
                                                    "fundamental_red_blocked", "risk_gate_failed"} = {}
                      /\ FallbackCount(pack) >= 2 => decision.confidence = "low"
                      /\ Rank(decision.confidence) <= Rank(Confidence(pack))
    BY DEF ConfidenceIsEarned
  <2> DEFINE d == Draft(pack, plan)
             claimed == Confidence(pack)
             missing == FallbackCount(pack)
  <2>1. PICK g : decision = Composed(g) /\ (g = Evaluate(pack, d) \/ g = FailSafe(pack))
    BY DEF Origin
  <2>2. claimed \in {"low", "medium", "high"}
    BY DEF Confidence
  <2>3. g.cap \in {"none", "low", "medium"}
    BY <2>1 DEF Evaluate, FailSafe, ConfidenceCap
  <2>4. g.cap = "none" => g.flags \cap {"panic_sell_blocked", "fundamental_red_action",
                                        "fundamental_red_blocked", "risk_gate_failed"} = {}
    <3>1. CASE g = FailSafe(pack)
      BY <3>1 DEF FailSafe
    <3>2. CASE g = Evaluate(pack, d) /\ Panic(pack, d)
      BY <3>2 DEF Evaluate
    <3>3. CASE g = Evaluate(pack, d) /\ ~Panic(pack, d)
      <4>1. "risk_gate_failed" \notin g.flags
        BY <3>3, DecidedDraft, GateIsSound DEF DraftTyped
      <4>2. g.cap = ConfidenceCap(pack, g.flags)
        BY <3>3 DEF Evaluate
      <4> QED  BY <4>1, <4>2 DEF ConfidenceCap
    <3> QED  BY <2>1, <3>1, <3>2, <3>3
  <2>5. missing \in Nat
    BY DEF FallbackCount
  <2>6. claimed = "high" => missing = 0
    BY HighNeedsTheData DEF Origin
  <2>7. /\ decision.confidence = IF missing < 2 THEN Clamp(claimed, g.cap) ELSE "low"
        /\ decision.flags = g.flags
    BY <2>1, ComposedConfidence, ComposedParts
  <2>8. /\ Clamp(claimed, g.cap) = "high" => claimed = "high" /\ g.cap = "none"
        /\ Rank(Clamp(claimed, g.cap)) <= Rank(claimed)
    BY <2>2, <2>3, Clamping
  <2>9. Rank("low") <= Rank(claimed)
    BY <2>2 DEF Rank
  <2> HIDE DEF claimed, missing
  <2>10. /\ decision.confidence = "high" => missing = 0 /\ g.cap = "none"
         /\ missing >= 2 => decision.confidence = "low"
         /\ Rank(decision.confidence) <= Rank(claimed)
    BY <2>5, <2>6, <2>7, <2>8, <2>9
  <2> QED  BY <2>4, <2>7, <2>10 DEF claimed, missing
<1> QED  BY <1>1, DecisionHasItsOrigin, PTL

-----------------------------------------------------------------------------
(* The one-pass gate.                                                      *)

(* What is known of the state of a request, whatever its sub-agents and    *)
(* the model have answered.                                                *)
OnePassTyped ==
    /\ facts \in Cases
    /\ DOMAIN cards = OnePass!Agents
    /\ \A a \in OnePass!Agents : cards[a] = OnePass!Pending \/ IsCard(a, cards[a])
    /\ turn # "analyze" => \A a \in OnePass!Agents : IsCard(a, cards[a])
    /\ turn \in {"analyze", "compose", "gate", "publish", "saved", "failed"}
    /\ turn \in {"gate", "publish", "saved", "failed"} => IsDraft(draft)
    /\ OnePass!Decided => verdict = OnePass!Verdict(facts, cards, draft)

LEMMA FallbacksAreTyped ==
    ASSUME NEW a \in OnePass!Agents
    PROVE  IsCard(a, OnePass!FallbackCard(a))
<1>1. CASE a = "fit"
  <2>1. OnePass!FallbackCard(a) = [level |-> "unknown"]
    BY <1>1, Zenon DEF OnePass!FallbackCard, OnePass!FitAnswer
  <2> QED  BY <1>1, <2>1 DEF IsCard
<1>2. CASE a = "trend"
  <2>1. OnePass!FallbackCard(a) = OnePass!FallbackTrend
    BY <1>2, Zenon DEF OnePass!FallbackCard
  <2> QED  BY <1>2, <2>1 DEF OnePass!FallbackTrend, IsCard
<1>3. CASE a = "fund"
  <2>1. OnePass!FallbackCard(a) = OnePass!FundamentalAnswer("insufficient_data", 0, OnePass!Absent, OnePass!Absent)
    BY <1>3, Zenon DEF OnePass!FallbackCard
  <2> QED  BY <1>3, <2>1 DEF OnePass!FundamentalAnswer, IsCard, OnePass!Absent
<1>4. CASE a = "event"
  <2>1. OnePass!FallbackCard(a) = OnePass!EventAnswer("insufficient_data", 0, "neutral", "neutral", TRUE)
    BY <1>4, Zenon DEF OnePass!FallbackCard
  <2> QED  BY <1>4, <2>1 DEF OnePass!EventAnswer, IsCard
<1> QED  BY <1>1, <1>2, <1>3, <1>4 DEF OnePass!Agents

LEMMA EndsKeepsTypes ==
    ASSUME OnePassTyped, NEW a \in OnePass!Agents, NEW card, IsCard(a, card), OnePass!Ends(a, card)
    PROVE  OnePassTyped'
<1>1. /\ turn = "analyze" /\ cards[a] = OnePass!Pending
      /\ cards' = [cards EXCEPT ![a] = card]
      /\ turn' = IF \A b \in OnePass!Agents \ {a} : cards[b] # OnePass!Pending THEN "compose" ELSE "analyze"
      /\ facts' = facts /\ draft' = draft /\ verdict' = verdict
  BY DEF OnePass!Ends
<1>2. \A b \in OnePass!Agents : cards'[b] = IF b = a THEN card ELSE cards[b]
  BY <1>1 DEF OnePassTyped
<1>3. DOMAIN cards' = OnePass!Agents
  BY <1>1 DEF OnePassTyped
<1>4. \A b \in OnePass!Agents : cards'[b] = OnePass!Pending \/ IsCard(b, cards'[b])
  BY <1>2 DEF OnePassTyped
<1>5. turn' # "analyze" => \A b \in OnePass!Agents : IsCard(b, cards'[b])
  BY <1>1, <1>2 DEF OnePassTyped
<1>6. turn' \in {"analyze", "compose"}
  BY <1>1
<1> QED  BY <1>1, <1>3, <1>4, <1>5, <1>6 DEF OnePassTyped, OnePass!Decided

LEMMA OnePassStepKeepsTypes ==
    ASSUME OnePassTyped, [OnePass!Next]_onePass
    PROVE  OnePassTyped'
<1>1. ASSUME NEW a \in OnePass!Agents, OnePass!SubAgentAnswers(a) PROVE OnePassTyped'
  <2>1. PICK card \in Cards[a] : OnePass!Ends(a, card)
    BY <1>1 DEF OnePass!SubAgentAnswers
  <2>2. IsCard(a, card)
    BY OnePassAssumption DEF OnePass!Agents
  <2> QED  BY <2>1, <2>2, EndsKeepsTypes
<1>2. ASSUME NEW a \in OnePass!Agents, OnePass!SubAgentFails(a) PROVE OnePassTyped'
  BY <1>2, FallbacksAreTyped, EndsKeepsTypes DEF OnePass!SubAgentFails
<1>3. ASSUME NEW d, IsDraft(d), OnePass!Compose(d) PROVE OnePassTyped'
  <2> DEFINE panic == d.panicWords \/ facts.panicWords
  <2>1. /\ turn = "compose" /\ turn' = "gate" /\ facts' = facts /\ cards' = cards
        /\ draft' = [d EXCEPT !.panicWords = panic]
    BY <1>3, Zenon DEF OnePass!Compose
  <2>2. panic \in BOOLEAN
    BY OnePassAssumption DEF OnePassTyped, IsDraft
  <2> HIDE DEF panic
  <2>3. ASSUME NEW w \in BOOLEAN PROVE IsDraft([d EXCEPT !.panicWords = w])
    BY <1>3 DEF IsDraft
  <2>4. IsDraft(draft')
    BY <2>1, <2>2, <2>3
  <2> QED  BY <2>1, <2>4 DEF OnePassTyped, OnePass!Decided
<1>4. ASSUME OnePass!ComposeAnswers PROVE OnePassTyped'
  BY <1>3, <1>4, OnePassAssumption DEF OnePass!ComposeAnswers
<1>5. ASSUME OnePass!ComposeFails PROVE OnePassTyped'
  <2>1. IsDraft(OnePass!FallbackDecision)
    BY DEF OnePass!FallbackDecision, IsDraft, OnePass!Absent
  <2> QED  BY <1>3, <1>5, <2>1 DEF OnePass!ComposeFails
<1>6. ASSUME OnePass!ApplyRiskGate PROVE OnePassTyped'
  <2>1. turn = "gate" /\ turn' = "publish" /\ facts' = facts /\ cards' = cards /\ draft' = draft
    BY <1>6 DEF OnePass!ApplyRiskGate
  <2>2. verdict' = OnePass!Verdict(facts', cards', draft')
    BY <1>6, <2>1 DEF OnePass!ApplyRiskGate
  <2> QED  BY <2>1, <2>2 DEF OnePassTyped
<1>7. ASSUME OnePass!Save \/ OnePass!SaveFails PROVE OnePassTyped'
  <2>1. /\ turn = "publish" /\ turn' \in {"saved", "failed"}
        /\ facts' = facts /\ cards' = cards /\ draft' = draft /\ verdict' = verdict
    BY <1>7 DEF OnePass!Save, OnePass!SaveFails
  <2> QED  BY <2>1 DEF OnePassTyped, OnePass!Decided
<1>8. ASSUME UNCHANGED onePass PROVE OnePassTyped'
  BY <1>8 DEF onePass, OnePassTyped, OnePass!Decided
<1> QED  BY <1>1, <1>2, <1>4, <1>5, <1>6, <1>7, <1>8 DEF OnePass!Next

(* What is known of an addition the one-pass gate has let through.         *)
PassedOnePass(f, c, d, r) ==
    /\ d.action \in AddLike
    /\ d.max > 0 /\ ~(d.current # Absent /\ d.current >= d.max)
    /\ c["fit"].level # "poor"
    /\ ~(OnePass!FallbackCount(OnePass!Evidence(c)) >= 2)
    /\ ~OnePass!IsFallback(c["trend"]) /\ ~OnePass!IsFallback(c["fund"])
    /\ ~OnePass!IsWeakCatalyst(c["event"])
    /\ ~(f.thesis.max > 0 /\ d.current # Absent /\ d.current >= f.thesis.max)
    /\ OnePass!Ratio(f, c["fund"]) = Absent \/ ~(OnePass!Ratio(f, c["fund"]) < 150)
    /\ r.flags \cap {"weak_catalyst_downgrade", "insufficient_data"} = {}

(* What its action is then: the rules either leave an addition as it is or *)
(* make one that waits for a pullback.                                     *)
Backed(f, d, action) ==
    IF action \in StrongAdd /\ ~d.invalidation
    THEN IF f.seen THEN "hold_no_add" ELSE "add_on_pullback" ELSE action
Tempered(f, action) ==
    IF f.thesis.risk = "extreme" /\ action \in StrongAdd
    THEN IF f.seen THEN "hold_no_add" ELSE "add_on_pullback" ELSE action

LEMMA OnePassWords ==
    /\ OnePass!AddLike = AddLike /\ OnePass!StrongAdd = StrongAdd
    /\ OnePass!Absent = Absent /\ OnePass!Graph!Absent = Absent
    /\ OnePass!Graph!AddLike = AddLike /\ OnePass!Graph!StrongAdd = StrongAdd
BY DEF OnePass!AddLike, AddLike, OnePass!StrongAdd, StrongAdd, OnePass!Absent, Absent,
       OnePass!Graph!AddLike, OnePass!Graph!StrongAdd, OnePass!Graph!Absent

LEMMA OnePassRules ==
    ASSUME NEW f, NEW c, NEW d, IsDraft(d), OnePass!AfterRules(f, c, d).action \in AddLike
    PROVE  /\ PassedOnePass(f, c, d, OnePass!AfterRules(f, c, d))
           /\ OnePass!AfterRules(f, c, d).action = Tempered(f, Backed(f, d, d.action))
<1> DEFINE q0 == [action |-> d.action, flags |-> {}]
           q1 == IF q0.action \in AddLike /\ d.max <= 0
                 THEN OnePass!To(q0, OnePass!NoAdd(f), "missing_position_limit") ELSE q0
           q2 == IF q1.action \in StrongAdd /\ ~d.invalidation
                 THEN OnePass!To(q1, OnePass!PullbackOnly(f), "missing_invalidation_conditions") ELSE q1
           r1 == OnePass!PositionLimits(f, c, d, q0)
           r2 == OnePass!DataQuality(f, c, r1)
           q3 == IF r2.action \in AddLike /\ f.thesis.max > 0 /\ d.current # Absent /\ d.current >= f.thesis.max
                 THEN OnePass!To(r2, "hold_no_add", "thesis_position_limit") ELSE r2
           r3 == OnePass!ThesisRules(f, d, r2)
           r4 == OnePass!LowRatio(f, c, r3)
           r5 == OnePass!Breakdown(f, c, r4)
           r6 == OnePass!TargetAboveMax(d, r5)
           Clean(r) == r.flags \cap {"weak_catalyst_downgrade", "insufficient_data"} = {}
<1>1. OnePass!AfterRules(f, c, d) = r6
  BY DEF OnePass!AfterRules
<1> USE OnePassWords
<1>2. r6.action = r5.action /\ (Clean(r5) => Clean(r6))
  BY DEF OnePass!TargetAboveMax
<1>3. r5.action \in AddLike => r5.action = r4.action /\ (Clean(r4) => Clean(r5))
  BY DEF OnePass!Breakdown, OnePass!To, AddLike
<1>4. r4.action \in AddLike =>
        /\ r4.action = r3.action /\ (Clean(r3) => Clean(r4))
        /\ OnePass!Ratio(f, c["fund"]) = Absent \/ ~(OnePass!Ratio(f, c["fund"]) < 150)
  BY DEF OnePass!LowRatio, OnePass!To, OnePass!NoAdd, AddLike
<1>5. r3.action \in AddLike =>
        /\ r2.action \in AddLike
        /\ ~(f.thesis.max > 0 /\ d.current # Absent /\ d.current >= f.thesis.max)
        /\ r3.action = Tempered(f, r2.action) /\ (Clean(r2) => Clean(r3))
  <2>1. q3.action \in AddLike =>
          /\ q3 = r2
          /\ ~(f.thesis.max > 0 /\ d.current # Absent /\ d.current >= f.thesis.max)
    BY DEF OnePass!To, AddLike
  <2>2. r3 = IF f.thesis.risk = "extreme" /\ q3.action \in StrongAdd
             THEN OnePass!To(q3, OnePass!PullbackOnly(f), "thesis_extreme_risk_blocked") ELSE q3
    BY DEF OnePass!ThesisRules
  <2>3. r3.action \in AddLike =>
          q3.action \in AddLike /\ r3.action = Tempered(f, q3.action) /\ (Clean(q3) => Clean(r3))
    <3> HIDE DEF q3, r2, r3
    <3> QED  BY <2>2 DEF OnePass!To, OnePass!PullbackOnly, OnePass!Holding, Tempered, AddLike, StrongAdd
  <2> HIDE DEF q3, r2, r3
  <2> QED  BY <2>1, <2>3
<1>6. r2.action \in AddLike =>
        /\ r2 = r1
        /\ ~(OnePass!FallbackCount(OnePass!Evidence(c)) >= 2)
        /\ ~OnePass!IsFallback(c["trend"]) /\ ~OnePass!IsFallback(c["fund"])
        /\ ~OnePass!IsWeakCatalyst(c["event"])
  <2> HIDE DEF r1
  <2> QED  BY DEF OnePass!DataQuality, OnePass!To, OnePass!NoAdd, AddLike
<1>7. r1.action \in AddLike =>
        /\ d.action \in AddLike /\ d.max > 0 /\ ~(d.current # Absent /\ d.current >= d.max)
        /\ c["fit"].level # "poor"
        /\ r1.action = Backed(f, d, d.action) /\ Clean(r1)
  <2>1. q1.action \in AddLike => q1 = q0 /\ d.action \in AddLike /\ d.max > 0
    BY DEF OnePass!To, OnePass!NoAdd, AddLike, IsDraft
  <2>2. q2.action \in AddLike =>
          q1.action \in AddLike /\ q2.action = Backed(f, d, q1.action) /\ (Clean(q1) => Clean(q2))
    <3> HIDE DEF q1
    <3> QED  BY DEF OnePass!To, OnePass!PullbackOnly, OnePass!Holding, Backed, AddLike, StrongAdd
  <2>3. r1 = IF /\ q2.action \in AddLike
                /\ \/ d.max > 0 /\ d.current # Absent /\ d.current >= d.max
                   \/ c["fit"].level \in {"concentrated", "poor"}
             THEN OnePass!To(q2, "hold_no_add", "position_limit_reached") ELSE q2
    BY DEF OnePass!PositionLimits
  <2>4. r1.action \in AddLike =>
          /\ r1 = q2
          /\ ~(d.max > 0 /\ d.current # Absent /\ d.current >= d.max) /\ c["fit"].level # "poor"
    <3> HIDE DEF q2, r1
    <3> QED  BY <2>3 DEF OnePass!To, AddLike
  <2>5. Clean(q0) /\ q0.action = d.action
    OBVIOUS
  <2> HIDE DEF q0, q1, q2, r1
  <2> QED  BY <2>1, <2>2, <2>4, <2>5
<1> HIDE DEF r1, r2, r3, r4, r5, r6, Clean
<1> QED
  <2>1. r6.action \in AddLike
    BY <1>1
  <2>2. r1.action \in AddLike /\ r2.action \in AddLike /\ r3.action \in AddLike
    BY <2>1, <1>2, <1>3, <1>4, <1>5, <1>6
  <2>3. Clean(r6)
    BY <2>1, <2>2, <1>2, <1>3, <1>4, <1>5, <1>6, <1>7
  <2>4. r6.flags \cap {"weak_catalyst_downgrade", "insufficient_data"} = {}
    BY <2>3 DEF Clean
  <2>5. r6.action = Tempered(f, Backed(f, d, d.action))
    BY <2>1, <2>2, <1>2, <1>3, <1>4, <1>5, <1>6, <1>7
  <2> QED  BY <2>1, <2>2, <2>4, <2>5, <1>1, <1>2, <1>3, <1>4, <1>5, <1>6, <1>7 DEF PassedOnePass

(* The reward of an extreme asset never makes up for its risk.             *)
LEMMA KnownRatioIsLow ==
    ASSUME NEW f, NEW fund, fund.growth \in Int
    PROVE  OnePass!Ratio(f, fund) = Absent \/ OnePass!Ratio(f, fund) < 150
<1> DEFINE up == OnePass!Upside(f, fund)
           down == OnePass!Downside(f)
<1>1. up = OnePass!Absent \/ up \in 1 .. 20
  BY DEF OnePass!Upside, OnePass!Least
<1>2. down = OnePass!Absent \/ down = 15
  BY DEF OnePass!Downside
<1>3. ASSUME NEW u \in 1 .. 20 PROVE (100 * u) \div 15 < 150
  OBVIOUS
<1>4. OnePass!Ratio(f, fund) = IF down = OnePass!Absent \/ up = OnePass!Absent THEN OnePass!Absent
                               ELSE (100 * up) \div down
  BY DEF OnePass!Ratio
<1> HIDE DEF up, down
<1> QED  BY <1>1, <1>2, <1>3, <1>4, OnePassWords DEF Absent

LEMMA ThesisLimitIsPositive ==
    ASSUME NEW thesis \in Theses
    PROVE  thesis.max \in Int /\ thesis.max > 0
BY DEF Theses, RegisteredTheses, DefaultThesis, Thesis

LEMMA VerdictOfAnAddition ==
    ASSUME NEW f \in Cases, NEW c, NEW d, IsDraft(d),
           \A a \in OnePass!Agents : IsCard(a, c[a]),
           OnePass!Verdict(f, c, d).action \in AddLike
    PROVE  /\ ~OnePass!Panic(f, c, d)
           /\ PassedOnePass(f, c, d, OnePass!AfterRules(f, c, d))
           /\ OnePass!Verdict(f, c, d).action = Tempered(f, Backed(f, d, d.action))
           /\ OnePass!Verdict(f, c, d).confidence = d.confidence
           /\ ~OnePass!IsBreakdown(c)
           /\ OnePass!Ratio(f, c["fund"]) = Absent
           /\ d.current < d.max /\ d.current < f.thesis.max
<1> DEFINE r == OnePass!AfterRules(f, c, d)
<1>1. ~OnePass!GateRaises(c, d) /\ ~OnePass!Panic(f, c, d)
  BY DEF OnePass!Verdict, AddLike
<1>2. /\ OnePass!Verdict(f, c, d).action = r.action
      /\ OnePass!Verdict(f, c, d).confidence = OnePass!Clamp(d.confidence, OnePass!Cap(c, r.flags))
  <2> HIDE DEF r
  <2>1. OnePass!Verdict(f, c, d)
        = [action |-> r.action, flags |-> r.flags,
           confidence |-> OnePass!Clamp(d.confidence, OnePass!Cap(c, r.flags))]
    BY <1>1, Zenon DEF OnePass!Verdict, r
  <2> QED  BY <2>1
<1> HIDE DEF r
<1>3. PassedOnePass(f, c, d, r) /\ r.action = Tempered(f, Backed(f, d, d.action))
  BY <1>2, OnePassRules DEF r
<1>4. OnePass!FallbackCount(OnePass!Evidence(c)) \in Int
  BY DEF OnePass!FallbackCount
<1>5. OnePass!Cap(c, r.flags) = "none"
  BY <1>3, <1>4 DEF OnePass!Cap, PassedOnePass
<1>6. OnePass!Clamp(d.confidence, "none") = d.confidence
  BY DEF OnePass!Clamp
<1>7. /\ c["trend"].quality = "low" /\ c["fund"].quality = "low"
      /\ c["fund"].growth \in Int
  BY DEF OnePass!Agents, IsCard
<1>8. ~OnePass!IsBreakdown(c)
  BY <1>3, <1>7 DEF PassedOnePass, OnePass!IsBreakdown, OnePass!IsBearish, OnePass!IsFallback, OnePass!IsWeakCatalyst
<1>9. OnePass!Ratio(f, c["fund"]) = Absent
  BY <1>3, <1>7, KnownRatioIsLow DEF PassedOnePass
<1>10. f.thesis.max \in Int /\ f.thesis.max > 0
  BY OnePassAssumption, ThesisLimitIsPositive
<1>11. d.current < d.max /\ d.current < f.thesis.max
  BY <1>3, <1>10 DEF PassedOnePass, IsDraft, Absent
<1> QED  BY <1>1, <1>2, <1>3, <1>5, <1>6, <1>8, <1>9, <1>11 DEF r

(* What the gate of the decision graph makes of the same evidence: none of *)
(* the rules it has beside this gate's has a case.                         *)
LEMMA GraphAgrees ==
    ASSUME NEW p, NEW d, NEW f,
           d.action \in AddLike, d.max \in Int, d.max > 0, d.current \in Int, d.current < d.max,
           p.thesis.max \in Int, d.current < p.thesis.max,
           d.ratio = Absent, d.downside \in Int, d.downside <= 30,
           p.holding = f.seen, f.seen \in BOOLEAN, p.thesis = f.thesis, p.fit.level # "poor", ~p.ai.evaluated,
           p.trend.level = "unknown", p.fund.status = "unknown", ~p.fund.broken,
           OnePass!Graph!FallbackCount(p) \in Int, ~(OnePass!Graph!FallbackCount(p) >= 2),
           ~OnePass!Graph!IsWeakCatalyst(p.event), ~OnePass!Graph!IsSevereBreakdown(p),
           ~OnePass!Graph!Panic(p, d), Tempered(f, Backed(f, d, d.action)) \in AddLike
    PROVE  OnePass!Graph!Evaluate(p, d).action = Tempered(f, Backed(f, d, d.action))
<1> USE OnePassWords
<1> DEFINE r0 == [action |-> d.action, flags |-> {}]
           r1 == OnePass!Graph!MissingLimit(p, d, r0)
           r2 == OnePass!Graph!MissingInvalidation(p, d, r1)
           r3 == OnePass!Graph!InsufficientData(p, r2)
           s1 == OnePass!Graph!WeakCatalyst(p, d, r3)
           s2 == OnePass!Graph!PositionLimit(p, d, s1)
           s3 == OnePass!Graph!AiBias(p, s2)
           s4 == OnePass!Graph!AiLimit(p, d, s3)
           t1 == OnePass!Graph!TrendBreak(p, d, s4)
           t2 == OnePass!Graph!ThesisLimit(p, d, t1)
           t3 == OnePass!Graph!ThesisExtreme(p, t2)
           t4 == OnePass!Graph!ThesisSellTrigger(p, t3)
           t5 == OnePass!Graph!ThesisNoAddTrigger(p, d, t4)
           u1 == OnePass!Graph!FundamentalRed(p, t5)
           u2 == OnePass!Graph!FundamentalOrange(p, u1)
           u3 == OnePass!Graph!FundamentalYellow(p, d, u2)
           u4 == OnePass!Graph!LowRatio(p, d, u3)
           u5 == OnePass!Graph!LargeDownside(p, d, u4)
           u6 == OnePass!Graph!SevereBreakdown(p, u5)
           u7 == OnePass!Graph!TargetAboveMax(d, u6)
<1>1. r1 = r0
  BY DEF OnePass!Graph!MissingLimit
<1>2. r2.action = Backed(f, d, d.action)
  <2> HIDE DEF r1
  <2>1. r1.action = d.action
    BY <1>1
  <2> QED  BY <2>1 DEF OnePass!Graph!MissingInvalidation, OnePass!Graph!To, OnePass!Graph!PullbackOnly, Backed
<1>3. r3 = r2
  <2> HIDE DEF r2
  <2> QED  BY DEF OnePass!Graph!InsufficientData
<1>4. s1 = r3
  <2> HIDE DEF r3
  <2> QED  BY DEF OnePass!Graph!WeakCatalyst
<1>5. s2 = s1
  <2> HIDE DEF s1
  <2> QED  BY DEF OnePass!Graph!PositionLimit
<1>6. s3 = s2
  <2> HIDE DEF s2
  <2> QED  BY DEF OnePass!Graph!AiBias
<1>7. s4 = s3
  <2> HIDE DEF s3
  <2> QED  BY DEF OnePass!Graph!AiLimit
<1>8. t1 = s4
  <2> HIDE DEF s4
  <2> QED  BY DEF OnePass!Graph!TrendBreak
<1>9. t2 = t1
  <2> HIDE DEF t1
  <2> QED  BY DEF OnePass!Graph!ThesisLimit
<1>10. t3.action = Tempered(f, t2.action)
  <2> HIDE DEF t2
  <2> QED  BY DEF OnePass!Graph!ThesisExtreme, OnePass!Graph!To, OnePass!Graph!PullbackOnly, Tempered
<1>11. t4 = t3
  <2> HIDE DEF t3
  <2> QED  BY DEF OnePass!Graph!ThesisSellTrigger
<1>12. t5 = t4
  <2> HIDE DEF t4
  <2> QED  BY DEF OnePass!Graph!ThesisNoAddTrigger, OnePass!Graph!NoAddTriggerHit, OnePass!Graph!IsWeakCatalyst
<1>13. u1 = t5
  <2> HIDE DEF t5
  <2> QED  BY DEF OnePass!Graph!FundamentalRed
<1>14. u2 = u1
  <2> HIDE DEF u1
  <2> QED  BY DEF OnePass!Graph!FundamentalOrange
<1>15. u3 = u2
  <2> HIDE DEF u2
  <2> QED  BY DEF OnePass!Graph!FundamentalYellow
<1>16. u4 = u3
  <2> HIDE DEF u3
  <2> QED  BY DEF OnePass!Graph!LowRatio
<1>17. u5 = u4
  <2> HIDE DEF u4
  <2> QED  BY DEF OnePass!Graph!LargeDownside
<1>18. u6 = u5
  <2> HIDE DEF u5
  <2> QED  BY DEF OnePass!Graph!SevereBreakdown
<1>19. u7.action = u6.action
  <2> HIDE DEF u6
  <2> QED  BY DEF OnePass!Graph!TargetAboveMax, OnePass!Graph!Flag
<1>20. OnePass!Graph!AfterRules(p, d) = u7
  BY DEF OnePass!Graph!AfterRules, OnePass!Graph!AfterFundamentals, OnePass!Graph!AfterThesis,
         OnePass!Graph!AfterAccount, OnePass!Graph!AfterLimits
<1> HIDE DEF r0, r1, r2, r3, s1, s2, s3, s4, t1, t2, t3, t4, t5, u1, u2, u3, u4, u5, u6, u7
<1>21. u7.action = Tempered(f, Backed(f, d, d.action))
  BY <1>2, <1>3, <1>4, <1>5, <1>6, <1>7, <1>8, <1>9, <1>10, <1>11, <1>12, <1>13, <1>14, <1>15,
     <1>16, <1>17, <1>18, <1>19
<1> QED  BY <1>20, <1>21 DEF OnePass!Graph!Evaluate

LEMMA OnePassIsTyped == MCSpec => []OnePassTyped
<1>1. MCInit => OnePassTyped
  BY DEF MCInit, OnePass!Init, OnePassTyped, OnePass!Decided
<1>2. OnePassTyped /\ [MCNext]_all => OnePassTyped'
  <2> SUFFICES ASSUME OnePassTyped, [MCNext]_all PROVE OnePassTyped'
    OBVIOUS
  <2>1. [OnePass!Next]_onePass
    BY DEF MCNext, GraphStep, OnePassStep, ReviewStep, all
  <2> QED  BY <2>1, OnePassStepKeepsTypes
<1> QED  BY <1>1, <1>2, PTL DEF MCSpec

LEMMA AdditionOfTheRequest ==
    ASSUME OnePassTyped, OnePass!Added
    PROVE  /\ facts \in Cases /\ IsDraft(draft)
           /\ \A a \in OnePass!Agents : IsCard(a, cards[a])
           /\ verdict = OnePass!Verdict(facts, cards, draft) /\ verdict.action \in AddLike
BY OnePassWords DEF OnePassTyped, OnePass!Added, OnePass!Decided

(* No addition is published on a breakdown, for an asset whose reward does *)
(* not make up for its risk, at a limit or on a card without data, and its *)
(* confidence is the drafted one (agents/trade_decision/risk_gate.py:      *)
(* 114-324).                                                               *)
THEOREM OnePassAddIsEarnedAlways == MCSpec => []OnePassAddIsEarned
<1>1. OnePassTyped => OnePassAddIsEarned
  <2> SUFFICES ASSUME OnePassTyped, OnePass!Added
               PROVE  /\ draft.action \in AddLike
                      /\ ~OnePass!IsBreakdown(cards)
                      /\ ~OnePass!IsFallback(cards["trend"]) /\ ~OnePass!IsFallback(cards["fund"])
                      /\ OnePass!Ratio(facts, cards["fund"]) = Absent
                      /\ draft.max > 0
                      /\ draft.current < OnePass!Least(draft.max, facts.thesis.max)
                      /\ verdict.confidence = draft.confidence
    BY OnePassWords DEF OnePassAddIsEarned, OnePass!OnePassAddIsEarned
  <2>1. /\ PassedOnePass(facts, cards, draft, OnePass!AfterRules(facts, cards, draft))
        /\ verdict.confidence = draft.confidence
        /\ ~OnePass!IsBreakdown(cards) /\ OnePass!Ratio(facts, cards["fund"]) = Absent
        /\ draft.current < draft.max /\ draft.current < facts.thesis.max
    BY AdditionOfTheRequest, VerdictOfAnAddition
  <2>2. draft.current < OnePass!Least(draft.max, facts.thesis.max)
    BY <2>1 DEF OnePass!Least
  <2> QED  BY <2>1, <2>2 DEF PassedOnePass
<1> QED  BY <1>1, OnePassIsTyped, PTL

(* An addition this gate publishes is one that the gate of the decision    *)
(* graph publishes too on the same evidence, by the same name, although    *)
(* the two copies test different rules in different orders                 *)
(* (agents/trade_decision/risk_gate.py:114-324).                           *)
THEOREM AddsAsTheGraphDoesAlways == MCSpec => []AddsAsTheGraphDoes
<1>1. OnePassTyped => AddsAsTheGraphDoes
  <2> SUFFICES ASSUME OnePassTyped, OnePass!Added
               PROVE  OnePass!Graph!Evaluate(OnePass!AsPack, OnePass!AsDraft).action = verdict.action
    BY DEF AddsAsTheGraphDoes, OnePass!AddsAsTheGraphDoes
  <2> DEFINE p == OnePass!AsPack
             d == OnePass!AsDraft
             e == cards["event"]
  <2>1. /\ facts \in Cases /\ IsDraft(draft)
        /\ \A a \in OnePass!Agents : IsCard(a, cards[a])
        /\ verdict = OnePass!Verdict(facts, cards, draft) /\ verdict.action \in AddLike
    BY AdditionOfTheRequest
  <2>2. /\ ~OnePass!Panic(facts, cards, draft)
        /\ PassedOnePass(facts, cards, draft, OnePass!AfterRules(facts, cards, draft))
        /\ verdict.action = Tempered(facts, Backed(facts, draft, draft.action))
        /\ ~OnePass!IsBreakdown(cards) /\ OnePass!Ratio(facts, cards["fund"]) = Absent
        /\ draft.current < draft.max /\ draft.current < facts.thesis.max
    BY <2>1, VerdictOfAnAddition
  <2>3. /\ d.action = draft.action /\ d.max = draft.max /\ d.current = draft.current
        /\ d.invalidation = draft.invalidation /\ d.planBroken = FALSE
        /\ d.ratio = Absent /\ d.downside = OnePass!Downside(facts)
    BY <2>2 DEF OnePass!AsDraft
  <2>4. d.downside \in Int /\ d.downside <= 30
    BY <2>3 DEF OnePass!Downside, OnePass!Absent
  <2>5. /\ p.holding = facts.seen /\ p.position = 0 /\ p.fit = cards["fit"] /\ p.thesis = facts.thesis
        /\ p.ai = OnePass!NoAssessment /\ p.trend = cards["trend"] /\ p.fund = cards["fund"]
        /\ p.panicWords = draft.panicWords
        /\ p.event = [e EXCEPT !.stance = IF @ = "insufficient_data" THEN @
                                          ELSE IF e.sentiment = "negative" THEN "bearish" ELSE "neutral"]
    BY DEF OnePass!AsPack, OnePass!Holding
  <2>6. DOMAIN e = {"stance", "score", "quality", "strength", "sentiment", "quiet"}
    BY <2>1 DEF OnePass!Agents, IsCard
  <2>7. /\ p.event.strength = e.strength /\ p.event.score = e.score /\ p.event.quiet = e.quiet
        /\ p.event.quality = e.quality
        /\ p.event.stance = "insufficient_data" <=> e.stance = "insufficient_data"
    BY <2>5, <2>6
  <2> HIDE DEF p, d, e
  <2>8. /\ OnePass!Graph!IsFallback(p.event) <=> OnePass!IsFallback(e)
        /\ OnePass!Graph!IsFallback(p.trend) <=> OnePass!IsFallback(cards["trend"])
        /\ OnePass!Graph!IsFallback(p.fund) <=> OnePass!IsFallback(cards["fund"])
    BY <2>5, <2>7 DEF OnePass!Graph!IsFallback, OnePass!IsFallback
  <2>9. /\ OnePass!Evidence(cards).trend = cards["trend"] /\ OnePass!Evidence(cards).fund = cards["fund"]
        /\ OnePass!Evidence(cards).event = e
    BY DEF OnePass!Evidence, e
  <2>10. OnePass!Graph!FallbackCount(p) = OnePass!FallbackCount(OnePass!Evidence(cards))
    BY <2>8, <2>9 DEF OnePass!Graph!FallbackCount, OnePass!FallbackCount
  <2>11. OnePass!Graph!FallbackCount(p) \in Int /\ ~(OnePass!Graph!FallbackCount(p) >= 2)
    <3>1. OnePass!Graph!FallbackCount(p) \in Int
      BY DEF OnePass!Graph!FallbackCount
    <3> QED  BY <2>2, <2>10, <3>1 DEF PassedOnePass
  <2>12. ~OnePass!Graph!IsWeakCatalyst(p.event)
    BY <2>2, <2>7 DEF PassedOnePass, OnePass!Graph!IsWeakCatalyst, OnePass!IsWeakCatalyst, e
  <2>13. ~OnePass!Graph!IsSevereBreakdown(p)
    BY <2>2, <2>5, <2>12 DEF OnePass!Graph!IsSevereBreakdown, OnePass!Graph!IsWeakCatalyst,
                             OnePass!IsBreakdown, OnePass!IsBearish
  <2>14. ~OnePass!Graph!Panic(p, d)
    BY <2>2, <2>5 DEF OnePass!Graph!Panic, OnePass!Graph!SellIsJustified, OnePass!Panic, OnePass!IsBearish,
                      OnePass!Holding
  <2>15. ~p.ai.evaluated
    BY <2>5 DEF OnePass!NoAssessment
  <2>16. /\ p.trend.level = "unknown" /\ p.fund.status = "unknown" /\ ~p.fund.broken
    BY <2>1, <2>5 DEF OnePass!Agents, IsCard
  <2>17. /\ draft.max \in Int /\ draft.current \in Int /\ facts.thesis.max \in Int /\ facts.seen \in BOOLEAN
    BY <2>1, OnePassAssumption, ThesisLimitIsPositive DEF IsDraft
  <2>18. p.fit.level # "poor" /\ draft.action \in AddLike /\ draft.max > 0
    BY <2>2, <2>5 DEF PassedOnePass
  <2>19. Backed(facts, d, d.action) = Backed(facts, draft, draft.action)
    BY <2>3 DEF Backed
  <2>20. /\ d.action \in AddLike /\ d.max \in Int /\ d.max > 0 /\ d.current \in Int /\ d.current < d.max
         /\ p.thesis.max \in Int /\ d.current < p.thesis.max /\ p.thesis = facts.thesis
         /\ Tempered(facts, Backed(facts, d, d.action)) \in AddLike
    BY <2>1, <2>2, <2>3, <2>5, <2>17, <2>18, <2>19
  <2>21. OnePass!Graph!Evaluate(p, d).action = Tempered(facts, Backed(facts, d, d.action))
    BY <2>3, <2>4, <2>5, <2>11, <2>12, <2>13, <2>14, <2>15, <2>16, <2>17, <2>18, <2>20, GraphAgrees
  <2> QED  BY <2>2, <2>19, <2>21 DEF p, d
<1> QED  BY <1>1, OnePassIsTyped, PTL

-----------------------------------------------------------------------------
(* The portfolio report.  The hypotheses of a report are collected on the  *)
(* way to it: a scan is complete when it is handed on and stays so, the    *)
(* decisions on it cover what it requires, each run of decisions has one   *)
(* writer, and no writer is left when the run is handed on.                *)

Marks == {"none", "selected", "skipped", "completed", "failed"}
LoopStages == {"watchtower", "scanning", "auto_decision", "deciding", "portfolio_report", "reporting", "done"}

ReviewTyped ==
    /\ scans \in Seq([grades : Gradings, stored : SUBSET Symbols])
    /\ decided \in Seq([of : Nat, items : [Symbols -> Marks]])
    /\ DOMAIN at = Review!Actors /\ \A a \in Loops : at[a] \in LoopStages
    /\ mine \in [Review!Actors -> Nat]
    /\ link \in [Loops -> [scan : Nat, auto : Nat]]
    /\ DOMAIN report = Loops /\ \A a \in Loops : DOMAIN report[a] = {"scan", "auto", "queue"}

(* All items of a scan are stored, and a run of decisions on it has an     *)
(* item for each symbol that requires one.                                 *)
Complete(i) ==
    i \in DOMAIN scans /\ \A s \in Symbols : scans[i].grades[s] # "none" => s \in scans[i].stored
Covers(j, i) ==
    /\ j \in DOMAIN decided /\ decided[j].of = i
    /\ \A s \in Symbols : scans[i].grades[s] = "decision_required" => decided[j].items[s] # "none"

(* Who writes which run.                                                   *)
OwnRun(a) ==
    /\ at[a] = "scanning" => mine[a] \in DOMAIN scans
    /\ at[a] = "deciding" => mine[a] \in DOMAIN decided
    /\ at[a] = "deciding" /\ a \in Loops => Complete(link[a].scan) /\ Covers(mine[a], link[a].scan)
Apart == \A a, b \in Review!Actors : a # b /\ at[a] = "deciding" /\ at[b] = "deciding" => mine[a] # mine[b]

(* What a loop hands on is complete, and nobody writes it any more.        *)
Linked(a) ==
    /\ link[a].scan # 0 => Complete(link[a].scan)
    /\ link[a].auto # 0 =>
          /\ link[a].scan # 0 /\ Covers(link[a].auto, link[a].scan)
          /\ \A b \in Review!Actors : at[b] = "deciding" => mine[b] # link[a].auto
    /\ at[a] \in {"watchtower", "scanning", "auto_decision", "deciding"} => link[a].auto = 0

(* What a report shows.                                                    *)
Listed(queue, s) == \E e \in queue : e.symbol = s /\ e.type # "monitor"
Fits(a) ==
    /\ report[a].scan = link[a].scan
    /\ \A e \in report[a].queue : e.auto \in {0, link[a].auto}
    /\ \A s \in Symbols : scans[link[a].scan].grades[s] = "decision_required" =>
          \/ Listed(report[a].queue, s)
          \/ decided[link[a].auto].items[s] \in {"skipped", "selected"}
          \/ Cardinality(report[a].queue) = QueueLimit
Reported(a) ==
    /\ at[a] \notin {"reporting", "done"} => report[a].scan = 0
    /\ at[a] = "reporting" /\ link[a].scan # 0 => report[a].scan \in {0, link[a].scan}
    /\ at[a] = "done" /\ report[a].scan # 0 /\ link[a].scan # 0 /\ link[a].auto # 0 => Fits(a)

ReviewInv ==
    /\ ReviewTyped /\ Apart
    /\ \A a \in Review!Actors : OwnRun(a)
    /\ \A a \in Loops : Linked(a) /\ Reported(a)

LEMMA ReviewWords ==
    /\ Review!NoRun = 0
    /\ \A S : Review!Cardinality(S) = Cardinality(S)
    /\ \A k, S : Review!kSubset(k, S) = {T \in SUBSET S : Cardinality(T) = k}
    /\ Loops \subseteq Review!Actors /\ Users \subseteq Review!Actors
    /\ \A a \in Review!Actors : a \in Loops <=> a \notin Users
<1>1. \A S : Review!Cardinality(S) = Cardinality(S)
  BY DEF Review!Cardinality, Cardinality
<1>2. \A k, S : Review!kSubset(k, S) = {T \in SUBSET S : Cardinality(T) = k}
  BY <1>1 DEF Review!kSubset
<1> QED  BY <1>1, <1>2, ReviewAssumption DEF Review!NoRun, Review!Actors

(* The queue of a report.                                                  *)
LEMMA EntriesAreFinite ==
    ASSUME NEW S, IsFiniteSet(S), NEW type, NEW auto
    PROVE  IsFiniteSet({Review!Entry(s, type, auto) : s \in S})
<1> DEFINE T == {Review!Entry(s, type, auto) : s \in S}
           f == [s \in S |-> Review!Entry(s, type, auto)]
<1>1. f \in Surjection(S, T)
  BY DEF Surjection
<1> QED  BY <1>1, FS_Surjection

LEMMA QueueIsFull ==
    ASSUME NEW first, NEW second, IsFiniteSet(first), IsFiniteSet(second), first \intersect second = {},
           NEW queue \in Review!Queues(first, second), queue # first \union second
    PROVE  Cardinality(queue) = QueueLimit
<1> DEFINE room == QueueLimit - Cardinality(first)
<1>1. \/ queue \in {T \in SUBSET first : Cardinality(T) = QueueLimit}
      \/ \E rest \in {T \in SUBSET second : Cardinality(T) = room} : queue = first \union rest
  BY ReviewWords DEF Review!Queues
<1>2. ASSUME NEW rest \in SUBSET second, Cardinality(rest) = room, queue = first \union rest
      PROVE  Cardinality(queue) = QueueLimit
  <2>1. IsFiniteSet(rest) /\ first \intersect rest = {}
    BY FS_Subset
  <2>2. Cardinality(first \union rest) = Cardinality(first) + Cardinality(rest) - Cardinality(first \intersect rest)
    BY <2>1, FS_Union
  <2>3. Cardinality(first) \in Nat /\ Cardinality(first \intersect rest) = 0
    BY <2>1, FS_CardinalityType, FS_EmptySet
  <2> QED  BY <1>2, <2>2, <2>3, ReviewAssumption
<1> QED  BY <1>1, <1>2

LEMMA QueueFits ==
    ASSUME NEW shown, NEW items \in [Symbols -> Marks], NEW j \in Nat, NEW barred,
           j = 0 => items = Review!NoItems,
           NEW queue \in Review!Queues(Review!FromDecisions(items, j), Review!FromScan(shown, items, barred))
    PROVE  /\ \A e \in queue : e.auto \in {0, j}
           /\ \A s \in Symbols : shown[s] = "decision_required" =>
                 \/ Listed(queue, s)
                 \/ items[s] \in {"skipped", "selected"}
                 \/ Cardinality(queue) = QueueLimit
<1> DEFINE Of(type, auto, S) == {Review!Entry(s, type, auto) : s \in S}
           done == {s \in Symbols : items[s] = "completed"}
           failed == {s \in Symbols : items[s] = "failed"}
           listed == {s \in Symbols : shown[s] # "none"}
           open == listed \ barred
           missing == {s \in open : shown[s] = "decision_required" /\ items[s] = "none"}
           watched == {s \in open : shown[s] = "attention_required"}
           first == Review!FromDecisions(items, j)
           second == Review!FromScan(shown, items, barred)
<1>1. first = Of("review_trade_decision", j, done) \union Of("manual_review", j, failed)
  BY DEF Review!FromDecisions
<1>2. second = Of("wait", 0, listed \intersect barred)
               \union Of("manual_review", 0, missing) \union Of("monitor", 0, watched)
  BY ReviewWords DEF Review!FromScan
<1>3. IsFiniteSet(first)
  <2>1. IsFiniteSet(done) /\ IsFiniteSet(failed)
    BY FS_Subset, ReviewAssumption
  <2> HIDE DEF done, failed
  <2>2. IsFiniteSet(Of("review_trade_decision", j, done)) /\ IsFiniteSet(Of("manual_review", j, failed))
    BY <2>1, EntriesAreFinite
  <2> HIDE DEF Of
  <2> QED  BY <1>1, <2>2, FS_Union
<1>4. IsFiniteSet(second)
  <2>1. IsFiniteSet(listed \intersect barred) /\ IsFiniteSet(missing) /\ IsFiniteSet(watched)
    BY FS_Subset, ReviewAssumption
  <2> HIDE DEF listed, missing, watched
  <2>2. /\ IsFiniteSet(Of("wait", 0, listed \intersect barred))
        /\ IsFiniteSet(Of("manual_review", 0, missing)) /\ IsFiniteSet(Of("monitor", 0, watched))
    BY <2>1, EntriesAreFinite
  <2> HIDE DEF Of
  <2>3. IsFiniteSet(Of("wait", 0, listed \intersect barred) \union Of("manual_review", 0, missing))
    BY <2>2, FS_Union
  <2> QED  BY <1>2, <2>2, <2>3, FS_Union
<1>5. /\ \A e \in first : e.auto = j
      /\ \A e \in second : e.auto = 0
      /\ j = 0 => first = {}
  <2>1. \A e \in first : e.auto = j
    BY <1>1 DEF Review!Entry
  <2>2. \A e \in second : e.auto = 0
    BY <1>2 DEF Review!Entry
  <2>3. j = 0 => first = {}
    BY <1>1 DEF Review!NoItems
  <2> QED  BY <2>1, <2>2, <2>3
<1>6. first \intersect second = {}
  BY <1>5
<1>7. queue = first \union second \/ Cardinality(queue) = QueueLimit
  BY <1>3, <1>4, <1>6, QueueIsFull
<1>8. queue \subseteq first \union second
  BY ReviewWords DEF Review!Queues
<1>9. ASSUME NEW s \in Symbols, shown[s] = "decision_required", items[s] \notin {"skipped", "selected"},
             queue = first \union second
      PROVE  Listed(queue, s)
  <2>1. CASE items[s] = "completed"
    <3>1. Review!Entry(s, "review_trade_decision", j) \in queue
      BY <1>1, <1>9, <2>1
    <3> QED  BY <3>1 DEF Listed, Review!Entry
  <2>2. CASE items[s] = "failed"
    <3>1. Review!Entry(s, "manual_review", j) \in queue
      BY <1>1, <1>9, <2>2
    <3> QED  BY <3>1 DEF Listed, Review!Entry
  <2>3. CASE items[s] = "none" /\ s \in barred
    <3>1. Review!Entry(s, "wait", 0) \in queue
      BY <1>2, <1>9, <2>3
    <3> QED  BY <3>1 DEF Listed, Review!Entry
  <2>4. CASE items[s] = "none" /\ s \notin barred
    <3>1. Review!Entry(s, "manual_review", 0) \in queue
      BY <1>2, <1>9, <2>4
    <3> QED  BY <3>1 DEF Listed, Review!Entry
  <2> QED  BY <1>9, <2>1, <2>2, <2>3, <2>4 DEF Marks
<1> HIDE DEF first, second
<1> QED  BY <1>5, <1>7, <1>8, <1>9

(* What a step of actor a does to the runs that it does not own.           *)
Grows(a) ==
    /\ \A i \in DOMAIN scans :
          i \in DOMAIN scans' /\ scans'[i].grades = scans[i].grades /\ scans[i].stored \subseteq scans'[i].stored
    /\ \A j \in DOMAIN decided :
          /\ j \in DOMAIN decided' /\ decided'[j].of = decided[j].of
          /\ \A s \in Symbols : decided[j].items[s] # "none" => decided'[j].items[s] # "none"
          /\ decided'[j] = decided[j] \/ (at[a] = "deciding" /\ mine[a] = j)
    /\ \A b \in Review!Actors \ {a} : at'[b] = at[b] /\ mine'[b] = mine[b]
    /\ \A b \in Loops \ {a} : link'[b] = link[b] /\ report'[b] = report[b]
    /\ at'[a] = "deciding" => (at[a] = "deciding" /\ mine'[a] = mine[a]) \/ mine'[a] \notin DOMAIN decided

LEMMA RunsStay ==
    ASSUME NEW a, Grows(a)
    PROVE  /\ \A i : Complete(i) => Complete(i)'
           /\ \A i, j : Covers(j, i) /\ Complete(i) => Covers(j, i)'
BY DEF Grows, Complete, Covers

LEMMA OthersKeep ==
    ASSUME ReviewInv, NEW a \in Review!Actors, Grows(a), NEW b \in Review!Actors \ {a}
    PROVE  OwnRun(b)' /\ (b \in Loops => Linked(b)' /\ Reported(b)')
<1>1. at'[b] = at[b] /\ mine'[b] = mine[b] /\ (b \in Loops => link'[b] = link[b] /\ report'[b] = report[b])
  BY DEF Grows
<1>2. OwnRun(b) /\ (b \in Loops => Linked(b) /\ Reported(b))
  BY DEF ReviewInv
<1>3. OwnRun(b)'
  <2>1. at[b] = "scanning" => mine[b] \in DOMAIN scans'
    BY <1>2 DEF OwnRun, Grows
  <2>2. at[b] = "deciding" => mine[b] \in DOMAIN decided'
    BY <1>2 DEF OwnRun, Grows
  <2>3. at[b] = "deciding" /\ b \in Loops => Complete(link[b].scan)' /\ Covers(mine[b], link[b].scan)'
    <3> SUFFICES ASSUME at[b] = "deciding", b \in Loops
                 PROVE  Complete(link[b].scan)' /\ Covers(mine[b], link[b].scan)'
      OBVIOUS
    <3>1. PICK i, j : i = link[b].scan /\ j = mine[b]
      OBVIOUS
    <3>2. Complete(i) /\ Covers(j, i)
      BY <1>2, <3>1 DEF OwnRun
    <3>3. i = link'[b].scan /\ j = mine'[b]
      BY <1>1, <3>1
    <3> QED  BY <3>2, <3>3, RunsStay
  <2> QED  BY <1>1, <2>1, <2>2, <2>3 DEF OwnRun
<1>4. ASSUME b \in Loops PROVE Linked(b)'
  <2>1. PICK i, j : i = link[b].scan /\ j = link[b].auto
    OBVIOUS
  <2>2. i = link'[b].scan /\ j = link'[b].auto
    BY <1>1, <1>4, <2>1
  <2>3. i # 0 => Complete(i)'
    BY <1>2, <1>4, <2>1, RunsStay DEF Linked
  <2>4. ASSUME j # 0 PROVE i # 0 /\ Covers(j, i)' /\ j \in DOMAIN decided
    BY <1>2, <1>4, <2>1, <2>4, RunsStay DEF Linked, Covers
  <2>5. ASSUME j # 0, NEW c \in Review!Actors, at'[c] = "deciding" PROVE mine'[c] # j
    BY <1>2, <1>4, <2>1, <2>4, <2>5 DEF Linked, Grows
  <2> QED  BY <1>1, <1>2, <1>4, <2>2, <2>3, <2>4, <2>5 DEF Linked
<1>5. ASSUME b \in Loops PROVE Reported(b)'
  <2>1. at[b] \notin {"reporting", "done"} => report[b].scan = 0
    BY <1>2, <1>5 DEF Reported
  <2>2. at[b] = "reporting" /\ link[b].scan # 0 => report[b].scan \in {0, link[b].scan}
    BY <1>2, <1>5 DEF Reported
  <2>3. ASSUME at[b] = "done", report[b].scan # 0, link[b].scan # 0, link[b].auto # 0 PROVE Fits(b)'
    <3>1. PICK i, j : i = link[b].scan /\ j = link[b].auto
      OBVIOUS
    <3>2. Complete(i) /\ Covers(j, i) /\ \A c \in Review!Actors : at[c] = "deciding" => mine[c] # j
      BY <1>2, <1>5, <2>3, <3>1 DEF Linked
    <3>3. decided'[j] = decided[j] /\ scans'[i].grades = scans[i].grades
      BY <3>2 DEF Grows, Complete, Covers
    <3>4. Fits(b)
      BY <1>2, <1>5, <2>3 DEF Reported
    <3>5. i = link'[b].scan /\ j = link'[b].auto /\ report'[b] = report[b]
      BY <1>1, <1>5, <3>1
    <3> QED  BY <3>1, <3>3, <3>4, <3>5 DEF Fits
  <2> QED  BY <1>1, <1>5, <2>1, <2>2, <2>3 DEF Reported
<1> QED  BY <1>3, <1>4, <1>5

LEMMA StepKeepsReview ==
    ASSUME ReviewInv, NEW a \in Review!Actors, Grows(a), ReviewTyped', OwnRun(a)',
           a \in Loops => Linked(a)' /\ Reported(a)'
    PROVE  ReviewInv'
<1>1. \A b \in Review!Actors : OwnRun(b)'
  BY OthersKeep
<1>2. \A b \in Loops : Linked(b)' /\ Reported(b)'
  BY OthersKeep, ReviewWords
<1>3. ASSUME NEW b \in Review!Actors, NEW c \in Review!Actors, b # c,
             at'[b] = "deciding", at'[c] = "deciding"
      PROVE  mine'[b] # mine'[c]
  <2>1. \A e \in Review!Actors : at[e] = "deciding" => mine[e] \in DOMAIN decided
    BY DEF ReviewInv, OwnRun
  <2>2. \A e, g \in Review!Actors : e # g /\ at[e] = "deciding" /\ at[g] = "deciding" => mine[e] # mine[g]
    BY DEF ReviewInv, Apart
  <2> QED  BY <1>3, <2>1, <2>2 DEF Grows
<1>4. Apart'
  BY <1>3 DEF Apart, Review!Actors
<1> QED  BY <1>1, <1>2, <1>4 DEF ReviewInv, Review!Actors

(* A step writes the sequences of runs.                                    *)
LEMMA AppendedRun ==
    ASSUME NEW S, NEW q \in Seq(S), NEW e \in S
    PROVE  /\ Append(q, e) \in Seq(S) /\ Len(Append(q, e)) = Len(q) + 1 /\ Len(q) \in Nat
           /\ DOMAIN q = 1 .. Len(q) /\ DOMAIN Append(q, e) = 1 .. Len(q) + 1
           /\ \A i \in DOMAIN q : Append(q, e)[i] = q[i]
           /\ Append(q, e)[Len(q) + 1] = e
OBVIOUS

LEMMA ReplacedRun ==
    ASSUME NEW S, NEW q \in Seq(S), NEW k \in DOMAIN q, NEW e \in S
    PROVE  /\ [q EXCEPT ![k] = e] \in Seq(S) /\ DOMAIN [q EXCEPT ![k] = e] = DOMAIN q
           /\ \A i \in DOMAIN q : [q EXCEPT ![k] = e][i] = IF i = k THEN e ELSE q[i]
OBVIOUS

LEMMA AfterOfALoop ==
    ASSUME NEW a \in Loops
    PROVE  /\ at[a] = "scanning" => Review!After(a) = "auto_decision"
           /\ at[a] = "deciding" => Review!After(a) = "portfolio_report"
           /\ at[a] = "reporting" => Review!After(a) = "done"
           /\ at[a] \in LoopStages \ {"done"} => Review!After(a) \in {"auto_decision", "portfolio_report", "done"}
           /\ Review!After(a) = "auto_decision" => at[a] \in {"watchtower", "scanning"}
           /\ Review!After(a) = "done" => at[a] \in {"portfolio_report", "reporting", "done"} \/ at[a] \notin LoopStages
<1>1. a \notin Users
  BY ReviewAssumption
<1>2. CASE at[a] \in {"watchtower", "scanning"}
  <2>1. Review!After(a) = "auto_decision"
    BY <1>1, <1>2, Zenon DEF Review!After
  <2> QED  BY <1>2, <2>1
<1>3. CASE at[a] \in {"auto_decision", "deciding"}
  <2>1. at[a] \notin {"watchtower", "scanning"}
    BY <1>3
  <2>2. Review!After(a) = "portfolio_report"
    BY <1>1, <1>3, <2>1, Zenon DEF Review!After
  <2> QED  BY <1>3, <2>2
<1>4. CASE at[a] \notin {"watchtower", "scanning", "auto_decision", "deciding"}
  <2>1. Review!After(a) = "done"
    BY <1>1, <1>4 DEF Review!After
  <2> QED  BY <1>4, <2>1 DEF LoopStages
<1> QED  BY <1>2, <1>3, <1>4

LEMMA AfterIsNoWriting ==
    ASSUME NEW a \in Review!Actors
    PROVE  Review!After(a) \notin {"scanning", "deciding", "reporting"}
<1>1. CASE a \in Users
  <2>1. Review!After(a) = "idle"
    BY <1>1 DEF Review!After
  <2> QED  BY <2>1
<1>2. CASE a \notin Users
  <2>1. Review!After(a) \in {"auto_decision", "portfolio_report", "done"}
    BY <1>2 DEF Review!After
  <2> QED  BY <2>1
<1> QED  BY <1>1, <1>2

LEMMA Moved ==
    ASSUME ReviewTyped, NEW a \in Review!Actors, NEW step, a \in Loops => step \in LoopStages, NEW run \in Nat,
           at' = [at EXCEPT ![a] = step], mine' = [mine EXCEPT ![a] = run]
    PROVE  /\ DOMAIN at' = Review!Actors /\ \A b \in Loops : at'[b] \in LoopStages
           /\ mine' \in [Review!Actors -> Nat]
           /\ at'[a] = step /\ mine'[a] = run
           /\ \A b \in Review!Actors \ {a} : at'[b] = at[b] /\ mine'[b] = mine[b]
BY ReviewWords DEF ReviewTyped

LEMMA RunOf ==
    ASSUME NEW S, NEW q \in Seq(S), NEW k \in DOMAIN q
    PROVE  q[k] \in S
OBVIOUS

(* A loop hands on the id of a run, a user none.                           *)
LEMMA HandedOn ==
    ASSUME ReviewTyped, NEW a, NEW run \in Nat
    PROVE  /\ Review!Hand(a, "scan", run) =>
              /\ link' \in [Loops -> [scan : Nat, auto : Nat]]
              /\ \A b \in Loops \ {a} : link'[b] = link[b]
              /\ a \in Loops => link'[a].scan = run /\ link'[a].auto = link[a].auto
           /\ Review!Hand(a, "auto", run) =>
              /\ link' \in [Loops -> [scan : Nat, auto : Nat]]
              /\ \A b \in Loops \ {a} : link'[b] = link[b]
              /\ a \in Loops => link'[a].auto = run /\ link'[a].scan = link[a].scan
<1>1. CASE a \in Loops
  <2> DEFINE r == [link[a] EXCEPT !.scan = run]
             q == [link[a] EXCEPT !.auto = run]
  <2>1. link[a] \in [scan : Nat, auto : Nat]
    BY <1>1 DEF ReviewTyped
  <2>2. r \in [scan : Nat, auto : Nat] /\ r.scan = run /\ r.auto = link[a].auto
    BY <2>1
  <2>3. q \in [scan : Nat, auto : Nat] /\ q.auto = run /\ q.scan = link[a].scan
    BY <2>1
  <2>4. Review!Hand(a, "scan", run) => link' = [link EXCEPT ![a] = r]
    BY <1>1 DEF Review!Hand
  <2>5. Review!Hand(a, "auto", run) => link' = [link EXCEPT ![a] = q]
    BY <1>1 DEF Review!Hand
  <2> HIDE DEF r, q
  <2> QED  BY <1>1, <2>2, <2>3, <2>4, <2>5 DEF ReviewTyped
<1>2. CASE a \notin Loops
  BY <1>2 DEF Review!Hand, ReviewTyped
<1> QED  BY <1>1, <1>2

(* A step of an actor that writes no runs.                                 *)
LEMMA RunsAreKept ==
    ASSUME NEW a \in Review!Actors, UNCHANGED <<scans, decided>>,
           \A b \in Review!Actors \ {a} : at'[b] = at[b] /\ mine'[b] = mine[b],
           \A b \in Loops \ {a} : link'[b] = link[b] /\ report'[b] = report[b],
           at'[a] # "deciding"
    PROVE  Grows(a)
BY DEF Grows

LEMMA CreateScanKeeps ==
    ASSUME ReviewInv, NEW a \in Review!Actors, Review!CreateScan(a)
    PROVE  ReviewInv'
<1>0. ReviewTyped
  BY DEF ReviewInv
<1>1. PICK e \in [grades : Gradings, stored : SUBSET Symbols] : scans' = Append(scans, e)
  BY DEF Review!CreateScan
<1>2. /\ scans' \in Seq([grades : Gradings, stored : SUBSET Symbols])
      /\ Len(scans') = Len(scans) + 1 /\ Len(scans') \in Nat /\ Len(scans') \in DOMAIN scans'
      /\ \A i \in DOMAIN scans : i \in DOMAIN scans' /\ scans'[i] = scans[i]
  BY <1>0, <1>1, AppendedRun DEF ReviewTyped
<1>3. /\ at' = [at EXCEPT ![a] = "scanning"] /\ mine' = [mine EXCEPT ![a] = Len(scans')]
      /\ UNCHANGED <<decided, link, report>> /\ Review!MayStart(a, "watchtower")
  BY DEF Review!CreateScan, Review!Begin
<1>4. /\ DOMAIN at' = Review!Actors /\ \A b \in Loops : at'[b] \in LoopStages
      /\ mine' \in [Review!Actors -> Nat]
      /\ at'[a] = "scanning" /\ mine'[a] = Len(scans')
      /\ \A b \in Review!Actors \ {a} : at'[b] = at[b] /\ mine'[b] = mine[b]
  BY <1>0, <1>2, <1>3, Moved DEF LoopStages
<1>5. ReviewTyped'
  BY <1>0, <1>2, <1>3, <1>4 DEF ReviewTyped, Review!Actors
<1>6. Grows(a)
  BY <1>2, <1>3, <1>4 DEF Grows
<1>7. OwnRun(a)'
  BY <1>2, <1>4 DEF OwnRun
<1>8. ASSUME a \in Loops PROVE Linked(a)' /\ Reported(a)'
  <2>1. at[a] = "watchtower" /\ Linked(a) /\ Reported(a)
    BY <1>3, <1>8 DEF Review!MayStart, ReviewInv
  <2>2. Linked(a)'
    <3>1. link'[a].auto = 0 /\ link'[a].scan = link[a].scan
      BY <1>3, <2>1 DEF Linked
    <3>2. PICK i : i = link[a].scan
      OBVIOUS
    <3>3. i # 0 => Complete(i)'
      BY <1>6, <2>1, <3>2, RunsStay DEF Linked
    <3> QED  BY <3>1, <3>2, <3>3 DEF Linked
  <2>3. Reported(a)'
    BY <1>3, <1>4, <2>1 DEF Reported
  <2> QED  BY <2>2, <2>3
<1> QED  BY <1>5, <1>6, <1>7, <1>8, StepKeepsReview

LEMMA CreateItemKeeps ==
    ASSUME ReviewInv, NEW a \in Review!Actors, NEW s \in Symbols, Review!CreateItem(a, s)
    PROVE  ReviewInv'
<1> DEFINE S == [grades : Gradings, stored : SUBSET Symbols]
<1>0. ReviewTyped /\ at[a] = "scanning" /\ mine[a] \in DOMAIN scans /\ UNCHANGED <<decided, at, mine, link, report>>
  BY DEF ReviewInv, OwnRun, Review!CreateItem
<1>1. PICK k \in DOMAIN scans : k = mine[a]
  BY <1>0
<1>2. PICK e \in S : /\ scans' = [scans EXCEPT ![k] = e]
                     /\ e.grades = scans[k].grades /\ scans[k].stored \subseteq e.stored
  <2>1. scans[k] \in S
    BY <1>0, RunOf DEF ReviewTyped
  <2>2. scans' = [scans EXCEPT ![k] = [scans[k] EXCEPT !.stored = @ \union {s}]]
    BY <1>1 DEF Review!CreateItem
  <2> DEFINE e == [scans[k] EXCEPT !.stored = @ \union {s}]
  <2>3. e \in S /\ e.grades = scans[k].grades /\ scans[k].stored \subseteq e.stored
    BY <2>1
  <2> QED  BY <2>2, <2>3
<1>3. /\ scans' \in Seq(S) /\ DOMAIN scans' = DOMAIN scans
      /\ \A i \in DOMAIN scans : scans'[i] = IF i = k THEN e ELSE scans[i]
  BY <1>0, <1>2, ReplacedRun DEF ReviewTyped
<1>4. ReviewTyped'
  BY <1>0, <1>3 DEF ReviewTyped, Review!Actors
<1>5. Grows(a)
  BY <1>0, <1>2, <1>3 DEF Grows
<1>6. OwnRun(a)'
  BY <1>0, <1>3 DEF OwnRun
<1>7. ASSUME a \in Loops PROVE Linked(a)' /\ Reported(a)'
  <2>1. Linked(a) /\ Reported(a)
    BY <1>7 DEF ReviewInv
  <2>2. PICK i : i = link[a].scan
    OBVIOUS
  <2>3. i # 0 => Complete(i)'
    BY <1>5, <2>1, <2>2, RunsStay DEF Linked
  <2>4. link'[a].auto = 0 /\ i = link'[a].scan
    BY <1>0, <2>1, <2>2 DEF Linked
  <2>5. Linked(a)'
    BY <2>3, <2>4 DEF Linked
  <2>6. Reported(a)'
    BY <1>0, <2>1 DEF Reported
  <2> QED  BY <2>5, <2>6
<1> QED  BY <1>4, <1>5, <1>6, <1>7, StepKeepsReview

LEMMA EndScanKeeps ==
    ASSUME ReviewInv, NEW a \in Review!Actors, Review!EndScan(a)
    PROVE  ReviewInv'
<1>0. ReviewTyped /\ at[a] = "scanning" /\ mine[a] \in DOMAIN scans /\ UNCHANGED <<scans, decided, report>>
  BY DEF ReviewInv, OwnRun, Review!EndScan
<1>1. PICK k \in DOMAIN scans : k = mine[a]
  BY <1>0
<1>2. Complete(k)'
  BY <1>0, <1>1 DEF Complete, Review!EndScan, Review!Unstored
<1>3. k \in Nat /\ k # 0
  BY <1>0 DEF ReviewTyped
<1>4. PICK step : step = Review!After(a)
  OBVIOUS
<1>5. step \notin {"scanning", "deciding", "reporting"} /\ (a \in Loops => step = "auto_decision")
  BY <1>0, <1>4, AfterOfALoop, AfterIsNoWriting
<1>6. at' = [at EXCEPT ![a] = step] /\ mine' = [mine EXCEPT ![a] = 0]
  BY <1>4, ReviewWords DEF Review!EndScan, Review!EndStep
<1>7. /\ DOMAIN at' = Review!Actors /\ \A b \in Loops : at'[b] \in LoopStages
      /\ mine' \in [Review!Actors -> Nat]
      /\ at'[a] = step /\ mine'[a] = 0
      /\ \A b \in Review!Actors \ {a} : at'[b] = at[b] /\ mine'[b] = mine[b]
  BY <1>0, <1>5, <1>6, Moved DEF LoopStages
<1>9. /\ link' \in [Loops -> [scan : Nat, auto : Nat]]
      /\ \A b \in Loops \ {a} : link'[b] = link[b]
      /\ a \in Loops => link'[a].scan = k /\ link'[a].auto = link[a].auto
  BY <1>0, <1>1, <1>3, HandedOn DEF Review!EndScan
<1>10. ReviewTyped'
  BY <1>0, <1>7, <1>9 DEF ReviewTyped, Review!Actors
<1>11. Grows(a)
  BY <1>0, <1>5, <1>7, <1>9, RunsAreKept
<1>12. OwnRun(a)'
  BY <1>5, <1>7 DEF OwnRun
<1>13. ASSUME a \in Loops PROVE Linked(a)' /\ Reported(a)'
  <2>1. Linked(a) /\ Reported(a)
    BY <1>13 DEF ReviewInv
  <2>2. link'[a].auto = 0 /\ link'[a].scan = k
    BY <1>0, <1>9, <1>13, <2>1 DEF Linked
  <2>3. Linked(a)'
    BY <1>2, <2>2 DEF Linked
  <2>4. report'[a].scan = 0 /\ at'[a] = "auto_decision"
    BY <1>0, <1>5, <1>7, <1>13, <2>1 DEF Reported
  <2>5. Reported(a)'
    BY <2>4 DEF Reported
  <2> QED  BY <2>3, <2>5
<1> QED  BY <1>10, <1>11, <1>12, <1>13, StepKeepsReview

LEMMA CreateDecisionsKeeps ==
    ASSUME ReviewInv, NEW a \in Review!Actors, Review!CreateDecisions(a)
    PROVE  ReviewInv'
<1> DEFINE S == [of : Nat, items : [Symbols -> Marks]]
<1>0. ReviewTyped
  BY DEF ReviewInv
<1>a. PICK i \in Review!Sources(a) :
          \E items \in Review!Selections(i) : decided' = Append(decided, [of |-> i, items |-> items])
  BY DEF Review!CreateDecisions
<1>1. PICK items \in Review!Selections(i) : decided' = Append(decided, [of |-> i, items |-> items])
  BY <1>a
<1>2. i \in Nat /\ i # 0 /\ (a \in Loops => i = link[a].scan /\ Complete(i))
  <2>1. CASE a \in Loops
    <3>1. i = link[a].scan /\ i # 0
      BY <2>1, ReviewWords DEF Review!Sources
    <3>2. Linked(a) /\ link[a].scan \in Nat
      BY <1>0, <2>1 DEF ReviewInv, ReviewTyped
    <3> QED  BY <3>1, <3>2 DEF Linked
  <2>2. CASE a \notin Loops
    <3>1. i \in DOMAIN scans
      BY <2>2 DEF Review!Sources
    <3> QED  BY <1>0, <2>2, <3>1 DEF ReviewTyped
  <2> QED  BY <2>1, <2>2
<1>3. items \in [Symbols -> Marks]
  BY DEF Review!Selections, Marks
<1>4. PICK e \in S : e.of = i /\ e.items = items /\ decided' = Append(decided, e)
  <2> DEFINE e == [of |-> i, items |-> items]
  <2>1. e \in S /\ e.of = i /\ e.items = items
    BY <1>2, <1>3
  <2> QED  BY <1>1, <2>1
<1>5. PICK n \in Nat : n = Len(decided) + 1
  BY <1>0, AppendedRun DEF ReviewTyped
<1>6. /\ decided' \in Seq(S) /\ Len(decided') = n /\ n \in DOMAIN decided' /\ n \notin DOMAIN decided
      /\ \A j \in DOMAIN decided : j \in DOMAIN decided' /\ decided'[j] = decided[j]
      /\ decided'[n] = e
  BY <1>0, <1>4, <1>5, AppendedRun DEF ReviewTyped
<1>7. /\ at' = [at EXCEPT ![a] = "deciding"] /\ mine' = [mine EXCEPT ![a] = n]
      /\ UNCHANGED <<scans, link, report>> /\ Review!MayStart(a, "auto_decision")
  BY <1>6 DEF Review!CreateDecisions, Review!Begin
<1>8. /\ DOMAIN at' = Review!Actors /\ \A b \in Loops : at'[b] \in LoopStages
      /\ mine' \in [Review!Actors -> Nat]
      /\ at'[a] = "deciding" /\ mine'[a] = n
      /\ \A b \in Review!Actors \ {a} : at'[b] = at[b] /\ mine'[b] = mine[b]
  BY <1>0, <1>7, Moved DEF LoopStages
<1>9. ReviewTyped'
  BY <1>0, <1>6, <1>7, <1>8 DEF ReviewTyped, Review!Actors
<1>10. Grows(a)
  BY <1>6, <1>7, <1>8 DEF Grows
<1>11. ASSUME a \in Loops PROVE Complete(i)' /\ Covers(n, i)'
  <2>1. i = link[a].scan /\ Complete(i)
    BY <1>2, <1>11
  <2>2. ASSUME NEW s \in Symbols, scans[i].grades[s] = "decision_required" PROVE items[s] # "none"
    <3>1. s \in scans[i].stored
      BY <2>1, <2>2 DEF Complete
    <3>2. Review!ScanItems(i)[s] = "decision_required"
      BY <1>2, <2>2, <3>1, ReviewWords DEF Review!ScanItems
    <3> QED  BY <3>2 DEF Review!Selections
  <2>3. Complete(i)'
    BY <1>10, <2>1, RunsStay
  <2>4. Covers(n, i)'
    BY <1>4, <1>6, <1>7, <2>2 DEF Covers
  <2> QED  BY <2>3, <2>4
<1>12. OwnRun(a)'
  <2>1. a \in Loops => i = link'[a].scan
    BY <1>2, <1>7
  <2> QED  BY <1>6, <1>8, <1>11, <2>1 DEF OwnRun
<1>13. ASSUME a \in Loops PROVE Linked(a)' /\ Reported(a)'
  <2>1. at[a] = "auto_decision" /\ Linked(a) /\ Reported(a)
    BY <1>7, <1>13 DEF Review!MayStart, ReviewInv
  <2>2. link'[a].auto = 0 /\ link'[a].scan = i
    BY <1>2, <1>7, <1>13, <2>1 DEF Linked
  <2>3. Linked(a)'
    BY <1>11, <1>13, <2>2 DEF Linked
  <2>4. Reported(a)'
    BY <1>7, <1>8, <2>1 DEF Reported
  <2> QED  BY <2>3, <2>4
<1> QED  BY <1>9, <1>10, <1>12, <1>13, StepKeepsReview

LEMMA DecideKeeps ==
    ASSUME ReviewInv, NEW a \in Review!Actors, NEW s \in Symbols, Review!Decide(a, s)
    PROVE  ReviewInv'
<1> DEFINE S == [of : Nat, items : [Symbols -> Marks]]
<1>0. ReviewTyped /\ at[a] = "deciding" /\ mine[a] \in DOMAIN decided /\ UNCHANGED <<scans, at, mine, link, report>>
  BY DEF ReviewInv, OwnRun, Review!Decide
<1>1. PICK k \in DOMAIN decided : k = mine[a]
  BY <1>0
<1>2. PICK e \in S : /\ decided' = [decided EXCEPT ![k] = e] /\ e.of = decided[k].of
                     /\ \A t \in Symbols : decided[k].items[t] # "none" => e.items[t] # "none"
  <2>1. decided[k] \in S
    BY <1>0, RunOf DEF ReviewTyped
  <2>2. PICK status \in {"completed", "failed"} : decided' = [decided EXCEPT ![mine[a]].items[s] = status]
    BY DEF Review!Decide
  <2> DEFINE items == [decided[k].items EXCEPT ![s] = status]
             e == [decided[k] EXCEPT !.items = items]
  <2>3. items \in [Symbols -> Marks] /\ \A t \in Symbols : items[t] = IF t = s THEN status ELSE decided[k].items[t]
    BY <2>1 DEF Marks
  <2>4. decided' = [decided EXCEPT ![k] = e]
    BY <1>1, <2>2
  <2> HIDE DEF items
  <2>5. e \in S /\ e.of = decided[k].of /\ e.items = items
    BY <2>1, <2>3
  <2> QED  BY <2>3, <2>4, <2>5
<1>3. /\ decided' \in Seq(S) /\ DOMAIN decided' = DOMAIN decided
      /\ \A j \in DOMAIN decided : decided'[j] = IF j = k THEN e ELSE decided[j]
  BY <1>0, <1>2, ReplacedRun DEF ReviewTyped
<1>4. ReviewTyped'
  BY <1>0, <1>3 DEF ReviewTyped, Review!Actors
<1>5. Grows(a)
  BY <1>0, <1>1, <1>2, <1>3 DEF Grows
<1>6. OwnRun(a)'
  <2>1. PICK i : a \in Loops => i = link[a].scan
    OBVIOUS
  <2>2. OwnRun(a)
    BY DEF ReviewInv
  <2>3. a \in Loops => Complete(i)' /\ Covers(k, i)'
    BY <1>0, <1>1, <1>5, <2>1, <2>2, RunsStay DEF OwnRun
  <2>4. a \in Loops => i = link'[a].scan
    BY <1>0, <2>1
  <2> QED  BY <1>0, <1>1, <1>3, <2>3, <2>4 DEF OwnRun
<1>7. ASSUME a \in Loops PROVE Linked(a)' /\ Reported(a)'
  <2>1. Linked(a) /\ Reported(a)
    BY <1>7 DEF ReviewInv
  <2>2. PICK i : i = link[a].scan
    OBVIOUS
  <2>3. i # 0 => Complete(i)'
    BY <1>5, <2>1, <2>2, RunsStay DEF Linked
  <2>4. link'[a].auto = 0 /\ i = link'[a].scan
    BY <1>0, <2>1, <2>2 DEF Linked
  <2>5. Linked(a)'
    BY <2>3, <2>4 DEF Linked
  <2>6. Reported(a)'
    BY <1>0, <2>1 DEF Reported
  <2> QED  BY <2>5, <2>6
<1> QED  BY <1>4, <1>5, <1>6, <1>7, StepKeepsReview

LEMMA EndDecisionsKeeps ==
    ASSUME ReviewInv, NEW a \in Review!Actors, Review!EndDecisions(a)
    PROVE  ReviewInv'
<1>0. ReviewTyped /\ at[a] = "deciding" /\ mine[a] \in DOMAIN decided /\ UNCHANGED <<scans, decided, report>>
  BY DEF ReviewInv, OwnRun, Review!EndDecisions
<1>1. PICK k \in DOMAIN decided : k = mine[a]
  BY <1>0
<1>3. k \in Nat /\ k # 0
  BY <1>0 DEF ReviewTyped
<1>4. PICK after : after = Review!After(a)
  OBVIOUS
<1>5. after \notin {"scanning", "deciding", "reporting"} /\ (a \in Loops => after = "portfolio_report")
  BY <1>0, <1>4, AfterOfALoop, AfterIsNoWriting
<1>6. at' = [at EXCEPT ![a] = after] /\ mine' = [mine EXCEPT ![a] = 0]
  BY <1>4, ReviewWords DEF Review!EndDecisions, Review!EndStep
<1>7. /\ DOMAIN at' = Review!Actors /\ \A b \in Loops : at'[b] \in LoopStages
      /\ mine' \in [Review!Actors -> Nat]
      /\ at'[a] = after /\ mine'[a] = 0
      /\ \A b \in Review!Actors \ {a} : at'[b] = at[b] /\ mine'[b] = mine[b]
  BY <1>0, <1>5, <1>6, Moved DEF LoopStages
<1>9. /\ link' \in [Loops -> [scan : Nat, auto : Nat]]
      /\ \A b \in Loops \ {a} : link'[b] = link[b]
      /\ a \in Loops => link'[a].auto = k /\ link'[a].scan = link[a].scan
  BY <1>0, <1>1, <1>3, HandedOn DEF Review!EndDecisions
<1>10. ReviewTyped'
  BY <1>0, <1>7, <1>9 DEF ReviewTyped, Review!Actors
<1>11. Grows(a)
  BY <1>0, <1>5, <1>7, <1>9, RunsAreKept
<1>12. OwnRun(a)'
  BY <1>5, <1>7 DEF OwnRun
<1>13. ASSUME a \in Loops PROVE Linked(a)' /\ Reported(a)'
  <2>1. Linked(a) /\ Reported(a) /\ OwnRun(a)
    BY <1>13 DEF ReviewInv
  <2>2. PICK i : i = link[a].scan
    OBVIOUS
  <2>3. i = link'[a].scan /\ link'[a].auto = k
    BY <1>9, <1>13, <2>2
  <2>4. Complete(i)' /\ Covers(k, i)'
    BY <1>0, <1>1, <1>11, <1>13, <2>1, <2>2, RunsStay DEF OwnRun
  <2>5. i # 0
    BY <1>0, <1>13, <2>1, <2>2 DEF OwnRun, Complete, ReviewTyped
  <2>6. ASSUME NEW b \in Review!Actors, at'[b] = "deciding" PROVE mine'[b] # k
    BY <1>0, <1>1, <1>5, <1>7, <2>6 DEF ReviewInv, Apart
  <2>7. Linked(a)'
    BY <1>5, <1>7, <1>13, <2>3, <2>4, <2>5, <2>6 DEF Linked, Review!Actors
  <2>8. report'[a].scan = 0 /\ at'[a] = "portfolio_report"
    BY <1>0, <1>5, <1>7, <1>13, <2>1 DEF Reported
  <2>9. Reported(a)'
    BY <2>8 DEF Reported
  <2> QED  BY <2>7, <2>9
<1> QED  BY <1>10, <1>11, <1>12, <1>13, StepKeepsReview

LEMMA StepRaisesKeeps ==
    ASSUME ReviewInv, NEW a \in Review!Actors, Review!StepRaises(a)
    PROVE  ReviewInv'
<1>0. ReviewTyped /\ at[a] \notin {"idle", "done"} /\ UNCHANGED <<scans, decided, link>>
  BY DEF ReviewInv, Review!StepRaises
<1>1. PICK after : after = Review!After(a)
  OBVIOUS
<1>2. /\ after \notin {"scanning", "deciding", "reporting"}
      /\ a \in Loops => /\ after \in {"auto_decision", "portfolio_report", "done"}
                        /\ after = "done" => at[a] \in {"portfolio_report", "reporting"}
  BY <1>0, <1>1, AfterOfALoop, AfterIsNoWriting DEF ReviewTyped
<1>3. at' = [at EXCEPT ![a] = after] /\ mine' = [mine EXCEPT ![a] = 0]
  BY <1>1, ReviewWords DEF Review!StepRaises, Review!EndStep
<1>4. /\ DOMAIN at' = Review!Actors /\ \A b \in Loops : at'[b] \in LoopStages
      /\ mine' \in [Review!Actors -> Nat]
      /\ at'[a] = after /\ mine'[a] = 0
      /\ \A b \in Review!Actors \ {a} : at'[b] = at[b] /\ mine'[b] = mine[b]
  BY <1>0, <1>2, <1>3, Moved DEF LoopStages
<1>5. /\ DOMAIN report' = Loops /\ \A b \in Loops : DOMAIN report'[b] = {"scan", "auto", "queue"}
      /\ \A b \in Loops \ {a} : report'[b] = report[b]
      /\ a \in Loops => report'[a].scan = IF at[a] = "reporting" THEN 0 ELSE report[a].scan
  <2>1. DOMAIN Review!NoReport = {"scan", "auto", "queue"} /\ Review!NoReport.scan = 0
    BY ReviewWords DEF Review!NoReport
  <2>2. report' = IF at[a] = "reporting" THEN [report EXCEPT ![a] = Review!NoReport] ELSE report
    BY DEF Review!StepRaises
  <2> QED  BY <1>0, <2>1, <2>2 DEF ReviewTyped
<1>6. ReviewTyped'
  BY <1>0, <1>4, <1>5 DEF ReviewTyped, Review!Actors
<1>7. Grows(a)
  BY <1>0, <1>2, <1>4, <1>5, RunsAreKept
<1>8. OwnRun(a)'
  BY <1>2, <1>4 DEF OwnRun
<1>9. ASSUME a \in Loops PROVE Linked(a)' /\ Reported(a)'
  <2>1. Linked(a) /\ Reported(a)
    BY <1>9 DEF ReviewInv
  <2>2. PICK i, j : i = link[a].scan /\ j = link[a].auto
    OBVIOUS
  <2>3. i = link'[a].scan /\ j = link'[a].auto
    BY <1>0, <2>2
  <2>4. i # 0 => Complete(i)'
    BY <1>7, <2>1, <2>2, RunsStay DEF Linked
  <2>5. ASSUME j # 0 PROVE i # 0 /\ Covers(j, i)'
    BY <1>7, <2>1, <2>2, <2>5, RunsStay DEF Linked
  <2>6. ASSUME j # 0, NEW b \in Review!Actors, at'[b] = "deciding" PROVE mine'[b] # j
    BY <1>2, <1>4, <2>1, <2>2, <2>6 DEF Linked
  <2>7. at'[a] = "auto_decision" => j = 0
    BY <1>1, <1>4, <1>9, <2>1, <2>2, AfterOfALoop DEF Linked
  <2>8. Linked(a)'
    BY <1>2, <1>4, <1>9, <2>3, <2>4, <2>5, <2>6, <2>7 DEF Linked, Review!Actors
  <2>9. report'[a].scan = 0 \/ at[a] = "done"
    BY <1>0, <1>5, <1>9, <2>1 DEF Reported
  <2>10. Reported(a)'
    BY <1>0, <1>2, <1>4, <1>9, <2>9 DEF Reported
  <2> QED  BY <2>8, <2>10
<1> QED  BY <1>6, <1>7, <1>8, <1>9, StepKeepsReview

LEMMA ReadScanKeeps ==
    ASSUME ReviewInv, NEW a \in Loops, Review!ReadScan(a)
    PROVE  ReviewInv'
<1>0. ReviewTyped /\ at[a] = "portfolio_report" /\ UNCHANGED <<scans, decided, mine, link>> /\ a \in Review!Actors
  BY ReviewWords DEF ReviewInv, Review!ReadScan, Review!MayStart
<1>1. PICK i \in Review!Readable(link[a].scan, Len(scans)) : report' = [report EXCEPT ![a].scan = i]
  BY DEF Review!ReadScan
<1>2. link[a].scan # 0 => i \in {0, link[a].scan}
  BY ReviewWords DEF Review!Readable, Review!RunToShow
<1>3. at' = [at EXCEPT ![a] = "reporting"]
  BY DEF Review!ReadScan
<1>4. /\ DOMAIN at' = Review!Actors /\ \A b \in Loops : at'[b] \in LoopStages
      /\ at'[a] = "reporting"
      /\ \A b \in Review!Actors \ {a} : at'[b] = at[b] /\ mine'[b] = mine[b]
  BY <1>0, <1>3 DEF ReviewTyped, LoopStages
<1>5. /\ DOMAIN report' = Loops /\ \A b \in Loops : DOMAIN report'[b] = {"scan", "auto", "queue"}
      /\ \A b \in Loops \ {a} : report'[b] = report[b]
      /\ report'[a].scan = i
  <2> DEFINE r == [report[a] EXCEPT !.scan = i]
  <2>1. DOMAIN r = {"scan", "auto", "queue"} /\ r.scan = i
    BY <1>0 DEF ReviewTyped
  <2>2. report' = [report EXCEPT ![a] = r]
    BY <1>1
  <2> HIDE DEF r
  <2> QED  BY <1>0, <2>1, <2>2 DEF ReviewTyped
<1>6. ReviewTyped'
  BY <1>0, <1>4, <1>5 DEF ReviewTyped, Review!Actors
<1>7. Grows(a)
  BY <1>0, <1>4, <1>5, RunsAreKept
<1>8. OwnRun(a)'
  BY <1>4 DEF OwnRun
<1>9. Linked(a) /\ Reported(a)
  BY DEF ReviewInv
<1>10. Linked(a)'
  <2>1. PICK k, j : k = link[a].scan /\ j = link[a].auto
    OBVIOUS
  <2>2. k = link'[a].scan /\ j = link'[a].auto
    BY <1>0, <2>1
  <2>3. k # 0 => Complete(k)'
    BY <1>7, <1>9, <2>1, RunsStay DEF Linked
  <2>4. ASSUME j # 0 PROVE k # 0 /\ Covers(j, k)'
    BY <1>7, <1>9, <2>1, <2>4, RunsStay DEF Linked
  <2>5. ASSUME j # 0, NEW b \in Review!Actors, at'[b] = "deciding" PROVE mine'[b] # j
    BY <1>0, <1>4, <1>9, <2>1, <2>5 DEF Linked
  <2> QED  BY <1>4, <2>2, <2>3, <2>4, <2>5 DEF Linked, Review!Actors
<1>11. Reported(a)'
  BY <1>0, <1>2, <1>4, <1>5 DEF Reported
<1> QED  BY <1>0, <1>6, <1>7, <1>8, <1>10, <1>11, StepKeepsReview

LEMMA StoreReportKeeps ==
    ASSUME ReviewInv, NEW a \in Loops, Review!StoreReport(a)
    PROVE  ReviewInv'
<1>0. ReviewTyped /\ at[a] = "reporting" /\ UNCHANGED <<scans, decided, link>> /\ a \in Review!Actors
  BY ReviewWords DEF ReviewInv, Review!StoreReport
<1>a. PICK j \in Review!Readable(link[a].auto, Len(decided)), barred \in Barred :
          \E queue \in Review!Queues(Review!FromDecisions(Review!AutoItems(j), j),
                                     Review!FromScan(Review!ScanItems(report[a].scan), Review!AutoItems(j), barred)) :
              report' = [report EXCEPT ![a].auto = j, ![a].queue = queue]
  BY DEF Review!StoreReport
<1>1. PICK queue \in Review!Queues(Review!FromDecisions(Review!AutoItems(j), j),
                                   Review!FromScan(Review!ScanItems(report[a].scan), Review!AutoItems(j), barred)) :
          report' = [report EXCEPT ![a].auto = j, ![a].queue = queue]
  BY <1>a
<1>2. link[a].auto # 0 => j \in {0, link[a].auto}
  BY ReviewWords DEF Review!Readable, Review!RunToShow
<1>3. at' = [at EXCEPT ![a] = "done"] /\ mine' = [mine EXCEPT ![a] = 0]
  BY <1>0, AfterOfALoop, ReviewWords DEF Review!StoreReport, Review!EndStep
<1>4. /\ DOMAIN at' = Review!Actors /\ \A b \in Loops : at'[b] \in LoopStages
      /\ mine' \in [Review!Actors -> Nat]
      /\ at'[a] = "done" /\ mine'[a] = 0
      /\ \A b \in Review!Actors \ {a} : at'[b] = at[b] /\ mine'[b] = mine[b]
  BY <1>0, <1>3, Moved DEF LoopStages
<1>5. /\ DOMAIN report' = Loops /\ \A b \in Loops : DOMAIN report'[b] = {"scan", "auto", "queue"}
      /\ \A b \in Loops \ {a} : report'[b] = report[b]
      /\ report'[a].scan = report[a].scan /\ report'[a].queue = queue
  <2> DEFINE r == [report[a] EXCEPT !.auto = j, !.queue = queue]
  <2>1. DOMAIN r = {"scan", "auto", "queue"} /\ r.scan = report[a].scan /\ r.queue = queue
    BY <1>0 DEF ReviewTyped
  <2>2. report' = [report EXCEPT ![a] = r]
    BY <1>0, <1>1 DEF ReviewTyped
  <2> HIDE DEF r
  <2> QED  BY <1>0, <2>1, <2>2 DEF ReviewTyped
<1>6. ReviewTyped'
  BY <1>0, <1>4, <1>5 DEF ReviewTyped, Review!Actors
<1>7. Grows(a)
  BY <1>0, <1>4, <1>5, RunsAreKept
<1>8. OwnRun(a)'
  BY <1>4 DEF OwnRun
<1>9. Linked(a) /\ Reported(a)
  BY DEF ReviewInv
<1>10. Linked(a)'
  <2>1. PICK k, l : k = link[a].scan /\ l = link[a].auto
    OBVIOUS
  <2>2. k = link'[a].scan /\ l = link'[a].auto
    BY <1>0, <2>1
  <2>3. k # 0 => Complete(k)'
    BY <1>7, <1>9, <2>1, RunsStay DEF Linked
  <2>4. ASSUME l # 0 PROVE k # 0 /\ Covers(l, k)'
    BY <1>7, <1>9, <2>1, <2>4, RunsStay DEF Linked
  <2>5. ASSUME l # 0, NEW b \in Review!Actors, at'[b] = "deciding" PROVE mine'[b] # l
    BY <1>0, <1>4, <1>9, <2>1, <2>5 DEF Linked
  <2> QED  BY <1>4, <2>2, <2>3, <2>4, <2>5 DEF Linked, Review!Actors
<1>11. ASSUME report[a].scan # 0, link[a].scan # 0, link[a].auto # 0 PROVE Fits(a)'
  <2>1. PICK k, l : k = link[a].scan /\ l = link[a].auto
    OBVIOUS
  <2>2. k # 0 /\ l # 0 /\ report[a].scan = k /\ j \in {0, l} /\ Complete(k) /\ Covers(l, k)
    BY <1>0, <1>2, <1>9, <1>11, <2>1 DEF Linked, Reported
  <2> DEFINE shown == Review!ScanItems(report[a].scan)
             items == Review!AutoItems(j)
  <2>3. decided[l].items \in [Symbols -> Marks] /\ l \in DOMAIN decided
    <3>1. l \in DOMAIN decided
      BY <2>2 DEF Covers
    <3>2. decided[l] \in [of : Nat, items : [Symbols -> Marks]]
      BY <1>0, <3>1, RunOf DEF ReviewTyped
    <3> QED  BY <3>1, <3>2
  <2>4. /\ items \in [Symbols -> Marks] /\ (j = 0 => items = Review!NoItems)
        /\ j # 0 => items = decided[l].items
    BY <2>2, <2>3, ReviewWords DEF Review!AutoItems, Review!NoItems, Marks
  <2>5. \A s \in Symbols : scans[k].grades[s] = "decision_required" => shown[s] = "decision_required"
    BY <2>2, ReviewWords DEF Complete, Review!ScanItems
  <2>6. j \in Nat
    BY <1>0, <2>1, <2>2 DEF ReviewTyped
  <2> HIDE DEF shown, items
  <2>7. /\ \A e \in queue : e.auto \in {0, j}
        /\ \A s \in Symbols : shown[s] = "decision_required" =>
              \/ Listed(queue, s)
              \/ items[s] \in {"skipped", "selected"}
              \/ Cardinality(queue) = QueueLimit
    <3>1. queue \in Review!Queues(Review!FromDecisions(items, j), Review!FromScan(shown, items, barred))
      BY DEF shown, items
    <3>2. items \in [Symbols -> Marks]
      BY <2>4
    <3>3. j = 0 => items = Review!NoItems
      BY <2>4
    <3>4. \A e \in queue : e.auto \in {0, j}
      BY <2>6, <3>1, <3>2, <3>3, QueueFits
    <3>5. ASSUME NEW s \in Symbols, shown[s] = "decision_required"
          PROVE  \/ Listed(queue, s)
                 \/ items[s] \in {"skipped", "selected"}
                 \/ Cardinality(queue) = QueueLimit
      BY <2>6, <3>1, <3>2, <3>3, <3>5, QueueFits
    <3> QED  BY <3>4, <3>5
  <2>8. ASSUME NEW s \in Symbols, scans[k].grades[s] = "decision_required"
        PROVE  \/ Listed(queue, s)
               \/ decided[l].items[s] \in {"skipped", "selected"}
               \/ Cardinality(queue) = QueueLimit
    <3>1. CASE j # 0
      BY <2>4, <2>5, <2>7, <2>8, <3>1
    <3>2. CASE j = 0
      <4>1. items[s] = "none"
        BY <2>4, <3>2 DEF Review!NoItems
      <4> QED  BY <2>5, <2>7, <2>8, <4>1
    <3> QED  BY <3>1, <3>2
  <2>9. k = link'[a].scan /\ l = link'[a].auto /\ scans' = scans /\ decided' = decided
    BY <1>0, <2>1
  <2> QED  BY <1>5, <2>2, <2>7, <2>8, <2>9 DEF Fits
<1>12. Reported(a)'
  BY <1>0, <1>4, <1>5, <1>11 DEF Reported
<1> QED  BY <1>0, <1>6, <1>7, <1>8, <1>10, <1>12, StepKeepsReview

LEMMA ReviewBegins == Review!Init => ReviewInv
<1> SUFFICES ASSUME Review!Init PROVE ReviewInv
  OBVIOUS
<1>1. /\ scans = <<>> /\ decided = <<>>
      /\ \A a \in Review!Actors : at[a] = (IF a \in Loops THEN "watchtower" ELSE "idle") /\ mine[a] = 0
      /\ \A a \in Loops : link[a].scan = 0 /\ link[a].auto = 0 /\ report[a].scan = 0
  BY ReviewWords DEF Review!Init, Review!NoReport
<1>2. ReviewTyped
  BY <1>1, ReviewWords DEF Review!Init, ReviewTyped, LoopStages, Review!NoReport
<1>3. \A a \in Review!Actors : at[a] \notin {"scanning", "deciding", "reporting", "done"}
  BY <1>1
<1>4. Apart /\ \A a \in Review!Actors : OwnRun(a)
  BY <1>3 DEF Apart, OwnRun
<1>5. \A a \in Loops : Linked(a) /\ Reported(a)
  BY <1>1, <1>3, ReviewWords DEF Linked, Reported
<1> QED  BY <1>2, <1>4, <1>5 DEF ReviewInv

LEMMA ReviewStaysTrue == ReviewInv /\ [MCNext]_all => ReviewInv'
<1> SUFFICES ASSUME ReviewInv, [MCNext]_all PROVE ReviewInv'
  OBVIOUS
<1>1. ASSUME UNCHANGED review PROVE ReviewInv'
  BY <1>1 DEF review, ReviewInv, ReviewTyped, Apart, OwnRun, Linked, Reported, Fits, Listed, Complete, Covers,
              Review!Actors
<1>2. ASSUME Review!Next PROVE ReviewInv'
  BY <1>2, CreateScanKeeps, CreateItemKeeps, EndScanKeeps, CreateDecisionsKeeps, DecideKeeps, EndDecisionsKeeps,
     StepRaisesKeeps, ReadScanKeeps, StoreReportKeeps DEF Review!Next
<1> QED  BY <1>1, <1>2 DEF MCNext, GraphStep, OnePassStep, ReviewStep, all

(* PortfolioReview: the report of a loop shows the decisions on its scan   *)
(* (daily_loop/service.py:164-205, portfolio_review/service.py:154-178).   *)
THEOREM DecisionsFitTheScanAlways == MCSpec => []DecisionsFitTheScan
<1>1. MCInit => ReviewInv
  BY ReviewBegins DEF MCInit
<1>2. ReviewInv => DecisionsFitTheScan
  <2> SUFFICES ASSUME ReviewInv, NEW a \in Loops, at[a] = "done", report[a].scan # 0,
                      link[a].scan # 0, link[a].auto # 0
               PROVE  /\ \A e \in report[a].queue : e.auto # 0 => decided[e.auto].of = report[a].scan
                      /\ \A s \in Symbols : scans[link[a].scan].grades[s] = "decision_required" =>
                            \/ Review!Queued(a, s)
                            \/ decided[link[a].auto].items[s] \in {"skipped", "selected"}
                            \/ Review!Cardinality(report[a].queue) = QueueLimit
    BY ReviewWords DEF DecisionsFitTheScan, Review!DecisionsFitTheScan
  <2>1. Fits(a) /\ Covers(link[a].auto, link[a].scan)
    BY DEF ReviewInv, Reported, Linked
  <2>2. \A s : Review!Queued(a, s) <=> Listed(report[a].queue, s)
    BY DEF Review!Queued, Listed
  <2> QED  BY <2>1, <2>2, ReviewWords DEF Fits, Covers
<1> QED  BY <1>1, <1>2, ReviewStaysTrue, PTL DEF MCSpec

=============================================================================
