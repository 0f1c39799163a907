--------------------------- MODULE MCTradeDecision ---------------------------
(* Evidence and answers for TradeDecision.  The packs are the union of     *)
(* slices, each of which varies some of the cards together and keeps the   *)
(* others at values that refuse nothing.                                   *)
(*                                                                         *)
(* The one-pass decision, and the portfolio report that hands decisions    *)
(* on, share no state with the graph's and are checked beside it: part     *)
(* says which of the three moves in a behavior.                            *)
EXTENDS TradeDecision, FiniteSets

CONSTANTS
    Cases, Cards, Drafts,                                           \* of OnePassDecision
    Symbols, Loops, Users, Gradings, Barred, QueueLimit, MaxRuns    \* of PortfolioReview

VARIABLES
    part,
    facts, cards, draft, verdict, turn,
    scans, decided, at, mine, link, report

Steady == [d \in Dimensions |-> IF d = "guidance" THEN -1 ELSE 0]   \* raised guidance: green
Change(d) == [Steady EXCEPT ![d] = 1]
Changes == {[d \in Dimensions |-> 0], Change("revenue"), Change("eps")}
    \cup {[d \in Dimensions |-> IF d \in worse THEN 1 ELSE 0] :
              worse \in {{"segment", "eps"}, {"segment", "eps", "cash"}}}

GoodTrend == TrendCard("bullish", 12, TRUE, TRUE, {})
GoodEvent == EventCard("bullish", 4, TRUE, FALSE, "strong", FALSE)
GoodFundamental(thesis) == FundamentalCard(20, 15, TRUE, TRUE, Steady, thesis)

Trends ==
    {FallbackTrend, GoodTrend, TrendCard("neutral", 12, TRUE, FALSE, {}), TrendCard("bearish", 1, TRUE, TRUE, {}),
     TrendCard("neutral", 8, TRUE, TRUE, {"below_ma200", "below_ma20"}),
     TrendCard("neutral", 8, TRUE, TRUE, {"below_falling_ma50", "lags_one"}),
     TrendCard("neutral", 8, TRUE, TRUE, {"heavy_volume_drop"})}

Fundamentals(thesis) ==
    {FallbackFundamental, DeterministicFundamental(TRUE, Absent, TRUE), FundamentalCard(20, Absent, TRUE, FALSE, Steady, thesis)}
    \cup {FundamentalCard(20, 15, TRUE, TRUE, change, thesis) : change \in Changes}
Events == {FallbackEvent, GoodEvent, DeterministicEvent(TRUE), EventCard("bearish", 1, TRUE, FALSE, "weak", FALSE)}

Assessments ==
    {NoAssessment}
    \cup {Assessment(max, 100, "underweight", bias, FALSE) :
              max \in {35, 200}, bias \in {"allow_add", "prefer_pullback_add"}}
    \cup {Assessment(200, 100, "underweight", "hold_no_add", FALSE),
          Assessment(200, 100, "no_position", "allow_add", TRUE),
          Assessment(150, 30, "overweight", "unknown", FALSE),
          Assessment(0, 0, "forbidden", "avoid", FALSE)}

(* A sub-agent fell back when it has no data or its card was built without *)
(* the model; an account fit card that could not be built is not counted.  *)
Deterministic == {DeterministicFundamental(TRUE, Absent, TRUE), DeterministicEvent(TRUE)}
FellBack(trend, fund, event) ==
    Cardinality({c \in {<<"trend", trend>>, <<"fund", fund>>, <<"event", event>>} :
                    HasNoData(c[2]) \/ c[2] \in Deterministic})

Pack(position, liquid, review, fits, trend, fund, event, ai, thesis, panic) ==
    LET fit == IF fits THEN FitCard(liquid, position, review) ELSE FallbackFit
    IN [holding |-> position > 0, position |-> position, liquid |-> liquid, review |-> review,
        fit |-> fit, trend |-> trend, fund |-> fund, event |-> event, ai |-> ai, thesis |-> thesis,
        panicWords |-> panic, fallbacks |-> FellBack(trend, fund, event)]

(* Slice 1: the account, the assessment and the thesis.                    *)
AccountPacks ==
    {Pack(position, liquid, review, TRUE, GoodTrend, GoodFundamental(thesis), event, ai, thesis, FALSE) :
        position \in {0, 32, 120}, liquid \in {0, 400}, review \in {"none", "below_40"},
        event \in {GoodEvent, DeterministicEvent(TRUE)}, ai \in Assessments,
        thesis \in {t \in Theses : t.role \in {"unknown", "btc_proxy", "core_balance"}}}
    \cup {Pack(position, 400, "none", FALSE, GoodTrend, GoodFundamental(DefaultThesis), GoodEvent, NoAssessment,
               DefaultThesis, panic) : position \in {0, 32, 600}, panic \in BOOLEAN}

(* Slice 2: the public evidence, with and without a permission to buy.     *)
EvidencePacks ==
    UNION {{Pack(position, 400, "none", TRUE, trend, fund, event, ai, thesis, panic) :
                position \in {0, 32}, trend \in Trends, fund \in Fundamentals(thesis), event \in Events,
                ai \in {NoAssessment, Assessment(200, 100, "underweight", "allow_add", FALSE)}, panic \in {FALSE}} :
           thesis \in {t \in Theses : t.role = "core_growth"}}

(* Slice 3: a question that reads as panic.                                *)
PanicPacks ==
    UNION {{Pack(32, 100, "tagged", TRUE, trend, fund, GoodEvent, NoAssessment, thesis, TRUE) :
                trend \in Trends, fund \in Fundamentals(thesis)} : thesis \in RegisteredTheses}

MCPacks == AccountPacks \cup EvidencePacks \cup PanicPacks

Answer(stance, action, target, invalidation, ratio, downside) ==
    [stance |-> stance, action |-> action, target |-> target, invalidation |-> invalidation,
     ratio |-> ratio, downside |-> downside]

MCAnswers ==
    {Answer("bullish", action, 45, TRUE, 200, 10) : action \in Actions}
    \cup {Answer(stance, action, 100, TRUE, 200, 40) :
              stance \in {"bearish", "insufficient_data"}, action \in {"add_right_side", "sell"}}
    \cup {Answer("neutral", action, 100, invalidation, ratio, 40) :
              action \in {"add_small", "add_right_side"}, invalidation \in BOOLEAN, ratio \in {Absent, 90, 120}}
    \cup {Answer("neutral", action, Absent, TRUE, 150, 10) : action \in {"reduce_now", "add_batch"}}
    \cup {Answer("bullish", "add_right_side", 45, FALSE, 200, 10)}

-----------------------------------------------------------------------------
OnePass == INSTANCE OnePassDecision WITH stage <- turn

(* A thesis is one of the registry or the default; an answer is validated  *)
(* field by field before it becomes a card, no card of this path has used  *)
(* a tool, and its level and status stay unknown.                          *)
IsCard(a, card) ==
    /\ a = "fit" => DOMAIN card = {"level"}
    /\ a # "fit" => card.score \in Int /\ card.quality = "low"
    /\ a = "trend" => DOMAIN card = {"stance", "score", "quality", "level"} /\ card.level = "unknown"
    /\ a = "fund" =>
          /\ DOMAIN card = {"stance", "score", "quality", "pe", "growth", "status", "broken"}
          /\ card.pe \in Int /\ card.growth \in Int /\ card.status = "unknown" /\ card.broken = FALSE
    /\ a = "event" => DOMAIN card = {"stance", "score", "quality", "strength", "sentiment", "quiet"}

IsDraft(d) ==
    /\ DOMAIN d = {"action", "confidence", "max", "current", "target", "invalidation", "panicWords", "readable"}
    /\ d.max \in Int /\ d.current \in Int /\ d.target \in Int
    /\ d.invalidation \in BOOLEAN /\ d.panicWords \in BOOLEAN /\ d.readable \in BOOLEAN

ASSUME OnePassAssumption ==
    /\ \A f \in Cases : f.thesis \in Theses /\ f.seen \in BOOLEAN /\ f.panicWords \in BOOLEAN /\ f.price \in Int
    /\ \A a \in {"fit", "trend", "fund", "event"} : \A card \in Cards[a] : IsCard(a, card)
    /\ \A d \in Drafts : IsDraft(d)

(* What the database says of the symbol: never seen, sold, or held, and    *)
(* then with a price.                                                      *)
Case(seen, held, price, thesis, panic) ==
    [seen |-> seen, held |-> held, price |-> price, thesis |-> thesis, panicWords |-> panic]

Watched == {t \in Theses : t.role \in {"unknown", "core_growth", "btc_proxy"}}

MCCases ==
    {Case(FALSE, FALSE, 0, thesis, FALSE) : thesis \in Watched}
    \cup {Case(TRUE, TRUE, 10, thesis, FALSE) : thesis \in Watched}
    \cup {Case(TRUE, held, 10, DefaultThesis, TRUE) : held \in BOOLEAN}

(* The words of the cards do not depend on which of them are chosen.       *)
Card == INSTANCE OnePassDecision WITH stage <- turn, Cards <- {}

MCCards ==
    [a \in Card!Agents |->
        CASE a = "fit" -> {Card!FitAnswer("good"), Card!FitAnswer("concentrated")}
          [] a = "trend" -> {Card!TrendAnswer("bullish", 12), Card!TrendAnswer("neutral", 1),
                             Card!TrendAnswer("bearish", 1), Card!TrendAnswer("neutral", Card!Unreadable)}
          [] a = "fund" -> {Card!FundamentalAnswer("bullish", 20, 15, 12), Card!FundamentalAnswer("neutral", 20, 15, 0),
                            Card!FundamentalAnswer("neutral", 20, 15, 30), Card!FundamentalAnswer("bearish", 1, 90, 0)}
          [] OTHER -> {Card!EventAnswer("bullish", 4, "strong", "positive", FALSE),
                       Card!EventAnswer("insufficient_data", 4, "strong", "positive", FALSE),
                       Card!EventAnswer("bearish", 1, "weak", "negative", FALSE),
                       Card!EventAnswer("neutral", 3, "neutral", "neutral", TRUE)}]

Drafted(action, confidence, max, current, target, invalidation) ==
    [action |-> action, confidence |-> confidence, max |-> max, current |-> current, target |-> target,
     invalidation |-> invalidation, panicWords |-> FALSE, readable |-> TRUE]

(* "buy" is no action of the vocabulary; the answer's text is not checked. *)
MCDrafts ==
    {Drafted(action, "high", 200, 20, 60, TRUE) : action \in Actions \cup {"buy"}}
    \cup {Drafted(action, "medium", 50, current, 60, invalidation) :
              action \in AddLike, current \in {Absent, 20, 50}, invalidation \in BOOLEAN}
    \cup {Drafted("add_small", "low", Absent, 20, 60, TRUE), Drafted("add_on_pullback", "high", 5000, 80, 60, TRUE),
           [Drafted("add", "high", 200, 20, 60, TRUE) EXCEPT !.readable = FALSE],
           [Drafted("hold", "high", 200, 20, 60, TRUE) EXCEPT !.panicWords = TRUE]}

-----------------------------------------------------------------------------
Review == INSTANCE PortfolioReview

ASSUME ReviewAssumption == IsFiniteSet(Symbols) /\ Loops \intersect Users = {} /\ QueueLimit \in Nat

(* Scans in which one or both of two symbols require a decision.           *)
Grades == {"none", "attention_required", "decision_required"}
MCGradings == {g \in [Symbols -> Grades] : g[CHOOSE s \in Symbols : TRUE] = "decision_required"}
MCBarred == {{}, {CHOOSE s \in Symbols : TRUE}}

-----------------------------------------------------------------------------
onePass == <<facts, cards, draft, verdict, turn>>
review == <<scans, decided, at, mine, link, report>>
all == <<part, vars, onePass, review>>

SomePack == Pack(0, 400, "none", FALSE, GoodTrend, GoodFundamental(DefaultThesis), GoodEvent, NoAssessment,
                 DefaultThesis, FALSE)

(* The parts that do not move begin in one state.                        *)
MCInit ==
    /\ part \in {"graph", "one pass", "review"}
    /\ Init /\ OnePass!Init /\ Review!Init
    /\ part # "one pass" => facts = Case(FALSE, FALSE, 0, DefaultThesis, FALSE)
    /\ part # "graph" => pack = SomePack

GraphStep == part = "graph" /\ Next /\ UNCHANGED <<part, onePass, review>>
OnePassStep == part = "one pass" /\ OnePass!Next /\ UNCHANGED <<part, vars, review>>
ReviewStep == part = "review" /\ Review!Next /\ UNCHANGED <<part, vars, onePass>>

MCNext == GraphStep \/ OnePassStep \/ ReviewStep

MCSpec == MCInit /\ [][MCNext]_all

(* See OnePassDecision.                                                    *)
AddsAsTheGraphDoes == OnePass!AddsAsTheGraphDoes
OnePassAddIsEarned == OnePass!OnePassAddIsEarned

(* See PortfolioReview.                                                    *)
DecisionsFitTheScan == part = "review" => Review!DecisionsFitTheScan

=============================================================================
