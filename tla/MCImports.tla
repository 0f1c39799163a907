------------------------------ MODULE MCImports ------------------------------
(***************************************************************************)
(* The import of Flex statements, and the symbol universe, which follows   *)
(* the holdings they bring.  They share no state, so each is checked by    *)
(* itself: part says which of them moves in a behavior, and the other      *)
(* stays where it begins.  Files 1 and 2 are what one query saved on two   *)
(* days: a statement also carries the account value of the day before.     *)
(* File 3 is one that a user put there, with another extension.            *)
(* The rows that overlapping statements leave in the database, and the     *)
(* cost basis of the trades among them, are the third and the fourth part; *)
(* the fifth is the watchtower above a universe of its own.                *)
(***************************************************************************)
EXTENDS FlexImport, Integers, TLC

CONSTANTS
    Symbols, Users, Syncs,                              \* of Universe
    WatchedSymbols, WatchUsers, Roles, Metrics,         \* of Watchtower
    Archives, MaxFailures,                              \* of Ledger
    Days, Quantities, Prices, Multiplier, MaxTrades     \* of Fifo

VARIABLES
    part,
    rows, held, pc, edit, of, pending, work, stale,
    where, listed, scanned, graded, run, items, read, known, chosen, lapsed, back,
    files, at, write, latest, failures, complete, tried, snapshots, positions, trades, flows,
    option, day, count, seen, lots, realized, remaining, price, owed, shares, gain, odd

PassesAreAlike == Permutations(Passes)

MCRows == {"account1", "account2", "trades2"}
MCInsertOnly == {"trades2"}
MCWrites == <<<<"account1">>, <<"account2", "trades2", "account1">>, <<"account1">>>>
MCPattern == <<1, 1, 2>>

(* Archives of two statements, of the same day or of two: a trade that is  *)
(* confirmed in one file and listed in another, two trades of a day        *)
(* without ids, and flows with and without one.                            *)
ConfirmedTrade == [day |-> 1, id |-> 1, fill |-> "a", form |-> "confirm", foreign |-> TRUE]
ListedTrade == [ConfirmedTrade EXCEPT !.form = "trade"]
NamelessTrade == [ListedTrade EXCEPT !.id = 0, !.foreign = FALSE]
FlowOf(id) == [id |-> id, flow |-> "a"]

Payloads == {
    <<<<>>, <<FlowOf(0), FlowOf(1)>>>>,
    <<<<ConfirmedTrade>>, <<>>>>,
    <<<<ListedTrade>>, <<FlowOf(1)>>>>,
    <<<<NamelessTrade, [NamelessTrade EXCEPT !.fill = "b"]>>, <<>>>>}

Statements(csv, days, navs, covers) ==
    {[csv |-> csv, day |-> d, nav |-> n, covers |-> c, holds |-> h, trades |-> p[1], flows |-> p[2]] :
        d \in days, n \in navs, c \in covers, h \in BOOLEAN, p \in Payloads}

(* A pass takes the XML files first.                                       *)
MCArchives ==
    {<<a, b>> : a \in Statements(FALSE, {1}, {"empty", "full", "zeros"}, {{}}),
                b \in Statements(FALSE, {1, 2}, {"absent", "partial"}, {{}, {1}})
                      \union Statements(TRUE, {1}, {"absent", "empty"}, {{}})}

(* What a scan may find: a calm symbol, and one or two numbers that are    *)
(* not, on both sides of the limits of the rules; or no prices at all.     *)
Calm == [down |-> 0, up |-> 1, dd20 |-> -2, dd60 |-> -2, r1 |-> 1, r5 |-> 1, r20 |-> 1, pnl |-> 8, weight |-> 5]
MCMetrics ==
    {Calm, [down |-> 0, up |-> 0, dd20 |-> 1000, dd60 |-> 1000, r1 |-> 1000, r5 |-> 1000, r20 |-> 1000,
            pnl |-> 8, weight |-> 12]}
    \union {[Calm EXCEPT !.down = d, !.dd20 = x] : d \in {3, 5, 7}, x \in {-9, -12, -15}}
    \union {[Calm EXCEPT !.up = n, !.pnl = x] : n \in {5, 8}, x \in {8, 100, 200}}
    \union {[Calm EXCEPT !.dd60 = x, !.r20 = y] : x \in {-19, -20, -25}, y \in {-20, -18, -12, 30}}
    \union {[Calm EXCEPT !.r1 = -6], [Calm EXCEPT !.r5 = -8], [Calm EXCEPT !.r5 = 15],
             [Calm EXCEPT !.pnl = -35], [Calm EXCEPT !.pnl = 4], [Calm EXCEPT !.pnl = -1],
             [Calm EXCEPT !.weight = 15], [Calm EXCEPT !.r20 = 30, !.pnl = 100]}
MCRoles == {"ai_compute", "fake_ai_story", "non_ai"}

Listed == INSTANCE Universe WITH todo <- pending
Watch == INSTANCE Watchtower WITH Symbols <- WatchedSymbols, Users <- WatchUsers, todo <- pending,
             at <- where, seen <- read
Books == INSTANCE Ledger WITH archive <- files, next <- write, last <- latest, marked <- complete
Basis == INSTANCE Fifo

ASSUME ActorsAssumption == Users \intersect Syncs = {} /\ WatchUsers \intersect Syncs = {}

ASSUME LedgerAssumption == \A a \in Archives : Books!IsArchive(a)

(* Shares, contracts and prices are whole numbers.                         *)
ASSUME FifoAssumption == Quantities \subseteq Int /\ Prices \subseteq Int /\ Multiplier \in Int

universe == <<rows, held, pc, edit, of, pending, work, stale>>
watch == <<where, listed, scanned, graded, run, items, read, known, chosen, lapsed, back>>
ledger == <<files, at, write, latest, failures, complete, tried, snapshots, positions, trades, flows>>
fifo == <<option, day, count, seen, lots, realized, remaining, price, owed, shares, gain, odd>>
all == <<part, vars, universe, watch, ledger, fifo>>

(* The parts that do not move begin in one state.                          *)
MCInit ==
    /\ part \in {"import", "universe", "watch", "ledger", "fifo"}
    /\ Init /\ Watch!WatchInit
    /\ IF part = "watch" THEN Watch!Init ELSE Listed!Init
    /\ part \notin {"universe", "watch"} =>
          /\ held = {} /\ rows = [s \in Symbols |-> Listed!Absent]
          /\ of = [u \in Users |-> CHOOSE s \in Symbols : TRUE]
    /\ files \in IF part = "ledger" THEN Archives ELSE {CHOOSE a \in Archives : TRUE}
    /\ Books!Init
    /\ option \in IF part = "fifo" THEN BOOLEAN ELSE {FALSE}
    /\ day \in IF part = "fifo" THEN Days ELSE {CHOOSE d \in Days : TRUE}
    /\ Basis!Init

ImportStep == part = "import" /\ Next /\ UNCHANGED <<part, universe, watch, ledger, fifo>>
UniverseStep == part = "universe" /\ Listed!Next /\ UNCHANGED <<part, vars, watch, ledger, fifo>>
WatchStep == part = "watch" /\ Watch!WatchNext /\ UNCHANGED <<part, vars, ledger, fifo>>
LedgerStep == part = "ledger" /\ Books!Next /\ UNCHANGED <<part, vars, universe, watch, fifo>>
FifoStep == part = "fifo" /\ Basis!Next /\ UNCHANGED <<part, vars, universe, watch, ledger>>

MCNext == ImportStep \/ UniverseStep \/ WatchStep \/ LedgerStep \/ FifoStep

MCSpec == MCInit /\ [][MCNext]_all

(* See ExclusionIsKept in Universe.                                        *)
ExclusionIsKept == [][part = "universe" => Listed!KeepsExclusions]_all

(* See OnlyMovedAreMissed in Watchtower.                                   *)
OnlyMovedAreMissed == part = "watch" => Watch!OnlyMovedAreMissed

(* See RequiredIsOffered in Watchtower.                                    *)
RequiredIsOffered == part = "watch" => Watch!RequiredIsOffered

(* See FailuresLeaveNoTrace in Ledger.                                     *)
FailuresLeaveNoTrace == part = "ledger" => Books!FailuresLeaveNoTrace

(* See LotsAreTheHolding in Fifo.                                          *)
LotsAreTheHolding == part = "fifo" => Basis!LotsAreTheHolding
=============================================================================
