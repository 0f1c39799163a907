----------------------------- MODULE Watchtower -----------------------------
(***************************************************************************)
(* The watchtower and the selection of automatic decisions, above the      *)
(* symbol universe.  A scan lists the watched kinds of symbols one after   *)
(* the other, grades every symbol by the trigger rules, stores the run and *)
(* then its items.  A selection reads a run and its items, lists all kinds *)
(* of symbols one after the other and takes the items that require a       *)
(* decision and that neither their row nor a rule of the selector refuses. *)
(* While they read, users edit rows and holdings are synchronised.         *)
(*                                                                         *)
(* Of the prices and of the position the model keeps the numbers that the  *)
(* rules test, in percent.  Severity follows status: low, medium and high  *)
(* go with watch, attention and decision.                                  *)
(***************************************************************************)
EXTENDS Universe, Integers, Sequences

CONSTANTS
    Roles,        \* what a row may say of the symbol's part in the theme
    Metrics       \* what a scan may find

VARIABLES
    at,           \* per reader: its stage
    listed,       \* per reader: how many kinds it has listed
    scanned,      \* the rows the scan has listed
    graded,       \* what the rules made of them
    run,          \* is the run stored?
    items,        \* its stored items
    seen,         \* the items the selection has read
    known,        \* the rows it has listed
    chosen,       \* the symbols it takes
    lapsed,       \* per reader: see Lapse
    back          \* per reader: symbols that moved to a kind it had listed

watch == <<at, listed, scanned, graded, run, items, seen, known, chosen, lapsed, back>>

Readers == {"scan", "select"}

(* DEFAULT_WATCHTOWER_UNIVERSE_TYPES, and the list in run_auto_decisions.  *)
ScanKinds == <<"holding", "watchlist", "candidate">>
AllKinds == <<"holding", "watchlist", "candidate", "excluded">>
KindsOf(r) == IF r = "scan" THEN ScanKinds ELSE AllKinds

-----------------------------------------------------------------------------
(* The trigger rules.                                                      *)

None == 1000                              \* no such number
Le(x, limit) == x <= limit
Ge(x, limit) == x # None /\ x >= limit

Rank == [normal |-> 0, watch |-> 1, attention_required |-> 2, decision_required |-> 3]

Held == "holding_decision"
Entry == "entry_decision"
NoHint == "none"

Require(hint) == {[status |-> "decision_required", hint |-> hint]}
Attend == {[status |-> "attention_required", hint |-> NoHint]}
Observe == {[status |-> "watch", hint |-> NoHint]}

ConsecutiveDownDays(holding, m) ==
    IF holding
    THEN IF m.down >= 7 THEN Require(Held) ELSE IF m.down >= 5 THEN Attend ELSE IF m.down >= 3 THEN Observe ELSE {}
    ELSE IF m.down >= 7 /\ Le(m.dd20, -12) THEN Require(Entry)
         ELSE IF m.down >= 7 THEN Attend ELSE IF m.down >= 5 THEN Observe ELSE {}

ConsecutiveUpDays(holding, m) ==
    IF holding /\ m.up >= 8
    THEN IF Ge(m.pnl, 100) \/ Ge(m.weight, 15) THEN Require(Held) ELSE Attend
    ELSE IF m.up >= 5 THEN Observe ELSE {}

DrawdownFromHigh(holding, m) ==
    IF holding
    THEN IF Le(m.dd60, -25) THEN Require(Held)
         ELSE IF Le(m.dd20, -15) THEN Attend ELSE IF Le(m.dd20, -10) THEN Observe ELSE {}
    ELSE IF Le(m.dd60, -20) THEN Require(Entry) ELSE IF Le(m.dd20, -12) THEN Attend ELSE {}

(* A plausible bug, used as a mutant only: the hint of a holding.          *)
AbnormalReturn_Held(holding, m) ==
    IF Le(m.r20, -20) THEN Require(Held) ELSE {}

AbnormalReturn(holding, m) ==
    (IF Le(m.r20, -20) THEN Require(IF holding THEN Held ELSE Entry)
     ELSE IF Ge(m.r20, 30) THEN IF holding /\ Ge(m.pnl, 100) THEN Require(Held) ELSE Attend
     ELSE {})
    \union (IF Le(m.r1, -6) \/ Ge(m.r1, 8) \/ Le(m.r5, -10) \/ Ge(m.r5, 15) THEN Attend ELSE {})

(* large_unrealized_gain, large_unrealized_loss and position_weight_high.  *)
OfThePosition(m) ==
    IF Ge(m.pnl, 200) \/ Le(m.pnl, -35) \/ Ge(m.weight, 15) THEN Require(Held)
    ELSE IF Ge(m.pnl, 100) \/ Le(m.pnl, -20) \/ Ge(m.weight, 10) THEN Attend ELSE {}

BlockedRoles == {"fake_ai_story", "non_ai"}

Pullback(role, m) ==
    IF role \in BlockedRoles THEN {}
    ELSE IF Le(m.r20, -18) \/ Le(m.dd60, -25) THEN Require(Entry)
    ELSE IF Le(m.r5, -8) \/ Le(m.r20, -12) THEN Attend ELSE {}

Misaligned(role) == CASE role = "fake_ai_story" -> Attend [] role = "non_ai" -> Observe [] OTHER -> {}

Reasons(kind, role, m) ==
    LET holding == kind = "holding"
    IN ConsecutiveDownDays(holding, m) \union ConsecutiveUpDays(holding, m)
       \union DrawdownFromHigh(holding, m) \union AbnormalReturn(holding, m)
       \union (IF holding THEN OfThePosition(m) ELSE Pullback(role, m) \union Misaligned(role))

(* The gravest status, and the hint of the first reason that has one; all  *)
(* reasons of a symbol that have one have the same.                        *)
Item(kind, role, m) ==
    LET reasons == Reasons(kind, role, m)
        gravest == IF reasons = {} THEN "normal"
                   ELSE (CHOOSE r \in reasons : \A q \in reasons : Rank[q.status] <= Rank[r.status]).status
        hints == {r.hint : r \in reasons} \ {NoHint}
    IN [kind |-> kind, role |-> role, status |-> gravest,
        hint |-> IF hints # {} THEN CHOOSE h \in hints : TRUE ELSE NoHint]

NoItem == [kind |-> "none", role |-> "none", status |-> "none", hint |-> NoHint]

(* _position_unrealized_pct: positions state their gain in percent, and a  *)
(* number of at most 5 is taken for a multiple of the cost.                *)
ReadAs(pnl) == IF pnl \in -5 .. 5 THEN 100 * pnl ELSE pnl

(* Without a position the numbers that come from it are missing.           *)
OfScan(position, m) ==
    IF position THEN [m EXCEPT !.pnl = ReadAs(@)] ELSE [m EXCEPT !.pnl = None, !.weight = None]

Items(kind, position) == {Item(kind, role, OfScan(position, m)) : role \in Roles, m \in Metrics}

-----------------------------------------------------------------------------
(* The universe, and what the readers miss of it.  A row lapses for the    *)
(* scan when it is not to be watched, and for the selection when it may    *)
(* be decided on: a symbol that has not lapsed was all the while to be     *)
(* found, or all the while to be refused.                                  *)

Watched(row) == row.kind \in {"holding", "watchlist", "candidate"} /\ row.enabled

Lapse(r, row) == IF r = "scan" THEN ~Watched(row) ELSE Decidable(row)

Before(r, kind) == kind \in {KindsOf(r)[i] : i \in 1 .. listed[r]}

UniverseStep ==
    /\ Next
    /\ lapsed' = [r \in Readers |-> IF at[r] # "listing" THEN lapsed[r]
                                    ELSE lapsed[r] \union {s \in Symbols : Lapse(r, rows'[s])}]
    /\ back' = [r \in Readers |-> IF at[r] # "listing" THEN back[r]
                                  ELSE back[r] \union {s \in Symbols : /\ rows'[s] # rows[s]
                                                                       /\ ~Before(r, rows[s].kind)
                                                                       /\ Before(r, rows'[s].kind)}]
    /\ UNCHANGED <<at, listed, scanned, graded, run, items, seen, known, chosen>>

To(r, stage) == at' = [at EXCEPT ![r] = stage]
SameUniverse == UNCHANGED vars

StartListing(r) ==
    /\ lapsed' = [lapsed EXCEPT ![r] = {s \in Symbols : Lapse(r, rows[s])}]
    /\ To(r, "listing")

(* What one query adds to the rows a reader has; the last row of a symbol  *)
(* counts.                                                                 *)
WithKind(got, kind, enabled) ==
    [s \in Symbols |-> IF rows[s].kind = kind /\ rows[s].enabled \in enabled THEN rows[s] ELSE got[s]]

NextKind(r) == KindsOf(r)[listed[r] + 1]

ListKind(r) ==
    /\ at[r] = "listing" /\ listed[r] < Len(KindsOf(r))
    /\ listed' = [listed EXCEPT ![r] = @ + 1]

-----------------------------------------------------------------------------
(* run_watchtower.                                                         *)

WatchInit ==
    /\ at = [r \in Readers |-> "idle"]
    /\ listed = [r \in Readers |-> 0]
    /\ scanned = [s \in Symbols |-> Absent]
    /\ graded = [s \in Symbols |-> NoItem]
    /\ run = FALSE
    /\ items = [s \in Symbols |-> NoItem]
    /\ seen = [s \in Symbols |-> NoItem]
    /\ known = [s \in Symbols |-> Absent]
    /\ chosen = {}
    /\ lapsed = [r \in Readers |-> {}]
    /\ back = [r \in Readers |-> {}]

Scan ==
    /\ at["scan"] = "idle" /\ StartListing("scan")
    /\ SameUniverse /\ UNCHANGED <<listed, scanned, graded, run, items, seen, known, chosen, back>>

(* A plausible bug, used as a mutant only: always the same list.           *)
ScanKind_Holdings ==
    /\ ListKind("scan")
    /\ scanned' = WithKind(scanned, "holding", {TRUE})
    /\ SameUniverse /\ UNCHANGED <<at, graded, run, items, seen, known, chosen, lapsed, back>>

ScanKind ==
    /\ ListKind("scan")
    /\ scanned' = WithKind(scanned, NextKind("scan"), {TRUE})
    /\ SameUniverse /\ UNCHANGED <<at, graded, run, items, seen, known, chosen, lapsed, back>>

(* The positions are read once, then the prices of symbol after symbol.    *)
Grade ==
    /\ at["scan"] = "listing" /\ listed["scan"] = Len(ScanKinds)
    /\ \E g \in [Symbols -> UNION {Items(k, h) : k \in {ScanKinds[i] : i \in 1 .. 3}, h \in BOOLEAN} \union {NoItem}] :
          /\ \A s \in Symbols : IF scanned[s] = Absent THEN g[s] = NoItem
                                ELSE g[s] \in Items(scanned[s].kind, s \in held)
          /\ graded' = g
    /\ To("scan", "graded")
    /\ SameUniverse /\ UNCHANGED <<listed, scanned, run, items, seen, known, chosen, lapsed, back>>

CreateRun ==
    /\ at["scan"] = "graded" /\ run' = TRUE /\ To("scan", "writing")
    /\ SameUniverse /\ UNCHANGED <<listed, scanned, graded, items, seen, known, chosen, lapsed, back>>

CreateItem(s) ==
    /\ at["scan"] = "writing" /\ graded[s] # NoItem /\ items[s] = NoItem
    /\ items' = [items EXCEPT ![s] = graded[s]]
    /\ SameUniverse /\ UNCHANGED <<at, listed, scanned, graded, run, seen, known, chosen, lapsed, back>>

-----------------------------------------------------------------------------
(* run_auto_decisions, up to the selection.  The daily loop selects from   *)
(* the run it has just stored, a request from any run it can see.          *)

SelectFrom ==
    /\ at["select"] = "idle" /\ run
    /\ seen' = items
    /\ StartListing("select")
    /\ SameUniverse /\ UNCHANGED <<listed, scanned, graded, run, items, known, chosen, back>>

SelectKind ==
    /\ ListKind("select")
    /\ known' = WithKind(known, NextKind("select"), BOOLEAN)
    /\ SameUniverse /\ UNCHANGED <<at, scanned, graded, run, items, seen, chosen, lapsed, back>>

(* A row that is not among those listed refuses nothing.                   *)
RowAllows(row) == row = Absent \/ Decidable(row)

(* _skip_reason without the lookup of recent decisions.                    *)
MayDecide(item, row) ==
    /\ item.status = "decision_required" /\ item.hint # NoHint
    /\ RowAllows(row)
    /\ IF item.kind = "holding" THEN item.hint = Held
       ELSE item.kind \in {"watchlist", "candidate"} /\ item.hint = Entry /\ item.role \notin BlockedRoles

(* The symbols in recent have been decided on in the last day.             *)
Select(recent) ==
    /\ at["select"] = "listing" /\ listed["select"] = Len(AllKinds)
    /\ chosen' = {s \in Symbols : MayDecide(seen[s], known[s])} \ recent
    /\ To("select", "done")
    /\ SameUniverse /\ UNCHANGED <<listed, scanned, graded, run, items, seen, known, lapsed, back>>

WatchNext ==
    \/ UniverseStep
    \/ Scan \/ ScanKind \/ Grade \/ CreateRun
    \/ \E s \in Symbols : CreateItem(s)
    \/ SelectFrom \/ SelectKind
    \/ \E recent \in SUBSET Symbols : Select(recent)

WatchSpec == Init /\ WatchInit /\ [][WatchNext]_<<vars, watch>>

-----------------------------------------------------------------------------
(* The kinds are listed in separate reads, and between two of them a       *)
(* symbol can move to a kind that was already listed.  Nothing else makes  *)
(* the scan overlook a symbol that is to be watched all the while, or lets *)
(* the selection take one that it is to refuse all the while: a row that   *)
(* is not found refuses nothing (watchtower/service.py:134-143,            *)
(* decision_orchestrator/service.py:66-68, trigger_selector.py:96-106).    *)
OnlyMovedAreMissed ==
    /\ at["scan"] \notin {"idle", "listing"} =>
           \A s \in Symbols \ (lapsed["scan"] \union back["scan"]) : graded[s] # NoItem
    /\ \A s \in chosen : s \in lapsed["select"] \union back["select"]

(* What the rules call for is not lost between them and the selector: an   *)
(* item that requires a decision, and that the selection has read, is      *)
(* refused only for its row or for a role that bars an entry, or has been  *)
(* decided on (trigger_rules.py, trigger_selector.py:90-122).              *)
RequiredIsOffered ==
    at["select"] # "idle" =>
        \A s \in Symbols : seen[s].status = "decision_required" =>
            \/ seen[s].kind # "holding" /\ seen[s].role \in BlockedRoles
            \/ MayDecide(seen[s], [kind |-> "holding", enabled |-> TRUE, off |-> FALSE])

(* A symbol that is excluded all the while is not decided on ("excluded_   *)
(* universe", "decision_disabled" in trigger_selector.py): refuted, when a *)
(* synchronisation makes it a holding again between two lists.             *)
ExcludedIsNotDecided == \A s \in chosen : s \in lapsed["select"]

(* A gain that is small, in a position that is small, requires no decision *)
(* (the rules say "more than 200%" and "more than 35%"): refuted, a gain   *)
(* of 4 percent is read as 400, and a loss of 1 as 100.                    *)
OnlyLargeGainsRequire ==
    \A m \in Metrics : m.pnl \in -34 .. 199 /\ m.weight < 15 =>
        OfThePosition(OfScan(TRUE, m)) \intersect Require(Held) = {}

(* Who selects sees the items of the run (get_run_detail): refuted, a run  *)
(* is stored before its items.                                             *)
RunsAreWhole == at["select"] # "idle" => seen = graded
=============================================================================
