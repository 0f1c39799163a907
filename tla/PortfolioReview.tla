--------------------------- MODULE PortfolioReview ---------------------------
(***************************************************************************)
(* What the watchtower, the automatic decisions and the portfolio report   *)
(* hand to each other.  A daily loop scans, decides on what its scan       *)
(* requires, and reports on both by the ids of its two runs; any of its    *)
(* steps may raise or be switched off, and a report without an id takes    *)
(* the latest run.  Meanwhile users scan, and decide on any scan.          *)
(*                                                                         *)
(* Of a report the model keeps the action queue.  Why a scan requires a    *)
(* decision, and why the selection skips one, is in Watchtower and in      *)
(* AutoDecision.                                                           *)
(***************************************************************************)
EXTENDS Integers, Sequences, FiniteSetsExt

CONSTANTS
    Symbols,
    Loops,         \* daily loops
    Users,
    Gradings,      \* what a scan may find
    Barred,        \* the sets of symbols that are no holdings and have a role that bars an entry
    QueueLimit,    \* the length of the action queue (30)
    MaxRuns        \* the bound on the scans, and on the runs of decisions

VARIABLES
    scans,     \* the scans: their grades, and the symbols whose item is stored
    decided,   \* the runs of decisions: the scan, and the status of each item
    at,        \* per actor: its step
    mine,      \* per actor: the run it is writing
    link,      \* per loop: the runs it hands on
    report     \* per loop: its report

vars == <<scans, decided, at, mine, link, report>>

Actors == Loops \union Users

NoRun == 0
NoReport == [scan |-> NoRun, auto |-> NoRun, queue |-> {}]
NoItems == [s \in Symbols |-> "none"]

(* get_run_detail: the items that are stored.                              *)
ScanItems(i) ==
    IF i = NoRun THEN NoItems
    ELSE [s \in Symbols |-> IF s \in scans[i].stored THEN scans[i].grades[s] ELSE "none"]
AutoItems(i) == IF i = NoRun THEN NoItems ELSE decided[i].items

Init ==
    /\ scans = <<>> /\ decided = <<>>
    /\ at = [a \in Actors |-> IF a \in Loops THEN "watchtower" ELSE "idle"]
    /\ mine = [a \in Actors |-> NoRun]
    /\ link = [a \in Loops |-> [scan |-> NoRun, auto |-> NoRun]]
    /\ report = [a \in Loops |-> NoReport]

-----------------------------------------------------------------------------
(* The steps of a loop; a user takes one at a time.                        *)
MayStart(a, step) == at[a] = IF a \in Loops THEN step ELSE "idle"

After(a) ==
    IF a \in Users THEN "idle"
    ELSE CASE at[a] \in {"watchtower", "scanning"} -> "auto_decision"
           [] at[a] \in {"auto_decision", "deciding"} -> "portfolio_report"
           [] OTHER -> "done"

Begin(a, stage, run) ==
    /\ at' = [at EXCEPT ![a] = stage]
    /\ mine' = [mine EXCEPT ![a] = run]

EndStep(a) ==
    /\ at' = [at EXCEPT ![a] = After(a)]
    /\ mine' = [mine EXCEPT ![a] = NoRun]

Hand(a, name, run) == link' = IF a \in Loops THEN [link EXCEPT ![a][name] = run] ELSE link

(* _run_step catches what a step raises, before or between its writes; and *)
(* a step may be off, as the decisions are without a scan of the loop.     *)
(* The loop goes on without the id of the run.                             *)
StepRaises(a) ==
    /\ at[a] \notin {"idle", "done"}
    /\ EndStep(a)
    /\ report' = IF at[a] = "reporting" THEN [report EXCEPT ![a] = NoReport] ELSE report
    /\ UNCHANGED <<scans, decided, link>>

-----------------------------------------------------------------------------
(* run_watchtower: the run is stored before its items.                     *)
CreateScan(a) ==
    /\ MayStart(a, "watchtower") /\ Len(scans) < MaxRuns
    /\ \E grades \in Gradings : scans' = Append(scans, [grades |-> grades, stored |-> {}])
    /\ Begin(a, "scanning", Len(scans'))
    /\ UNCHANGED <<decided, link, report>>

Unstored(i) == {s \in Symbols : scans[i].grades[s] # "none"} \ scans[i].stored

CreateItem(a, s) ==
    /\ at[a] = "scanning" /\ s \in Unstored(mine[a])
    /\ scans' = [scans EXCEPT ![mine[a]].stored = @ \union {s}]
    /\ UNCHANGED <<decided, at, mine, link, report>>

EndScan(a) ==
    /\ at[a] = "scanning" /\ Unstored(mine[a]) = {}
    /\ Hand(a, "scan", mine[a])
    /\ EndStep(a)
    /\ UNCHANGED <<scans, decided, report>>

-----------------------------------------------------------------------------
(* run_auto_decisions.  A loop takes its scan, a user any.                 *)
Sources(a) == IF a \in Loops THEN {link[a].scan} \ {NoRun} ELSE DOMAIN scans

(* Every item of the scan gets one: what requires no decision is skipped.  *)
Selections(scan) ==
    {items \in [Symbols -> {"none", "selected", "skipped"}] :
        \A s \in Symbols : /\ items[s] = "none" <=> ScanItems(scan)[s] = "none"
                           /\ items[s] = "selected" => ScanItems(scan)[s] = "decision_required"}

(* The items are stored before the run, which makes them visible.          *)
CreateDecisions(a) ==
    /\ MayStart(a, "auto_decision") /\ Len(decided) < MaxRuns
    /\ \E i \in Sources(a) : \E items \in Selections(i) :
          decided' = Append(decided, [of |-> i, items |-> items])
    /\ Begin(a, "deciding", Len(decided'))
    /\ UNCHANGED <<scans, link, report>>

Selected(i) == {s \in Symbols : decided[i].items[s] = "selected"}

Decide(a, s) ==
    /\ at[a] = "deciding" /\ s \in Selected(mine[a])
    /\ \E status \in {"completed", "failed"} : decided' = [decided EXCEPT ![mine[a]].items[s] = status]
    /\ UNCHANGED <<scans, at, mine, link, report>>

(* A dry run decides on nothing.                                           *)
IsDry(i) == \A s \in Symbols : decided[i].items[s] \notin {"completed", "failed"}

EndDecisions(a) ==
    /\ at[a] = "deciding"
    /\ Selected(mine[a]) = {} \/ IsDry(mine[a])
    /\ Hand(a, "auto", mine[a])
    /\ EndStep(a)
    /\ UNCHANGED <<scans, decided, report>>

-----------------------------------------------------------------------------
(* generate_report.                                                        *)

(* A plausible bug, used as a mutant only: always the latest run.          *)
RunToShow_Latest(named, latest) == latest

(* _watchtower_run, _auto_decision_run                                     *)
RunToShow(named, latest) == IF named # NoRun THEN named ELSE latest

(* A run that cannot be read is left out.                                  *)
Readable(named, latest) == {NoRun, RunToShow(named, latest)}

ReadScan(a) ==
    /\ MayStart(a, "portfolio_report")
    /\ \E i \in Readable(link[a].scan, Len(scans)) : report' = [report EXCEPT ![a].scan = i]
    /\ at' = [at EXCEPT ![a] = "reporting"]
    /\ UNCHANGED <<scans, decided, mine, link>>

Entry(s, type, auto) == [symbol |-> s, type |-> type, auto |-> auto]

(* _action_queue, the entries that the decisions give.                     *)
FromDecisions(items, i) ==
    {Entry(s, "review_trade_decision", i) : s \in {t \in Symbols : items[t] = "completed"}}
    \union {Entry(s, "manual_review", i) : s \in {t \in Symbols : items[t] = "failed"}}

(* And those of the scan.                                                  *)
FromScan(shown, items, barred) ==
    LET listed == {s \in Symbols : shown[s] # "none"}
        open == listed \ barred
    IN {Entry(s, "wait", NoRun) : s \in listed \intersect barred}
       \union {Entry(s, "manual_review", NoRun) : s \in {t \in open : shown[t] = "decision_required" /\ items[t] = "none"}}
       \union {Entry(s, "monitor", NoRun) : s \in {t \in open : shown[t] = "attention_required"}}

(* The first QueueLimit entries; those of the decisions come first.        *)
Queues(first, second) ==
    LET room == QueueLimit - Cardinality(first)
    IN IF Cardinality(first \union second) <= QueueLimit THEN {first \union second}
       ELSE IF Cardinality(first) >= QueueLimit THEN kSubset(QueueLimit, first)
       ELSE {first \union rest : rest \in kSubset(room, second)}

StoreReport(a) ==
    /\ at[a] = "reporting"
    /\ \E j \in Readable(link[a].auto, Len(decided)), barred \in Barred :
          LET items == AutoItems(j)
          IN \E queue \in Queues(FromDecisions(items, j), FromScan(ScanItems(report[a].scan), items, barred)) :
                report' = [report EXCEPT ![a].auto = j, ![a].queue = queue]
    /\ EndStep(a)
    /\ UNCHANGED <<scans, decided, link>>

Next ==
    \/ \E a \in Loops : ReadScan(a) \/ StoreReport(a)
    \/ \E a \in Actors :
          \/ StepRaises(a)
          \/ CreateScan(a) \/ EndScan(a) \/ CreateDecisions(a) \/ EndDecisions(a)
          \/ \E s \in Symbols : CreateItem(a, s) \/ Decide(a, s)

Spec == Init /\ [][Next]_vars

-----------------------------------------------------------------------------
Queued(a, s) == \E e \in report[a].queue : e.symbol = s /\ e.type # "monitor"

(* What a loop has scanned and decided itself is what its report shows,    *)
(* however many other runs are stored meanwhile: the decisions it links    *)
(* are those on its scan, and each symbol that requires a decision is      *)
(* queued unless the selection skipped it, the run was dry or the queue is *)
(* full (daily_loop/service.py:164-205, portfolio_review/service.py:154-   *)
(* 178, allocation_analyzer.py:109-140).                                   *)
DecisionsFitTheScan ==
    \A a \in Loops :
        LET r == report[a]
        IN at[a] = "done" /\ r.scan # NoRun /\ link[a].scan # NoRun /\ link[a].auto # NoRun =>
              /\ \A e \in r.queue : e.auto # NoRun => decided[e.auto].of = r.scan
              /\ \A s \in Symbols : scans[link[a].scan].grades[s] = "decision_required" =>
                    \/ Queued(a, s)
                    \/ decided[link[a].auto].items[s] \in {"skipped", "selected"}
                    \/ Cardinality(r.queue) = QueueLimit

(* The same of every report that shows the scan of its loop: refuted, when *)
(* the decisions of the loop raised or were off, those of another run are  *)
(* taken for them, and hide "watchtower_required_but_no_auto_decision".    *)
DecisionsAlwaysFit ==
    \A a \in Loops :
        at[a] = "done" /\ link[a].scan # NoRun /\ report[a].scan = link[a].scan =>
            \A e \in report[a].queue : e.auto # NoRun => decided[e.auto].of = report[a].scan
=============================================================================
