----------------------------- MODULE AutoDecision -----------------------------
(***************************************************************************)
(* Runs of the decision orchestrator (domains/portfolio_manager/           *)
(* decision_orchestrator): a run selects symbols of a watchtower scan,     *)
(* stores an item for each symbol of the scan, then the run document, and  *)
(* has the trade decision agent decide the selected symbols one by one.    *)
(* The daily loop and the auto-decision route start runs, which may        *)
(* overlap; a run that is killed, or in which a write raises, is not       *)
(* resumed.                                                                *)
(***************************************************************************)
EXTENDS Naturals, FiniteSets

CONSTANTS
    Runs,             \* ids of the runs that may be started
    Symbols,          \* the symbols of the scan
    Requests,         \* what callers ask for: max_decisions, force_refresh, dry_run
    DuplicateHours,   \* RECENT_DUPLICATE_WINDOW_HOURS, in ticks of the clock
    MaxTime,          \* bound on the clock
    MayDie            \* whether a run may be killed or end in an exception

ASSUME RequestsAssumption == Requests \subseteq [budget : Nat, force : BOOLEAN, dry : BOOLEAN]
ASSUME NumbersAssumption == /\ DuplicateHours \in Nat
                            /\ MaxTime \in Nat
ASSUME SymbolsAssumption == IsFiniteSet(Symbols) /\ Symbols # {}
ASSUME MayDieAssumption == MayDie \in BOOLEAN

VARIABLES
    now,          \* the clock
    phase,        \* per run: how far its thread has come
    options,      \* per run: the request
    selected,     \* per run: the symbols select chose, in its memory
    selectedAt,   \* per run: the time of that
    todo,         \* per run: the symbols it still has to store or to decide
    item,         \* per run and symbol: selection_status of the item
    completedAt,  \* per run and symbol: when a completed item was written
    made,         \* per run: the symbols whose decision the agent has stored
    runStatus     \* per run: status of the run document

vars == <<now, phase, options, selected, selectedAt, todo, item, completedAt, made, runStatus>>

Phases == {"idle", "storing", "creating", "deciding", "final", "done", "dead"}
Active == {"storing", "creating", "deciding", "final"}
ItemStatuses == {"absent", "selected", "skipped", "completed", "failed"}
RunStatuses == {"success", "partial_success", "failed", "skipped"}
NoRequest == [budget |-> 0, force |-> FALSE, dry |-> FALSE]

Init ==
    /\ now = 0
    /\ phase = [r \in Runs |-> "idle"]
    /\ options = [r \in Runs |-> NoRequest]
    /\ selected = [r \in Runs |-> {}]
    /\ selectedAt = [r \in Runs |-> 0]
    /\ todo = [r \in Runs |-> {}]
    /\ item = [r \in Runs |-> [s \in Symbols |-> "absent"]]
    /\ completedAt = [r \in Runs |-> [s \in Symbols |-> 0]]
    /\ made = [r \in Runs |-> {}]
    /\ runStatus = [r \in Runs |-> "absent"]

Tick ==
    /\ now < MaxTime
    /\ now' = now + 1
    /\ UNCHANGED <<phase, options, selected, selectedAt, todo, item, completedAt, made, runStatus>>

(* Mutant of RecentlyDecided: only runs that have ended are looked at. *)
RecentlyDecided_DoneRuns(s) ==
    \E r \in Runs : /\ phase[r] = "done"
                    /\ item[r][s] = "completed" /\ completedAt[r][s] + DuplicateHours >= now

(* find_recent_completed.  It looks at the ten completed items created     *)
(* last; a decision takes far less than a day, so these include every      *)
(* recent one if any is recent.                                            *)
RecentlyDecided(s) ==
    \E r \in Runs : item[r][s] = "completed" /\ completedAt[r][s] + DuplicateHours >= now

(* Slicing a list of n to at most m. *)
Smaller(m, n) == IF m <= n THEN m ELSE n

(* A caller starts a run, and select chooses.  Which symbols need a         *)
(* decision (scan status, universe settings, decision type) is any set; of *)
(* those not decided recently the best are taken, up to the budget.        *)
Select(r, o) ==
    /\ phase[r] = "idle"
    /\ options' = [options EXCEPT ![r] = o]
    /\ \E required \in SUBSET Symbols :
          LET passing == {s \in required : o.force \/ ~RecentlyDecided(s)}
          IN \E best \in SUBSET passing :
                /\ Cardinality(best) = Smaller(o.budget, Cardinality(passing))
                /\ selected' = [selected EXCEPT ![r] = best]
    /\ selectedAt' = [selectedAt EXCEPT ![r] = now]
    /\ todo' = [todo EXCEPT ![r] = Symbols]
    /\ phase' = [phase EXCEPT ![r] = "storing"]
    /\ UNCHANGED <<now, item, completedAt, made, runStatus>>

(* bulk_create_items: one write per item, before the run document exists. *)
StoreItem(r, s) ==
    /\ phase[r] = "storing" /\ s \in todo[r]
    /\ item' = [item EXCEPT ![r][s] = IF s \in selected[r] THEN "selected" ELSE "skipped"]
    /\ todo' = [todo EXCEPT ![r] = @ \ {s}]
    /\ phase' = [phase EXCEPT ![r] = IF todo[r] = {s} THEN "creating" ELSE "storing"]
    /\ UNCHANGED <<now, options, selected, selectedAt, completedAt, made, runStatus>>

Count(r, st) == Cardinality({s \in Symbols : item[r][s] = st})

(* Mutant of RunStatus: skipped symbols are no reason for a partial success. *)
RunStatus_IgnoresSkipped(r) ==
    CASE options[r].dry /\ Count(r, "selected") > 0 -> "success"
      [] options[r].dry -> "skipped"
      [] Count(r, "completed") > 0 /\ Count(r, "failed") > 0 -> "partial_success"
      [] Count(r, "completed") > 0 -> "success"
      [] Count(r, "failed") > 0 -> "failed"
      [] Count(r, "selected") > 0 -> "success"
      [] OTHER -> "skipped"

(* _run_status *)
RunStatus(r) ==
    IF options[r].dry \/ Count(r, "completed") + Count(r, "failed") = 0
      THEN IF Count(r, "selected") > 0 THEN "success" ELSE "skipped"
      ELSE IF Count(r, "completed") = 0 THEN "failed"
      ELSE IF Count(r, "failed") + Count(r, "skipped") > 0 THEN "partial_success" ELSE "success"

(* create_run: until its end the run calls itself skipped. *)
CreateRun(r) ==
    /\ phase[r] = "creating"
    /\ runStatus' = [runStatus EXCEPT ![r] = "skipped"]
    /\ todo' = [todo EXCEPT ![r] = IF options[r].dry THEN {} ELSE selected[r]]
    /\ phase' = [phase EXCEPT ![r] =
                    IF options[r].dry \/ selected[r] = {} THEN "final" ELSE "deciding"]
    /\ UNCHANGED <<now, options, selected, selectedAt, item, completedAt, made>>

(* The agent decides a symbol and stores its decision, then the item is    *)
(* updated: the decision may exist without the update.                     *)
Decide(r, s) ==
    /\ phase[r] = "deciding"
    /\ s \in todo[r] \ made[r]
    /\ made[r] \intersect todo[r] = {}
    /\ made' = [made EXCEPT ![r] = @ \union {s}]
    /\ UNCHANGED <<now, phase, options, selected, selectedAt, todo, item, completedAt, runStatus>>

(* update_item, after the agent returned a decision or any exception. *)
UpdateItem(r, s, outcome) ==
    /\ phase[r] = "deciding"
    /\ s \in todo[r]
    /\ made[r] \intersect todo[r] \subseteq {s}
    /\ outcome = (IF s \in made[r] THEN "completed" ELSE "failed")
    /\ item' = [item EXCEPT ![r][s] = outcome]
    /\ completedAt' = [completedAt EXCEPT ![r][s] = IF s \in made[r] THEN now ELSE @]
    /\ todo' = [todo EXCEPT ![r] = @ \ {s}]
    /\ phase' = [phase EXCEPT ![r] = IF todo[r] = {s} THEN "final" ELSE "deciding"]
    /\ UNCHANGED <<now, options, selected, selectedAt, made, runStatus>>

(* The last write, from the items as they are stored. *)
EndRun(r) ==
    /\ phase[r] = "final"
    /\ runStatus' = [runStatus EXCEPT ![r] = RunStatus(r)]
    /\ phase' = [phase EXCEPT ![r] = "done"]
    /\ UNCHANGED <<now, options, selected, selectedAt, todo, item, completedAt, made>>

(* The process is killed or a write raises.  A service without a runner    *)
(* (no API key is set) raises at the first symbol it should decide.        *)
Die(r) ==
    /\ MayDie
    /\ phase[r] \in Active
    /\ phase' = [phase EXCEPT ![r] = "dead"]
    /\ UNCHANGED <<now, options, selected, selectedAt, todo, item, completedAt, made, runStatus>>

Advance(r) ==
    \/ \E s \in Symbols : StoreItem(r, s) \/ Decide(r, s)
    \/ \E s \in Symbols, outcome \in {"completed", "failed"} : UpdateItem(r, s, outcome)
    \/ CreateRun(r) \/ EndRun(r)

Finished ==
    /\ now = MaxTime
    /\ \A r \in Runs : phase[r] \in {"done", "dead"}
    /\ UNCHANGED vars

Next ==
    \/ Tick
    \/ \E r \in Runs, o \in Requests : Select(r, o)
    \/ \E r \in Runs : Advance(r) \/ Die(r)
    \/ Finished

Spec == Init /\ [][Next]_vars

-----------------------------------------------------------------------------
(* Runs, items and clock keep their types. *)
TypeOK ==
    /\ now \in 0 .. MaxTime
    /\ phase \in [Runs -> Phases]
    /\ options \in [Runs -> Requests \union {NoRequest}]
    /\ selected \in [Runs -> SUBSET Symbols]
    /\ selectedAt \in [Runs -> Nat]
    /\ todo \in [Runs -> SUBSET Symbols]
    /\ item \in [Runs -> [Symbols -> ItemStatuses]]
    /\ completedAt \in [Runs -> [Symbols -> Nat]]
    /\ made \in [Runs -> SUBSET Symbols]
    /\ runStatus \in [Runs -> RunStatuses \union {"absent"}]

(* A symbol is not decided again within the duplicate window, unless the   *)
(* later run was forced or had selected before the earlier decision was    *)
(* recorded: neither the status of the earlier run nor its death makes the *)
(* selector forget one of its decisions (trigger_selector.py:118-121,      *)
(* repository.py:57-68).                                                   *)
RepeatsAreApart ==
    \A q, r \in Runs, s \in Symbols :
        /\ item[q][s] = "completed" /\ item[r][s] = "completed"
        /\ ~options[r].force
        /\ completedAt[q][s] < selectedAt[r]
        => completedAt[q][s] + DuplicateHours < selectedAt[r]

(* A run that ended tells what became of its items: nothing is left as     *)
(* selected, success means that every symbol of the scan was decided, and  *)
(* partial success, failure and skipped each exclude the others            *)
(* (service.py:133-141, 213-232).                                          *)
EndedRunIsHonest ==
    \A r \in Runs :
        phase[r] = "done" /\ ~options[r].dry =>
            /\ Count(r, "selected") = 0
            /\ runStatus[r] = "success" => \A s \in Symbols : item[r][s] = "completed"
            /\ runStatus[r] = "partial_success" <=>
                    Count(r, "completed") \in 1 .. (Cardinality(Symbols) - 1)
            /\ runStatus[r] = "failed" <=> Count(r, "completed") = 0 /\ Count(r, "failed") > 0
            /\ runStatus[r] = "skipped" => \A s \in Symbols : item[r][s] = "skipped"

=============================================================================
