-------------------------- MODULE DailyLoopSchedule --------------------------
(***************************************************************************)
(* Who starts the daily loop of one date, and how a second scheduled run   *)
(* of that date is avoided: the scheduler thread (core/                    *)
(* portfolio_scheduler.py), the scheduled-run route, with or without       *)
(* force, and the manual route (domains/portfolio_manager/api/routes.py).  *)
(*                                                                         *)
(* A trigger looks for an active scheduled run of the date, then creates   *)
(* its own: two database calls, and any trigger may come in between.  What *)
(* happens inside a run is module DailyLoop; here a run is its document,   *)
(* reduced to type and status, and the trigger that drives it.             *)
(***************************************************************************)
EXTENDS Naturals, Sequences, FiniteSets

CONSTANTS
    Triggers,     \* requests and scheduler firings; each happens at most once
    Window,       \* how many of the newest runs of the date are looked at (20),
                  \* a positive number
    MayForce,     \* whether requests may say force
    MayDie        \* whether a driver may end with its run still running

VARIABLES
    runs,         \* the documents of the date, in the order of creation
    fresh,        \* whether the account snapshot of the date was imported
    phase,        \* per trigger: how far it has come
    kind,         \* per trigger: who it is
    forced,       \* per trigger: whether it skips the check
    seen,         \* per trigger: the number of runs when it checked
    found         \* per trigger: the run that made it skip

vars == <<runs, fresh, phase, kind, forced, seen, found>>

Kinds == {"scheduler", "scheduled_api", "manual"}
Phases == {"idle", "fired", "checked", "cleared", "driving", "skipped", "nodata", "ended", "dead"}
Terminal == {"success", "partial_success", "failed"}
(* A "backfill" counts for nobody, like "manual", which stands for both.   *)
RunTypes == {"manual", "scheduled"}
RunDocs == [type : RunTypes, status : Terminal \union {"running"}, by : Triggers]

(* Mutant of ACTIVE_SCHEDULED_STATUSES: a run in progress does not count. *)
ACTIVE_SCHEDULED_STATUSES_Finished == {"success", "partial_success"}

ACTIVE_SCHEDULED_STATUSES == {"running", "success", "partial_success"}

Active(i) == runs[i].type = "scheduled" /\ runs[i].status \in ACTIVE_SCHEDULED_STATUSES

(* find_existing_scheduled_run: it lists the newest runs and filters those. *)
Existing == {i \in 1 .. Len(runs) : i + Window > Len(runs) /\ Active(i)}

Init ==
    /\ runs = <<>>
    /\ fresh = FALSE
    /\ phase = [t \in Triggers |-> "idle"]
    /\ kind = [t \in Triggers |-> "manual"]
    /\ forced = [t \in Triggers |-> FALSE]
    /\ seen = [t \in Triggers |-> 0]
    /\ found = [t \in Triggers |-> 0]

(* The worker imports the statement of the date. *)
DataArrives ==
    /\ ~fresh
    /\ fresh' = TRUE
    /\ UNCHANGED <<runs, phase, kind, forced, seen, found>>

(* The cron job fires once a day; requests come at any time.  Manual and   *)
(* forced requests check nothing.                                          *)
Fire(t, k, f) ==
    /\ phase[t] = "idle"
    /\ k = "scheduler" => \A u \in Triggers : phase[u] # "idle" => kind[u] # "scheduler"
    /\ f => MayForce /\ k = "scheduled_api"
    /\ kind' = [kind EXCEPT ![t] = k]
    /\ forced' = [forced EXCEPT ![t] = f]
    /\ phase' = [phase EXCEPT ![t] = IF k = "manual" \/ f THEN "cleared" ELSE "fired"]
    /\ UNCHANGED <<runs, fresh, seen, found>>

(* An active run was found: the newest one is named in the answer. *)
Skip(t) ==
    /\ phase[t] = "fired"
    /\ \E i \in Existing :
          /\ \A j \in Existing : j <= i
          /\ found' = [found EXCEPT ![t] = i]
    /\ phase' = [phase EXCEPT ![t] = "skipped"]
    /\ UNCHANGED <<runs, fresh, kind, forced, seen>>

(* None was found.  Only the scheduler goes on to look at the data. *)
Pass(t) ==
    /\ phase[t] = "fired"
    /\ Existing = {}
    /\ seen' = [seen EXCEPT ![t] = Len(runs)]
    /\ phase' = [phase EXCEPT ![t] = IF kind[t] = "scheduler" THEN "checked" ELSE "cleared"]
    /\ UNCHANGED <<runs, fresh, kind, forced, found>>

(* _has_new_trading_data; a query that raises counts as no data. *)
CheckData(t) ==
    /\ phase[t] = "checked"
    /\ \/ fresh /\ phase' = [phase EXCEPT ![t] = "cleared"]
       \/ (~fresh \/ MayDie) /\ phase' = [phase EXCEPT ![t] = "nodata"]
    /\ UNCHANGED <<runs, fresh, kind, forced, seen, found>>

(* The run_type of a manual request is its caller's choice. *)
TypesFor(k) == IF k = "manual" THEN RunTypes ELSE {"scheduled"}

(* create_running_run *)
CreateRun(t) ==
    /\ phase[t] = "cleared"
    /\ \E type \in TypesFor(kind[t]) :
          runs' = Append(runs, [type |-> type, status |-> "running", by |-> t])
    /\ phase' = [phase EXCEPT ![t] = "driving"]
    /\ UNCHANGED <<fresh, kind, forced, seen, found>>

(* Mutant of EndRun: the status of the document is left alone. *)
EndRun_KeepsStatus(t) ==
    /\ phase[t] = "driving"
    /\ phase' = [phase EXCEPT ![t] = "ended"]
    /\ UNCHANGED <<runs, fresh, kind, forced, seen, found>>

(* The last write of the run. *)
EndRun(t) ==
    /\ phase[t] = "driving"
    /\ \E i \in 1 .. Len(runs), s \in Terminal :
          /\ runs[i].by = t
          /\ runs' = [runs EXCEPT ![i].status = s]
    /\ phase' = [phase EXCEPT ![t] = "ended"]
    /\ UNCHANGED <<fresh, kind, forced, seen, found>>

(* The process is killed, or a write raises out of run_daily_loop: its     *)
(* callers log the exception or fail the task, and leave the run alone.    *)
Die(t) ==
    /\ MayDie
    /\ phase[t] \in {"fired", "checked", "cleared", "driving"}
    /\ phase' = [phase EXCEPT ![t] = "dead"]
    /\ UNCHANGED <<runs, fresh, kind, forced, seen, found>>

Advance(t) == Skip(t) \/ Pass(t) \/ CheckData(t) \/ CreateRun(t) \/ EndRun(t)

Finished == (\A t \in Triggers : phase[t] \in {"skipped", "nodata", "ended", "dead"}) /\ UNCHANGED vars

Next ==
    \/ DataArrives
    \/ \E t \in Triggers, k \in Kinds, f \in BOOLEAN : Fire(t, k, f)
    \/ \E t \in Triggers : Advance(t) \/ Die(t)
    \/ Finished

Spec == Init /\ [][Next]_vars

(* Threads are scheduled and runs end; nobody is obliged to trigger one. *)
FairSpec == Spec /\ \A t \in Triggers : WF_vars(Advance(t))

-----------------------------------------------------------------------------
(* Documents and triggers keep their types. *)
TypeOK ==
    /\ runs \in Seq(RunDocs)
    /\ fresh \in BOOLEAN
    /\ phase \in [Triggers -> Phases]
    /\ kind \in [Triggers -> Kinds]
    /\ forced \in [Triggers -> BOOLEAN]
    /\ seen \in [Triggers -> Nat]
    /\ found \in [Triggers -> Nat]

(* Two active scheduled runs of one date have an excuse.  Nobody checked   *)
(* for the later one, as it was forced, or asked for by a manual request   *)
(* that chose the type "scheduled"; or its check came before the earlier   *)
(* one was created, or so many runs had been created since that the check  *)
(* did not see the earlier one.  Nothing else lets a second run through:   *)
(* not a partial success, not a run still in progress, not one that died,  *)
(* not one that a manual request began (schedule.py:10, 57-61).            *)
Unchecked(t) == forced[t] \/ kind[t] = "manual"

DuplicateNeedsAnExcuse ==
    \A i, j \in 1 .. Len(runs) :
        i < j /\ Active(i) /\ Active(j)
            => LET t == runs[j].by
               IN Unchecked(t) \/ seen[t] < i \/ i + Window <= seen[t]

(* The run that made a trigger skip ends, or its driver died: a skip only  *)
(* leaves the date without a result for a death, never for an interleaving *)
(* of triggers (schedule.py:10, portfolio_scheduler.py:118-128).           *)
SkippedForARunThatEnds ==
    \A t \in Triggers :
        phase[t] = "skipped" ~>
            \E i \in DOMAIN runs : /\ i = found[t]
                                   /\ runs[i].status \in Terminal \/ phase[runs[i].by] = "dead"
=============================================================================
