----------------------------- MODULE ActionAlerts -----------------------------
(***************************************************************************)
(* The action alerts of one daily loop run (domains/portfolio_manager/     *)
(* action_alerts).  A sender derives the alerts from the run's decisions   *)
(* and report, stores those that are not stored yet as pending, marks what *)
(* it stored as sent and pushes one digest of it.  The loop's own thread   *)
(* and any number of requests to send-for-daily-loop are senders, and they *)
(* overlap.  All of them derive the same alerts in the same order: the     *)
(* documents they read no longer change, and the id of an alert is made of *)
(* the run's date, the symbol, the type and the decision.                  *)
(***************************************************************************)
EXTENDS Naturals

CONSTANTS
    Senders,     \* the calls of create_and_send_for_daily_loop
    NumAlerts,   \* how many alerts the builder derives
    MayDie       \* whether a write may raise or the process be killed

VARIABLES
    linked,     \* the run has linked its decisions and its report
    alert,      \* per alert: status of the document
    phase,      \* per sender: where it is
    pos,        \* per sender: the alert it checks or stores
    mine,       \* per sender: pending_alerts, what it has stored itself
    unmarked,   \* per sender: those of mine it has not marked as sent
    digest,     \* per sender: what became of its digest of mine
    known       \* per sender: the alerts that were stored when it began

vars == <<linked, alert, phase, pos, mine, unmarked, digest, known>>

Alerts == 1 .. NumAlerts
Statuses == {"absent", "pending", "sent", "failed"}
Working == {"checking", "storing", "marking", "notifying"}

Stored == {a \in Alerts : alert[a] # "absent"}

Init ==
    /\ linked = FALSE
    /\ alert = [a \in Alerts |-> "absent"]
    /\ phase = [s \in Senders |-> "idle"]
    /\ pos = [s \in Senders |-> 1]
    /\ mine = [s \in Senders |-> {}]
    /\ unmarked = [s \in Senders |-> {}]
    /\ digest = [s \in Senders |-> "none"]
    /\ known = [s \in Senders |-> {}]

(* The loop records its decision run and its report. *)
Link ==
    /\ ~linked
    /\ linked' = TRUE
    /\ UNCHANGED <<alert, phase, pos, mine, unmarked, digest, known>>

(* A call before that returns with missing_required_linked_run. *)
Begin(s) ==
    /\ phase[s] = "idle"
    /\ phase' = [phase EXCEPT ![s] = IF linked /\ NumAlerts > 0 THEN "checking" ELSE "done"]
    /\ known' = [known EXCEPT ![s] = Stored]
    /\ UNCHANGED <<linked, alert, pos, mine, unmarked, digest>>

(* Statuses of an existing alert that make a sender skip it. *)
Taken == {"sent", "pending"}

(* Where a sender that is through with its alert goes on, and what it then *)
(* has to mark: a sender that stored nothing returns.                      *)
GoOn(s, stored) ==
    /\ pos' = [pos EXCEPT ![s] = @ + 1]
    /\ phase' = [phase EXCEPT ![s] =
                    IF pos[s] < NumAlerts THEN "checking"
                    ELSE IF stored = {} THEN "done" ELSE "marking"]
    /\ mine' = [mine EXCEPT ![s] = stored]
    /\ unmarked' = [unmarked EXCEPT ![s] = stored]

(* find_existing_alert, and the alert is skipped ... *)
SkipAlert(s) ==
    /\ phase[s] = "checking"
    /\ alert[pos[s]] \in Taken
    /\ GoOn(s, mine[s])
    /\ UNCHANGED <<linked, alert, digest, known>>

(* ... or is to be stored, *)
TakeAlert(s) ==
    /\ phase[s] = "checking"
    /\ alert[pos[s]] \notin Taken
    /\ phase' = [phase EXCEPT ![s] = "storing"]
    /\ UNCHANGED <<linked, alert, pos, mine, unmarked, digest, known>>

(* which upsert_alert does, over whatever is there by now. *)
StoreAlert(s) ==
    /\ phase[s] = "storing"
    /\ alert' = [alert EXCEPT ![pos[s]] = "pending"]
    /\ GoOn(s, mine[s] \union {pos[s]})
    /\ UNCHANGED <<linked, digest, known>>

(* Mutant of MarkSent: the last alert is not marked. *)
MarkSent_NotLast(s) ==
    /\ phase[s] = "marking"
    /\ \E a \in unmarked[s] :
          /\ \A b \in unmarked[s] : a <= b
          /\ alert' = [alert EXCEPT ![a] = IF unmarked[s] = {a} THEN @ ELSE "sent"]
          /\ unmarked' = [unmarked EXCEPT ![s] = @ \ {a}]
          /\ phase' = [phase EXCEPT ![s] = IF unmarked[s] = {a} THEN "notifying" ELSE "marking"]
    /\ UNCHANGED <<linked, pos, mine, digest, known>>

(* mark_sent, one alert after the other.  It reads the document and writes *)
(* it back, but every writer of a document writes a status of its own.     *)
MarkSent(s) ==
    /\ phase[s] = "marking"
    /\ \E a \in unmarked[s] :
          /\ \A b \in unmarked[s] : a <= b
          /\ alert' = [alert EXCEPT ![a] = "sent"]
          /\ unmarked' = [unmarked EXCEPT ![s] = @ \ {a}]
          /\ phase' = [phase EXCEPT ![s] = IF unmarked[s] = {a} THEN "notifying" ELSE "marking"]
    /\ UNCHANGED <<linked, pos, mine, digest, known>>

(* The digest is pushed.  NotifyHub may be off, or unreachable, or refuse: *)
(* every failure is swallowed.                                             *)
Notify(s, result) ==
    /\ phase[s] = "notifying"
    /\ digest' = [digest EXCEPT ![s] = result]
    /\ phase' = [phase EXCEPT ![s] = "done"]
    /\ UNCHANGED <<linked, alert, pos, mine, unmarked, known>>

Die(s) ==
    /\ MayDie
    /\ phase[s] \in Working
    /\ phase' = [phase EXCEPT ![s] = "dead"]
    /\ UNCHANGED <<linked, alert, pos, mine, unmarked, digest, known>>

Work(s) ==
    \/ SkipAlert(s) \/ TakeAlert(s) \/ StoreAlert(s) \/ MarkSent(s)
    \/ \E result \in {"delivered", "lost"} : Notify(s, result)

Next == Link \/ \E s \in Senders : Begin(s) \/ Work(s) \/ Die(s)

Spec == Init /\ [][Next]_vars

(* A thread that sends is scheduled, and the push has a timeout. *)
FairSpec == Spec /\ \A s \in Senders : WF_vars(Work(s))

-----------------------------------------------------------------------------
(* Alerts and senders keep their types, and a sender's part of the alerts  *)
(* agrees with how far it is.                                              *)
TypeOK ==
    /\ linked \in BOOLEAN
    /\ alert \in [Alerts -> Statuses]
    /\ phase \in [Senders -> Working \union {"idle", "done", "dead"}]
    /\ pos \in [Senders -> 1 .. (NumAlerts + 1)]
    /\ mine \in [Senders -> SUBSET Alerts]
    /\ unmarked \in [Senders -> SUBSET Alerts]
    /\ digest \in [Senders -> {"none", "delivered", "lost"}]
    /\ known \in [Senders -> SUBSET Alerts]

(* A sender that begins after an alert was stored never stores, marks or   *)
(* announces it again, whoever stored it and whatever became of that       *)
(* sender: calls that do not overlap are idempotent (service.py:61-71).    *)
LaterSenderSkips == \A s \in Senders : known[s] \intersect mine[s] = {}

(* An alert is pending only while a sender that stored it is yet to mark   *)
(* it, or after such a sender died: overlapping senders, one of which may  *)
(* set a sent alert back to pending, leave none behind (service.py:72-84). *)
PendingHasAnOwner ==
    \A a \in Alerts : alert[a] = "pending" =>
        \E s \in Senders : a \in unmarked[s] /\ phase[s] # "done"

(* What is marked as sent was put into a digest, or will be by a sender at *)
(* work, or its sender died: no alert is marked and then forgotten         *)
(* (service.py:83-92).                                                     *)
SentIsAnnounced ==
    \A a \in Alerts : alert[a] = "sent" =>
        \E s \in Senders : /\ a \in mine[s]
                           /\ phase[s] \in Working \union {"dead"} \/ digest[s] # "none"

(* A pending alert is sent for good, unless a sender that stored it died:  *)
(* the senders that set a sent alert back to pending all mark it again     *)
(* (service.py:72-84).                                                     *)
PendingIsSent ==
    \A a \in Alerts :
        alert[a] = "pending" ~>
            [](alert[a] = "sent" \/ \E s \in Senders : phase[s] = "dead" /\ a \in unmarked[s])
=============================================================================
