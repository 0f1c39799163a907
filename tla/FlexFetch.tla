------------------------------ MODULE FlexFetch ------------------------------
(***************************************************************************)
(* Downloading Flex statements from IBKR into the archive (worker/jobs/    *)
(* fetch_job.py, worker/clients/flex_client.py).  A job takes the          *)
(* configured queries in turn: it sends a request, which gives it a        *)
(* reference code, polls until IBKR has the statement, and saves that as   *)
(* the query's file of the day.  A code that IBKR was not done with is     *)
(* left in a file for a later job.  The scheduled job and those started by *)
(* hand (command line, import route) share both kinds of files and may     *)
(* overlap.                                                                *)
(*                                                                         *)
(* Time is counted in thirds of a day, eight hours each.  A request is     *)
(* known by the time at which it was sent, and so is its statement.        *)
(***************************************************************************)
EXTENDS Integers

CONSTANTS
    NumQueries,    \* the configured queries, in their order
    Jobs,          \* calls of fetch_flex_statements
    MaxAttempts,   \* _RATE_LIMIT_MAX_RETRIES
    MaxTime,       \* bound on the clock
    MayFail        \* whether the network may fail or a job be killed

Queries == 1 .. NumQueries
Times == 0 .. MaxTime
DayOf(t) == t \div 3
Days == {DayOf(t) : t \in Times}
Never == -1

VARIABLES
    now,
    file,      \* per query and day: what the file of that name holds
    ref,       \* per query: the saved reference code, and when it was saved
    phase,     \* per job: where it is
    scheduled, \*   whether the scheduler started it
    since,     \*   when it started, and read the date for the file names
    query,     \*   the query it is at
    attempt,   \*   its attempts at that
    code,      \*   the reference code it polls with
    result     \*   per query: what became of it

vars == <<now, file, ref, phase, scheduled, since, query, attempt, code, result>>

NoFile == [state |-> "absent", of |-> Never]
NoRef == [code |-> Never, at |-> Never]
Large == {"whole", "broken"}

Phases == {"idle", "query", "asking", "polling", "writing", "clearing",
           "done", "raised", "dead"}
Working == Phases \ {"idle", "done", "raised", "dead"}
Day(j) == DayOf(since[j])
Target(j) == file[query[j]][Day(j)]

Init ==
    /\ now = 0
    /\ file = [q \in Queries |-> [d \in Days |-> NoFile]]
    /\ ref = [q \in Queries |-> NoRef]
    /\ phase = [j \in Jobs |-> "idle"]
    /\ scheduled = [j \in Jobs |-> FALSE]
    /\ since = [j \in Jobs |-> 0]
    /\ query = [j \in Jobs |-> 1]
    /\ attempt = [j \in Jobs |-> 1]
    /\ code = [j \in Jobs |-> Never]
    /\ result = [j \in Jobs |-> [q \in Queries |-> "none"]]

(* A job takes less than eight hours: all the polls of a query take at most *)
(* two, and only a query that is rate limited is tried again.               *)
Tick ==
    /\ now < MaxTime
    /\ \A j \in Jobs : phase[j] \in Working => since[j] = now
    /\ now' = now + 1
    /\ UNCHANGED <<file, ref, phase, scheduled, since, query, attempt, code, result>>

(* The scheduler has one time of day, here in the last third. *)
Begin(j, byScheduler) ==
    /\ phase[j] = "idle"
    /\ byScheduler => now % 3 = 2 /\ \A k \in Jobs : scheduled[k] => Day(k) # DayOf(now)
    /\ scheduled' = [scheduled EXCEPT ![j] = byScheduler]
    /\ since' = [since EXCEPT ![j] = now]
    /\ phase' = [phase EXCEPT ![j] = "query"]
    /\ UNCHANGED <<now, file, ref, query, attempt, code, result>>

(* The job is through with a query. *)
Leave(j, res) ==
    /\ result' = [result EXCEPT ![j][query[j]] = res]
    /\ attempt' = [attempt EXCEPT ![j] = 1]
    /\ code' = [code EXCEPT ![j] = Never]
    /\ IF query[j] < NumQueries
         THEN /\ query' = [query EXCEPT ![j] = @ + 1]
              /\ phase' = [phase EXCEPT ![j] = "query"]
         ELSE /\ phase' = [phase EXCEPT ![j] = "done"]
              /\ UNCHANGED query

(* A file of more than 1 KB is taken for today's statement. *)
SkipQuery(j) ==
    /\ phase[j] = "query"
    /\ Target(j).state \in Large
    /\ Leave(j, "cached")
    /\ UNCHANGED <<now, file, ref, scheduled, since>>

TakeQuery(j) ==
    /\ phase[j] = "query"
    /\ Target(j).state \notin Large
    /\ phase' = [phase EXCEPT ![j] = "asking"]
    /\ UNCHANGED <<now, file, ref, scheduled, since, query, attempt, code, result>>

(* Mutant of TryAgain: nobody counts. *)
TryAgain_Forever(j) ==
    /\ phase' = [phase EXCEPT ![j] = "asking"]
    /\ code' = [code EXCEPT ![j] = Never]
    /\ UNCHANGED <<attempt, query, result>>

(* A rate limit is waited out, up to a number of attempts. *)
TryAgain(j) ==
    IF attempt[j] < MaxAttempts
      THEN /\ attempt' = [attempt EXCEPT ![j] = @ + 1]
           /\ phase' = [phase EXCEPT ![j] = "asking"]
           /\ code' = [code EXCEPT ![j] = Never]
           /\ UNCHANGED <<query, result>>
      ELSE Leave(j, "failed")

(* _load_pending_ref: what was saved in this third of a day is younger     *)
(* than eight hours, in the one before it may be.                          *)
UseRef(j) ==
    /\ phase[j] = "asking"
    /\ ref[query[j]] # NoRef
    /\ now - ref[query[j]].at <= 1
    /\ code' = [code EXCEPT ![j] = ref[query[j]].code]
    /\ phase' = [phase EXCEPT ![j] = "polling"]
    /\ UNCHANGED <<now, file, ref, scheduled, since, query, attempt, result>>

(* Otherwise an old code is dropped, and a request sent. *)
SendRequest(j, answer) ==
    /\ phase[j] = "asking"
    /\ ref[query[j]] # NoRef => now - ref[query[j]].at >= 1
    /\ ref' = [ref EXCEPT ![query[j]] = NoRef]
    /\ \/ /\ answer = "accepted"
          /\ code' = [code EXCEPT ![j] = now]
          /\ phase' = [phase EXCEPT ![j] = "polling"]
          /\ UNCHANGED <<query, attempt, result>>
       \/ answer = "limited" /\ TryAgain(j)
       \/ answer = "refused" /\ Leave(j, "failed")
    /\ UNCHANGED <<now, file, scheduled, since>>

SaveRef(j) == ref' = [ref EXCEPT ![query[j]] = [code |-> code[j], at |-> now]]

(* The polls of one attempt and their outcome: the statement, and the file *)
(* is opened, which empties it; too many requests; not ready after the     *)
(* last poll; or any other answer.                                         *)
PollStatement(j, answer) ==
    /\ phase[j] = "polling"
    /\ \/ /\ answer = "ready"
          /\ file' = [file EXCEPT ![query[j]][Day(j)] = [state |-> "empty", of |-> Never]]
          /\ phase' = [phase EXCEPT ![j] = "writing"]
          /\ UNCHANGED <<ref, query, attempt, code, result>>
       \/ answer = "limited" /\ SaveRef(j) /\ TryAgain(j) /\ UNCHANGED file
       \/ answer = "pending" /\ SaveRef(j) /\ Leave(j, "pending") /\ UNCHANGED file
       \/ answer = "refused" /\ Leave(j, "failed") /\ UNCHANGED <<file, ref>>
    /\ UNCHANGED <<now, scheduled, since>>

(* Mutant of WriteStatement: the file is named by the date of the download. *)
WriteStatement_Today(j) ==
    /\ phase[j] = "writing"
    /\ \E s \in {"short", "whole"} :
          file' = [file EXCEPT ![query[j]][DayOf(now)] = [state |-> s, of |-> code[j]]]
    /\ phase' = [phase EXCEPT ![j] = "clearing"]
    /\ UNCHANGED <<now, ref, scheduled, since, query, attempt, code, result>>

(* write_text.  If another job wrote since this one emptied the file, the  *)
(* longer of the two texts sticks out.                                     *)
WriteStatement(j) ==
    /\ phase[j] = "writing"
    /\ \E s \in {"short", "whole"} \union (IF Target(j).state = "empty" THEN {} ELSE {"broken"}) :
          file' = [file EXCEPT ![query[j]][Day(j)] = [state |-> s, of |-> code[j]]]
    /\ phase' = [phase EXCEPT ![j] = "clearing"]
    /\ UNCHANGED <<now, ref, scheduled, since, query, attempt, code, result>>

ClearRef(j) ==
    /\ phase[j] = "clearing"
    /\ ref' = [ref EXCEPT ![query[j]] = NoRef]
    /\ Leave(j, "saved")
    /\ UNCHANGED <<now, file, scheduled, since>>

(* The network fails: no except clause is for that, and the exception      *)
(* leaves fetch_flex_statements.                                           *)
NetworkFails(j) ==
    /\ MayFail
    /\ phase[j] \in {"asking", "polling"}
    /\ phase' = [phase EXCEPT ![j] = "raised"]
    /\ UNCHANGED <<now, file, ref, scheduled, since, query, attempt, code, result>>

(* The process is killed; a file that was being written may be cut off.    *)
Die(j) ==
    /\ MayFail
    /\ phase[j] \in Working
    /\ \/ UNCHANGED file
       \/ /\ phase[j] = "writing"
          /\ file' = [file EXCEPT ![query[j]][Day(j)] = [state |-> "broken", of |-> code[j]]]
    /\ phase' = [phase EXCEPT ![j] = "dead"]
    /\ UNCHANGED <<now, ref, scheduled, since, query, attempt, code, result>>

Work(j) ==
    \/ SkipQuery(j) \/ TakeQuery(j) \/ UseRef(j)
    \/ \E a \in {"accepted", "limited", "refused"} : SendRequest(j, a)
    \/ \E a \in {"ready", "limited", "pending", "refused"} : PollStatement(j, a)
    \/ WriteStatement(j) \/ ClearRef(j)

Finished ==
    /\ now = MaxTime
    /\ \A j \in Jobs : phase[j] \notin Working
    /\ UNCHANGED vars

Next ==
    \/ Tick
    \/ \E j \in Jobs, s \in BOOLEAN : Begin(j, s)
    \/ \E j \in Jobs : Work(j) \/ NetworkFails(j) \/ Die(j)
    \/ Finished

Spec == Init /\ [][Next]_vars

(* Jobs are scheduled, waits end and requests have timeouts. *)
Fairness == \A j \in Jobs : WF_vars(Work(j))

FairSpec == Spec /\ Fairness

-----------------------------------------------------------------------------
(* The job was at a query, or is. *)
WasAt(j, q) == phase[j] # "idle" /\ (result[j][q] # "none" \/ query[j] = q)

(* Two jobs were at the same query, with the same file. *)
Met(j, k, q, d) ==
    /\ j # k
    /\ \A i \in {j, k} : WasAt(i, q) /\ Day(i) = d

(* The file of a day that a job reported as saved is there and is not cut  *)
(* off: only a second job at the same file can have spoilt it, and without *)
(* a second job only a job that was killed while it wrote leaves a file    *)
(* that looks like a statement and is none.  And once a statement is in    *)
(* the archive the reference to it is gone, unless a second job had the    *)
(* same code or the job was killed before it could remove it: a reference  *)
(* that was left would be resumed, and an old statement saved as that of a *)
(* new day (fetch_job.py:156, flex_client.py:246-254).                     *)
SavedIsArchived ==
    \A q \in Queries, d \in Days :
        /\ \A j \in Jobs : result[j][q] = "saved" /\ Day(j) = d =>
              file[q][d].state \in {"short", "whole"} \/ \E k \in Jobs : Met(j, k, q, d)
        /\ file[q][d].state = "broken" =>
              \/ \E j \in Jobs : phase[j] = "dead" /\ query[j] = q /\ Day(j) = d
              \/ \E j, k \in Jobs : Met(j, k, q, d)
        /\ ref[q] # NoRef /\ file[q][d].of = ref[q].code =>
              \/ \E j \in Jobs : phase[j] \in {"writing", "clearing", "dead"} /\ query[j] = q
              \/ \E j, k \in Jobs : j # k /\ WasAt(j, q) /\ WasAt(k, q)

(* A job ends, unless it dies: rate limits and statements that are not     *)
(* ready are retried a bounded number of times, query after query          *)
(* (fetch_job.py:64-115, 152-174).                                         *)
JobEnds == \A j \in Jobs : phase[j] = "query" ~> phase[j] \in {"done", "raised", "dead"}

(* "Each query is fetched independently -- a failure on one does not block *)
(* others" (fetch_job.py:126): a job that has ended, in whatever way, has  *)
(* tried every query.                                                      *)
FailureBlocksNobody ==
    \A j \in Jobs : phase[j] \in {"done", "raised"} =>
        \A q \in Queries : result[j][q] # "none" \/ query[j] = q
=============================================================================
