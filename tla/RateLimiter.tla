----------------------------- MODULE RateLimiter -----------------------------
(***************************************************************************)
(* The sliding-window limiter before the endpoints that call a model       *)
(* (core/rate_limit.py), for the requests of one client.  FastAPI runs the *)
(* dependency in threads, nothing is locked, and check touches the dict of *)
(* timestamps in steps of its own: it reads the list, stores a pruned      *)
(* copy, deletes the entry if it is empty, compares the length, and        *)
(* appends.  The dict maps the client to a list object, and a thread that  *)
(* has got hold of the list keeps it although another stores a copy.       *)
(***************************************************************************)
EXTENDS Integers, FiniteSets

CONSTANTS
    Requests,     \* each makes one call of check
    MaxRequests,  \* max_requests
    Window,       \* window_seconds
    MaxTime       \* bound on the clock

VARIABLES
    time,
    entry,        \* _hits[key]: a list, 0 if there is none
    lists,        \* per list: the requests whose times are in it
    at,           \* per request: its now, -1 before check is called
    mine,         \* per request: the list it holds, 0 if none
    place,        \* per request: where in check it is
    shared        \* the requests whose check has overlapped with another

vars == <<time, entry, lists, at, mine, place, shared>>

Lists == 0 .. Cardinality(Requests) + 2
Fresh == CHOOSE l \in Lists \ {0} : l # entry /\ \A r \in Requests : mine[r] # l

(* The entry becomes list e, request r holds list m, the lists hold ls: a  *)
(* list that nobody holds any more is garbage.                             *)
Becomes(r, e, m, ls) ==
    /\ entry' = e
    /\ mine' = [mine EXCEPT ![r] = m]
    /\ lists' = [l \in Lists |->
                    IF l \in {e, m} \/ \E q \in Requests \ {r} : mine[q] = l THEN ls[l] ELSE {}]

InCheck == {r \in Requests : place[r] \notin {"idle", "admitted", "refused", "raised"}}

Init ==
    /\ time = 0 /\ entry = 0 /\ lists = [l \in Lists |-> {}]
    /\ at = [r \in Requests |-> -1]
    /\ mine = [r \in Requests |-> 0]
    /\ place = [r \in Requests |-> "idle"]
    /\ shared = {}

Goto(r, p) == place' = [place EXCEPT ![r] = p]

Tick ==
    /\ time < MaxTime /\ time' = time + 1
    /\ UNCHANGED <<entry, lists, at, mine, place, shared>>

(* now = time.monotonic() *)
Call(r) ==
    /\ place[r] = "idle"
    /\ at' = [at EXCEPT ![r] = time]
    /\ shared' = IF InCheck = {} THEN shared ELSE shared \union InCheck \union {r}
    /\ Goto(r, "called")
    /\ UNCHANGED <<time, entry, lists, mine>>

(* self._hits[key] of a defaultdict makes the entry it lacks. *)
Entry == IF entry = 0 THEN Fresh ELSE entry

(* timestamps = self._hits[key] *)
Read(r) ==
    /\ place[r] = "called"
    /\ Becomes(r, Entry, Entry, lists)
    /\ Goto(r, "read")
    /\ UNCHANGED <<time, at, shared>>

Recent(r) == {q \in lists[mine[r]] : at[q] > at[r] - Window}

(* The copy without the expired times becomes the entry. *)
Prune(r) ==
    /\ place[r] = "read"
    /\ Becomes(r, Fresh, 0, [lists EXCEPT ![Fresh] = Recent(r)])
    /\ Goto(r, "pruned")
    /\ UNCHANGED <<time, at, shared>>

(* if not self._hits[key] *)
TestEmpty(r) ==
    /\ place[r] = "pruned"
    /\ Becomes(r, Entry, 0, lists)
    /\ Goto(r, IF lists[Entry] = {} THEN "empty" ELSE "counted")
    /\ UNCHANGED <<time, at, shared>>

(* del self._hits[key], which raises if the entry is gone. *)
Evict(r) ==
    /\ place[r] = "empty"
    /\ Becomes(r, 0, 0, lists)
    /\ Goto(r, IF entry = 0 THEN "raised" ELSE "counted")
    /\ UNCHANGED <<time, at, shared>>

(* A plausible bug, used as a mutant only: one request more is let in. *)
Full_OffByOne == Cardinality(lists[entry]) > MaxRequests

Full == Cardinality(lists[entry]) >= MaxRequests

(* HTTP 429 *)
Refuse(r) ==
    /\ place[r] = "counted" /\ Full
    /\ Goto(r, "refused")
    /\ UNCHANGED <<time, entry, lists, at, mine, shared>>

Pass(r) ==
    /\ place[r] = "counted" /\ ~Full
    /\ Goto(r, "passed")
    /\ UNCHANGED <<time, entry, lists, at, mine, shared>>

(* setdefault(key, []), and the append to the list it returned. *)
TakeList(r) ==
    /\ place[r] = "passed"
    /\ Becomes(r, Entry, Entry, lists)
    /\ Goto(r, "appending")
    /\ UNCHANGED <<time, at, shared>>

AppendTime(r) ==
    /\ place[r] = "appending"
    /\ Becomes(r, entry, 0, [lists EXCEPT ![mine[r]] = @ \union {r}])
    /\ Goto(r, "admitted")
    /\ UNCHANGED <<time, at, shared>>

Check(r) == \/ Call(r) \/ Read(r) \/ Prune(r) \/ TestEmpty(r) \/ Evict(r)
            \/ Refuse(r) \/ Pass(r) \/ TakeList(r) \/ AppendTime(r)

Next == Tick \/ \E r \in Requests : Check(r)

Spec == Init /\ [][Next]_vars

-----------------------------------------------------------------------------
Admitted == {r \in Requests : place[r] = "admitted"}
InWindow(r) == {q \in Admitted : at[q] > at[r] - Window /\ at[q] <= at[r]}

(* As long as checks have not overlapped, no window of time has more than  *)
(* max_requests admitted requests; and the harm of an overlap does not     *)
(* outlast it: a check that is alone is refused only if its own window is  *)
(* full, and never ends in an exception, whatever lists and entries        *)
(* earlier checks have left (rate_limit.py:36-60).                         *)
LoneChecksAreExact ==
    /\ shared = {} => \A r \in Admitted : Cardinality(InWindow(r)) <= MaxRequests
    /\ \A r \in Requests \ shared :
         /\ place[r] # "raised"
         /\ place[r] = "refused" => Cardinality(InWindow(r)) >= MaxRequests

(* "Allow the request or raise HTTP 429." (rate_limit.py:38): no check     *)
(* ends in a KeyError.                                                     *)
AllowsOr429 == \A r \in Requests : place[r] # "raised"
=============================================================================
