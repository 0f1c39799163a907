------------------------------ MODULE QueryCache ------------------------------
(***************************************************************************)
(* The two query caches of the backend and the data under them: the cache  *)
(* of answers (core/cache.py) and, below it, the cache of cost bases       *)
(* (utils/fifo.py), from which answers such as the account overview are    *)
(* computed.  Both live in the memory of the backend, where requests are   *)
(* threads.  Imports change the database: those of the import route run in *)
(* the backend and clear the caches when they have ended, those of the     *)
(* worker run in another process, and only the freshness check that every  *)
(* request begins with can notice them.                                    *)
(*                                                                         *)
(* The keys of the cache of answers are modelled, and one key of the cache *)
(* of cost bases, on which all of those answers depend.  A request takes   *)
(* less than a tick of the clock.                                          *)
(***************************************************************************)
EXTENDS Integers

CONSTANTS
    Keys,         \* keys of the cache of answers
    Requests,     \* threads that ask for an answer, each once
    Imports,      \* imports, each of one statement
    Ttl,          \* how long entries live: 24 hours
    Interval,     \* _FRESHNESS_CHECK_INTERVAL
    MaxTime,      \* bound on the clock
    MayAmend      \* whether a statement may be about dates that are known

ASSUME CacheActorsAssumption == Requests \intersect Imports = {}

VARIABLES
    now,
    print,        \* what the fingerprint shows: account rows, 0 for none
    data,         \* the version of everything else: positions, trades, flows
    import,       \* per import: how far it is
    route,        \*   and whether the import route runs it
    checked,      \* _last_freshness_check_time
    noted,        \* _last_data_fingerprint
    answers,      \* _cache: per key, an entry
    costs,        \* _fifo_cache
    phase,        \* per request: where it is
    key,          \*   what it asks for
    seen,         \*   the fingerprint, later the version of the trades, it read
    work,         \*   the value it computes
    met,          \* per request or import that invalidates: the requests that
                  \*   have held a reading since it began to
    flushed       \* of the last invalidation that ended: the data it left, and
                  \*   whom it met

db == <<print, data, import, route>>
check == <<checked, noted, key, seen>>
marks == <<met, flushed>>
vars == <<now, db, check, answers, costs, phase, work, marks>>

(* A value is known by the oldest version of the data it was computed      *)
(* from, and by the requests that read what it was computed from; an entry *)
(* also by its expiry.                                                     *)
NoEntry == [data |-> -1, by |-> {}, expires |-> -1]
NoValue == [data |-> -1, by |-> {}]
Value(r) == [data |-> data, by |-> {r}]

Init ==
    /\ now = 0 /\ print \in {0, 1} /\ data = 0
    /\ import = [i \in Imports |-> "idle"]
    /\ route = [i \in Imports |-> FALSE]
    /\ checked = -Interval /\ noted = 0
    /\ answers = [k \in Keys |-> NoEntry] /\ costs = NoEntry
    /\ phase = [r \in Requests |-> "idle"]
    /\ key \in [Requests -> Keys]
    /\ seen = [r \in Requests |-> 0]
    /\ work = [r \in Requests |-> NoValue]
    /\ met = [x \in Requests \union Imports |-> {}]
    /\ flushed = [data |-> -1, met |-> {}]

Busy == {r \in Requests : phase[r] \notin {"idle", "done", "raised"}}

Tick ==
    /\ now < MaxTime /\ Busy = {}
    /\ now' = now + 1
    /\ UNCHANGED <<db, check, answers, costs, phase, work, marks>>

-----------------------------------------------------------------------------
(* invalidate_all, called by x: _cache.clear(), then the FIFO cache.       *)

(* The requests that hold what they have read, and have not stored it yet. *)
Holding == {r \in Requests : phase[r] \in {"costs", "dropping", "trades", "storing", "putting"}}

(* The invalidations that have cleared the answers and not yet the costs.  *)
Half == {r \in Requests : phase[r] = "half"} \union {i \in Imports : import[i] = "half"}

ClearAnswers(x) ==
    /\ answers' = [k \in Keys |-> NoEntry]
    /\ met' = [met EXCEPT ![x] = Holding]
    /\ UNCHANGED <<costs, flushed>>

(* Mutant of ClearCosts: the FIFO cache is forgotten. *)
ClearCosts_Forgotten(x) ==
    /\ flushed' = [data |-> data, met |-> met[x]]
    /\ met' = [met EXCEPT ![x] = {}]
    /\ UNCHANGED <<answers, costs>>

ClearCosts(x) ==
    /\ costs' = NoEntry
    /\ flushed' = [data |-> data, met |-> met[x]]
    /\ met' = [met EXCEPT ![x] = {}]
    /\ UNCHANGED answers

-----------------------------------------------------------------------------
(* Imports.                                                                *)

(* _write_results stores the account row first.  It is of a new date, or   *)
(* replaces a row that is there.                                           *)
WriteAccount(i, byRoute) ==
    /\ import[i] = "idle"
    /\ print' = print + 1 \/ (MayAmend /\ print > 0 /\ print' = print)
    /\ route' = [route EXCEPT ![i] = byRoute]
    /\ import' = [import EXCEPT ![i] = "writing"]
    /\ UNCHANGED <<now, data, check, answers, costs, phase, work, marks>>

(* Positions, trades and cash flows follow in transactions of their own.   *)
WriteRest(i) ==
    /\ import[i] = "writing"
    /\ data' = data + 1
    /\ import' = [import EXCEPT ![i] = IF route[i] THEN "clearing" ELSE "done"]
    /\ UNCHANGED <<now, print, route, check, answers, costs, phase, work, marks>>

(* run_import calls invalidate_all. *)
ImportClears(i) ==
    /\ \/ /\ import[i] = "clearing" /\ ClearAnswers(i)
          /\ import' = [import EXCEPT ![i] = "half"]
       \/ /\ import[i] = "half" /\ ClearCosts(i)
          /\ import' = [import EXCEPT ![i] = "done"]
    /\ UNCHANGED <<now, print, data, route, check, phase, work>>

-----------------------------------------------------------------------------
(* Requests.                                                               *)

Goto(r, p) == phase' = [phase EXCEPT ![r] = p]

(* get_db: the check is due once per interval, and takes the slot at once. *)
Arrive(r) ==
    /\ phase[r] = "idle"
    /\ IF now - checked < Interval
         THEN Goto(r, "lookup") /\ UNCHANGED checked
         ELSE Goto(r, "checking") /\ checked' = now
    /\ UNCHANGED <<now, db, noted, key, seen, answers, costs, work, marks>>

ReadFingerprint(r) ==
    /\ phase[r] = "checking"
    /\ seen' = [seen EXCEPT ![r] = print]
    /\ Goto(r, "comparing")
    /\ UNCHANGED <<now, db, checked, noted, key, answers, costs, work, marks>>

(* No data, or nothing new; the first fingerprint is only noted. *)
Compare(r) ==
    /\ phase[r] = "comparing"
    /\ Goto(r, IF seen[r] \in {0, noted} THEN "lookup"
               ELSE IF noted = 0 THEN "noting" ELSE "clearing")
    /\ UNCHANGED <<now, db, check, answers, costs, work, marks>>

CheckClears(r) ==
    /\ \/ phase[r] = "clearing" /\ ClearAnswers(r) /\ Goto(r, "half")
       \/ phase[r] = "half" /\ ClearCosts(r) /\ Goto(r, "noting")
    /\ UNCHANGED <<now, db, check, work>>

Note(r) ==
    /\ phase[r] = "noting"
    /\ noted' = seen[r]
    /\ Goto(r, "lookup")
    /\ UNCHANGED <<now, db, checked, key, seen, answers, costs, work, marks>>

Expired(e) == now > e.expires

Answer(r) == answers[key[r]]

(* get: a hit answers the request; an entry that has expired is deleted in *)
(* a second step.                                                          *)
Lookup(r) ==
    /\ phase[r] = "lookup"
    /\ Goto(r, IF Answer(r) = NoEntry THEN "reading"
               ELSE IF Expired(Answer(r)) THEN "deleting" ELSE "done")
    /\ UNCHANGED <<now, db, check, answers, costs, work, marks>>

(* del raises KeyError if the key is not there any more. *)
Delete(r) ==
    /\ phase[r] = "deleting"
    /\ answers' = [answers EXCEPT ![key[r]] = NoEntry]
    /\ Goto(r, IF Answer(r) = NoEntry THEN "raised" ELSE "reading")
    /\ UNCHANGED <<now, db, check, costs, work, marks>>

(* The rows themselves.  No account row: the answer is empty, not cached.  *)
ReadRows(r) ==
    /\ phase[r] = "reading"
    /\ IF print = 0
         THEN Goto(r, "done") /\ UNCHANGED <<work, met>>
         ELSE /\ Goto(r, "costs")
              /\ work' = [work EXCEPT ![r] = Value(r)]
              /\ met' = [x \in DOMAIN met |-> IF x \in Half THEN met[x] \union {r} ELSE met[x]]
    /\ UNCHANGED <<now, db, check, answers, costs, flushed>>

(* An answer is as old as the oldest thing it was computed from. *)
Older(v, w) == [data |-> IF v.data <= w.data THEN v.data ELSE w.data, by |-> v.by \union w.by]

(* The same for the cost bases: _fifo_cache, and trades if it has none. *)
LookupCosts(r) ==
    /\ phase[r] = "costs"
    /\ IF costs = NoEntry THEN Goto(r, "trades") /\ UNCHANGED work
       ELSE IF Expired(costs) THEN Goto(r, "dropping") /\ UNCHANGED work
       ELSE work' = [work EXCEPT ![r] = Older(@, costs)] /\ Goto(r, "putting")
    /\ UNCHANGED <<now, db, check, answers, costs, marks>>

DropCosts(r) ==
    /\ phase[r] = "dropping"
    /\ costs' = NoEntry
    /\ Goto(r, IF costs = NoEntry THEN "raised" ELSE "trades")
    /\ UNCHANGED <<now, db, check, answers, work, marks>>

(* Trades are newer than the rows that were read before. *)
ReadTrades(r) ==
    /\ phase[r] = "trades"
    /\ seen' = [seen EXCEPT ![r] = data]
    /\ Goto(r, "storing")
    /\ UNCHANGED <<now, db, checked, noted, key, answers, costs, work, marks>>

Stored(v) == [data |-> v.data, by |-> v.by, expires |-> now + Ttl]

StoreCosts(r) ==
    /\ phase[r] = "storing"
    /\ costs' = Stored([data |-> seen[r], by |-> {r}])
    /\ Goto(r, "putting")
    /\ UNCHANGED <<now, db, check, answers, work, marks>>

(* put, and the answer is given. *)
Put(r) ==
    /\ phase[r] = "putting"
    /\ answers' = [answers EXCEPT ![key[r]] = Stored(work[r])]
    /\ work' = [work EXCEPT ![r] = NoValue]
    /\ Goto(r, "done")
    /\ UNCHANGED <<now, db, check, costs, marks>>

Finished ==
    /\ now = MaxTime
    /\ Busy = {} /\ \A r \in Requests : phase[r] # "idle"
    /\ \A i \in Imports : import[i] = "done"
    /\ UNCHANGED vars

Serve(r) ==
    \/ Arrive(r) \/ ReadFingerprint(r) \/ Compare(r) \/ CheckClears(r) \/ Note(r)
    \/ Lookup(r) \/ Delete(r) \/ ReadRows(r) \/ LookupCosts(r) \/ DropCosts(r)
    \/ ReadTrades(r) \/ StoreCosts(r) \/ Put(r)

Next ==
    \/ Tick
    \/ \E i \in Imports : WriteRest(i) \/ ImportClears(i)
    \/ \E i \in Imports, b \in BOOLEAN : WriteAccount(i, b)
    \/ \E r \in Requests : Serve(r)
    \/ Finished

Spec == Init /\ [][Next]_vars

-----------------------------------------------------------------------------
Entries == {answers[k] : k \in Keys} \union {costs}

(* An entry of either cache that is older than the data an invalidation    *)
(* found when it ended is computed from what some request had read and not *)
(* yet stored while that invalidation was under way: the entry is that     *)
(* request's own, or one of a later request, whenever that came, which     *)
(* used the cost bases it stored.  With no such request both caches are up *)
(* to the data, and stay so, although they are cleared one after the other *)
(* and other invalidations overlap (cache.py:54-67, fifo.py:146-190).      *)
OnlyOverlapIsStale ==
    \A e \in Entries : e # NoEntry /\ e.data < flushed.data => e.by \intersect flushed.met # {}

(* "Get a value from cache. Returns None if missing or expired."           *)
(* (cache.py:29): no request ends in an exception of the cache.            *)
GetNeverRaises == \A r \in Requests : phase[r] # "raised"
=============================================================================
