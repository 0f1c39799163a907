---------------------------- MODULE RequestsProofs ----------------------------
(***************************************************************************)
(* What requests share in memory and on disk: what is stale in the caches  *)
(* of answers and costs comes of requests that overlapped an invalidation, *)
(* the rate limiter is exact for checks that run alone, and the Longbridge *)
(* token that is stored is one that the server accepts, for any number of  *)
(* requests, keys, imports, threads and for all limits and lifetimes.      *)
(***************************************************************************)
EXTENDS MCRequests, FiniteSetTheorems, TLAPS

(* A value that is older than what the last invalidation left was read by  *)
(* a request which that invalidation met.                                  *)
Fits(v) == v.data < flushed.data => v.by \intersect flushed.met # {}

CacheShape ==
    /\ DOMAIN phase = Requests /\ DOMAIN import = Imports /\ DOMAIN answers = Keys
    /\ DOMAIN work = Requests /\ DOMAIN seen = Requests /\ DOMAIN met = Requests \union Imports
    /\ print \in Int /\ data \in Int /\ flushed.data \in Int /\ flushed.data <= data

EntriesFit == \A e \in Entries : e # NoEntry => e.data \in Int /\ Fits(e)

(* So do the readings that requests hold.                                  *)
HeldFits ==
    /\ \A r \in Holding : work[r].data \in Int /\ r \in work[r].by /\ Fits(work[r])
    /\ \A r \in Requests : /\ seen[r] \in Int
                           /\ phase[r] = "storing" /\ seen[r] < flushed.data => r \in flushed.met

(* An invalidation that is half done has met every request that holds a    *)
(* reading, and one that read what is cached by now.                       *)
HalfHasMet ==
    \A x \in Half : /\ Holding \subseteq met[x]
                    /\ \A k \in Keys : answers[k] # NoEntry => answers[k].by \intersect met[x] # {}

CInv == CacheShape /\ EntriesFit /\ HeldFits /\ HalfHasMet

LEMMA CInvInit == Init => CInv
<1> SUFFICES ASSUME Init PROVE CInv OBVIOUS
<1>1. CacheShape BY DEF Init, CacheShape
<1>2. EntriesFit BY DEF Init, EntriesFit, Entries
<1>3. HeldFits BY DEF Init, HeldFits, Holding
<1>4. HalfHasMet BY DEF Init, HalfHasMet, Half
<1> QED BY <1>1, <1>2, <1>3, <1>4 DEF CInv

(* What is stored is as old, and as much read by the same, as what it is   *)
(* stored from; what is made of two values is as old as one of them.       *)
LEMMA Values ==
    /\ \A v : Stored(v).data = v.data /\ Stored(v).by = v.by
    /\ \A v, w : /\ v.data \in Int /\ w.data \in Int => Older(v, w).data \in Int
                 /\ \A r \in v.by : r \in Older(v, w).by
                 /\ Fits(v) /\ Fits(w) => Fits(Older(v, w))
<1>1. \A v : Stored(v).data = v.data /\ Stored(v).by = v.by BY DEF Stored
<1>2. \A v, w : /\ Older(v, w).data \in {v.data, w.data}
                /\ Older(v, w).by = v.by \union w.by
    BY DEF Older
<1>3. ASSUME NEW v, NEW w, Fits(v), Fits(w) PROVE Fits(Older(v, w))
  <2>1. Older(v, w).data = v.data \/ Older(v, w).data = w.data BY <1>2
  <2> QED BY <1>2, <1>3, <2>1 DEF Fits
<1> QED BY <1>1, <1>2, <1>3

(* A step that begins and ends no invalidation, and reads no rows, may     *)
(* delete entries, store new ones, use a cost basis, and read the trades   *)
(* (cache.py:36-52, fifo.py:146-182).                                      *)
StoresAndDeletes ==
    /\ UNCHANGED <<met, flushed>> /\ data' \in Int /\ data <= data' /\ print' \in Int
    /\ DOMAIN phase' = Requests /\ DOMAIN import' = Imports /\ DOMAIN answers' = Keys
    /\ DOMAIN work' = Requests /\ DOMAIN seen' = Requests
    /\ Half' \subseteq Half /\ Holding' \subseteq Holding
    /\ \A r \in Holding' : work'[r] = work[r] \/ (costs # NoEntry /\ work'[r] = Older(work[r], costs))
    /\ \A r \in Requests : /\ seen'[r] \in {seen[r], data, print}
                           /\ phase'[r] = "storing" => \/ phase[r] = "storing" /\ seen'[r] = seen[r]
                                                       \/ seen'[r] = data
    /\ \A k \in Keys : \/ answers'[k] \in {answers[k], NoEntry}
                       \/ \E r \in Holding : answers'[k] = Stored(work[r])
    /\ \/ costs' \in {costs, NoEntry}
       \/ \E r \in Requests : phase[r] = "storing" /\ costs' = Stored([data |-> seen[r], by |-> {r}])

LEMMA StoringKeepsCInv == CInv /\ StoresAndDeletes => CInv'
<1> SUFFICES ASSUME CInv, StoresAndDeletes PROVE CInv'
    OBVIOUS
<1>1. CacheShape'
    BY DEF CInv, CacheShape, StoresAndDeletes
<1>2. \A v : Fits(v)' <=> Fits(v)
    BY DEF Fits, StoresAndDeletes
<1>3. EntriesFit'
  <2>1. ASSUME NEW k \in Keys, answers'[k] # NoEntry PROVE answers'[k].data \in Int /\ Fits(answers'[k])
    <3>1. CASE answers'[k] \in {answers[k], NoEntry}
        BY <2>1, <3>1 DEF CInv, EntriesFit, Entries
    <3>2. ASSUME NEW r \in Holding, answers'[k] = Stored(work[r])
          PROVE answers'[k].data \in Int /\ Fits(answers'[k])
        BY <3>2, Values DEF CInv, HeldFits, Fits
    <3> QED BY <3>1, <3>2 DEF StoresAndDeletes
  <2>2. ASSUME costs' # NoEntry PROVE costs'.data \in Int /\ Fits(costs')
    <3>1. CASE costs' \in {costs, NoEntry}
        BY <2>2, <3>1 DEF CInv, EntriesFit, Entries
    <3>2. ASSUME NEW r \in Requests, phase[r] = "storing",
                 costs' = Stored([data |-> seen[r], by |-> {r}])
          PROVE costs'.data \in Int /\ Fits(costs')
      <4>1. costs'.data = seen[r] /\ costs'.by = {r} BY <3>2, Values
      <4> QED BY <3>2, <4>1 DEF CInv, HeldFits, Fits
    <3> QED BY <3>1, <3>2 DEF StoresAndDeletes
  <2> QED BY <1>2, <2>1, <2>2 DEF EntriesFit, Entries
<1>4. HeldFits'
  <2>1. ASSUME NEW r \in Holding'
        PROVE work'[r].data \in Int /\ r \in work'[r].by /\ Fits(work'[r])
    <3>1. r \in Holding /\ work[r].data \in Int /\ r \in work[r].by /\ Fits(work[r])
        BY DEF StoresAndDeletes, CInv, HeldFits
    <3>2. costs # NoEntry => costs.data \in Int /\ Fits(costs)
        BY DEF CInv, EntriesFit, Entries
    <3> QED BY <3>1, <3>2, Values DEF StoresAndDeletes
  <2>2. ASSUME NEW r \in Requests
        PROVE  /\ seen'[r] \in Int
               /\ phase'[r] = "storing" /\ seen'[r] < flushed.data => r \in flushed.met
      BY DEF StoresAndDeletes, CInv, CacheShape, HeldFits
  <2> QED BY <1>2, <2>1, <2>2 DEF HeldFits, StoresAndDeletes
<1>5. HalfHasMet'
  <2> SUFFICES ASSUME NEW x \in Half, x \in Half'
               PROVE  /\ Holding' \subseteq met[x]
                      /\ \A k \in Keys : answers'[k] # NoEntry => answers'[k].by \intersect met[x] # {}
      BY DEF HalfHasMet, StoresAndDeletes
  <2>1. Holding \subseteq met[x]
      BY DEF CInv, HalfHasMet
  <2>2. ASSUME NEW k \in Keys, answers'[k] # NoEntry PROVE answers'[k].by \intersect met[x] # {}
    <3>1. CASE answers'[k] \in {answers[k], NoEntry}
        BY <2>2, <3>1 DEF CInv, HalfHasMet
    <3>2. ASSUME NEW r \in Holding, answers'[k] = Stored(work[r])
          PROVE answers'[k].by \intersect met[x] # {}
        BY <2>1, <3>2, Values DEF CInv, HeldFits
    <3> QED BY <3>1, <3>2 DEF StoresAndDeletes
  <2> QED BY <2>1, <2>2 DEF StoresAndDeletes
<1> QED BY <1>1, <1>3, <1>4, <1>5 DEF CInv

(* An invalidation begins with the cache of answers.                       *)
LEMMA ClearAnswersKeepsCInv ==
    ASSUME CInv, NEW x \in Requests \union Imports, ClearAnswers(x),
           UNCHANGED <<data, print, seen, work>>, Holding' = Holding,
           \A r \in Requests : phase'[r] = "storing" => phase[r] = "storing",
           DOMAIN phase' = Requests, DOMAIN import' = Imports, Half' \subseteq Half \union {x}
    PROVE  CInv'
<1>1. /\ answers' = [k \in Keys |-> NoEntry] /\ costs' = costs /\ flushed' = flushed
      /\ met' = [met EXCEPT ![x] = Holding]
    BY DEF ClearAnswers
<1>2. CacheShape' BY <1>1 DEF CInv, CacheShape
<1>3. \A v : Fits(v)' <=> Fits(v) BY <1>1 DEF Fits
<1>4. EntriesFit' BY <1>1, <1>3 DEF CInv, EntriesFit, Entries
<1>5. HeldFits' BY <1>1, <1>3 DEF CInv, HeldFits
<1>6. HalfHasMet' BY <1>1 DEF CInv, CacheShape, HalfHasMet
<1> QED BY <1>2, <1>4, <1>5, <1>6 DEF CInv

(* It ends with the cost bases: the answers that are cached then, and the  *)
(* readings that requests hold, are of requests that it met.               *)
LEMMA ClearCostsKeepsCInv ==
    ASSUME CInv, NEW x \in Half, ClearCosts(x),
           UNCHANGED <<data, print, seen, work>>, Holding' = Holding,
           \A r \in Requests : phase'[r] = "storing" => phase[r] = "storing",
           DOMAIN phase' = Requests, DOMAIN import' = Imports, Half' \subseteq Half \ {x}
    PROVE  CInv'
<1>1. /\ costs' = NoEntry /\ answers' = answers
      /\ flushed' = [data |-> data, met |-> met[x]] /\ met' = [met EXCEPT ![x] = {}]
    BY DEF ClearCosts
<1>2. flushed'.data = data /\ flushed'.met = met[x] BY <1>1
<1>3. CacheShape' BY <1>1, <1>2 DEF CInv, CacheShape
<1>4. /\ Holding \subseteq met[x]
      /\ \A k \in Keys : answers[k] # NoEntry => answers[k].by \intersect met[x] # {}
    BY DEF CInv, HalfHasMet
<1>5. EntriesFit'
    BY <1>1, <1>2, <1>4 DEF CInv, EntriesFit, Entries, Fits
<1>6. HeldFits'
  <2>1. \A r \in Requests : phase[r] = "storing" => r \in Holding BY DEF Holding
  <2> QED BY <1>1, <1>2, <1>4, <2>1 DEF CInv, HeldFits, Fits
<1>7. HalfHasMet' BY <1>1 DEF CInv, CacheShape, HalfHasMet
<1> QED BY <1>3, <1>5, <1>6, <1>7 DEF CInv

(* A request that reads rows is met by what is half done.                  *)
LEMMA ReadRowsKeepsCInv == ASSUME CInv, NEW r \in Requests, ReadRows(r), print # 0 PROVE CInv'
<1>1. /\ phase[r] = "reading" /\ phase' = [phase EXCEPT ![r] = "costs"]
      /\ work' = [work EXCEPT ![r] = Value(r)]
      /\ met' = [x \in DOMAIN met |-> IF x \in Half THEN met[x] \union {r} ELSE met[x]]
      /\ UNCHANGED <<answers, costs, flushed, data, print, import, seen>>
    BY DEF ReadRows, Goto, db, check
<1>2. Half' = Half /\ Holding' = Holding \union {r}
    BY <1>1 DEF CInv, CacheShape, Half, Holding
<1>3. CacheShape' BY <1>1 DEF CInv, CacheShape
<1>4. \A v : Fits(v)' <=> Fits(v) BY <1>1 DEF Fits
<1>5. EntriesFit' BY <1>1, <1>4 DEF CInv, EntriesFit, Entries
<1>6. HeldFits'
  <2>1. work'[r] = Value(r) /\ \A q \in Requests \ {r} : work'[q] = work[q]
      BY <1>1 DEF CInv, CacheShape
  <2>2. Value(r).data \in Int /\ r \in Value(r).by /\ Fits(Value(r))
      BY DEF Value, Fits, CInv, CacheShape
  <2>3. \A q \in Requests : phase'[q] = "storing" => phase[q] = "storing"
      BY <1>1 DEF CInv, CacheShape
  <2>4. Holding \subseteq Requests BY DEF Holding
  <2> QED BY <1>1, <1>2, <1>4, <2>1, <2>2, <2>3, <2>4 DEF CInv, HeldFits
<1>7. HalfHasMet'
  <2>1. \A x \in Half : met'[x] = met[x] \union {r}
      BY <1>1 DEF CInv, CacheShape, Half
  <2> SUFFICES ASSUME NEW x \in Half
               PROVE  /\ Holding' \subseteq met'[x]
                      /\ \A k \in Keys : answers[k] # NoEntry => answers[k].by \intersect met'[x] # {}
      BY <1>1, <1>2 DEF HalfHasMet
  <2>2. /\ Holding \subseteq met[x]
        /\ \A k \in Keys : answers[k] # NoEntry => answers[k].by \intersect met[x] # {}
      BY DEF CInv, HalfHasMet
  <2>3. met[x] \subseteq met'[x] /\ r \in met'[x] BY <2>1
  <2> QED BY <1>2, <2>2, <2>3
<1> QED BY <1>3, <1>5, <1>6, <1>7 DEF CInv

LEMMA CInvNext == CInv /\ [Next]_vars => CInv'
<1> SUFFICES ASSUME CInv, [Next]_vars PROVE CInv'
    OBVIOUS
<1> USE DEF CInv, CacheShape
<1>1. CASE UNCHANGED vars
  <2>1. StoresAndDeletes BY <1>1 DEF vars, db, check, marks, StoresAndDeletes, Half, Holding
  <2> QED BY <2>1, StoringKeepsCInv
<1>2. CASE Tick
  <2>1. StoresAndDeletes BY <1>2 DEF Tick, db, check, marks, StoresAndDeletes, Half, Holding
  <2> QED BY <2>1, StoringKeepsCInv
<1>3. ASSUME NEW i \in Imports, WriteRest(i) PROVE CInv'
  <2>1. StoresAndDeletes BY <1>3 DEF WriteRest, db, check, marks, StoresAndDeletes, Half, Holding
  <2> QED BY <2>1, StoringKeepsCInv
<1>4. ASSUME NEW i \in Imports, NEW b \in BOOLEAN, WriteAccount(i, b) PROVE CInv'
  <2>1. StoresAndDeletes BY <1>4 DEF WriteAccount, db, check, marks, StoresAndDeletes, Half, Holding
  <2> QED BY <2>1, StoringKeepsCInv
<1>5. ASSUME NEW i \in Imports, ImportClears(i) PROVE CInv'
  <2>1. /\ phase' = phase /\ DOMAIN import' = Imports /\ Holding' = Holding
        /\ UNCHANGED <<data, print, seen, work>>
      BY <1>5 DEF ImportClears, Holding, check
  <2>2. CASE import[i] = "clearing" /\ ClearAnswers(i) /\ import' = [import EXCEPT ![i] = "half"]
    <3>1. Half' \subseteq Half \union {i} BY <2>1, <2>2 DEF Half
    <3> QED BY <2>1, <2>2, <3>1, ClearAnswersKeepsCInv
  <2>3. CASE import[i] = "half" /\ ClearCosts(i) /\ import' = [import EXCEPT ![i] = "done"]
    <3>1. i \in Half /\ Half' \subseteq Half \ {i}
        BY <2>1, <2>3, CacheActorsAssumption DEF Half
    <3> QED BY <2>1, <2>3, <3>1, ClearCostsKeepsCInv
  <2> QED BY <1>5, <2>2, <2>3 DEF ImportClears
<1>6. ASSUME NEW r \in Requests, CheckClears(r) PROVE CInv'
  <2>1. /\ import' = import /\ DOMAIN phase' = Requests /\ UNCHANGED <<data, print, seen, work>>
        /\ \A q \in Requests : phase'[q] = "storing" => phase[q] = "storing"
        /\ Holding' = Holding
      BY <1>6 DEF CheckClears, Goto, db, check, Holding
  <2>2. CASE phase[r] = "clearing" /\ ClearAnswers(r) /\ Goto(r, "half")
    <3>1. Half' \subseteq Half \union {r} BY <2>1, <2>2 DEF Half, Goto
    <3> QED BY <2>1, <2>2, <3>1, ClearAnswersKeepsCInv
  <2>3. CASE phase[r] = "half" /\ ClearCosts(r) /\ Goto(r, "noting")
    <3>1. r \in Half /\ Half' \subseteq Half \ {r}
        BY <2>1, <2>3, CacheActorsAssumption DEF Half, Goto
    <3> QED BY <2>1, <2>3, <3>1, ClearCostsKeepsCInv
  <2> QED BY <1>6, <2>2, <2>3 DEF CheckClears
<1>7. ASSUME NEW r \in Requests, Arrive(r) \/ ReadFingerprint(r) \/ Compare(r) \/ Note(r) \/ Lookup(r)
      PROVE  CInv'
  <2>1. /\ UNCHANGED <<answers, costs, met, flushed, data, print, import, work>>
        /\ \E p \in {"lookup", "checking", "comparing", "noting", "clearing", "reading", "deleting", "done"} :
              Goto(r, p)
        /\ phase[r] \notin {"costs", "dropping", "trades", "storing", "putting"}
        /\ seen' = seen \/ seen' = [seen EXCEPT ![r] = print]
      BY <1>7 DEF Arrive, ReadFingerprint, Compare, Note, Lookup, db, check, marks
  <2>2. Half' \subseteq Half /\ Holding' \subseteq Holding
        /\ \A q \in Requests : phase'[q] = "storing" => phase[q] = "storing" /\ q # r
      BY <2>1 DEF Half, Holding, Goto
  <2>3. StoresAndDeletes
      BY <2>1, <2>2 DEF StoresAndDeletes, Goto
  <2> QED BY <2>3, StoringKeepsCInv
<1>8. ASSUME NEW r \in Requests, ReadRows(r) PROVE CInv'
  <2>1. CASE print # 0 BY <1>8, <2>1, ReadRowsKeepsCInv
  <2>2. CASE print = 0
    <3>1. /\ UNCHANGED <<answers, costs, met, flushed, data, print, import, work, seen>>
          /\ Goto(r, "done")
        BY <1>8, <2>2 DEF ReadRows, db, check
    <3>2. StoresAndDeletes
        BY <3>1 DEF StoresAndDeletes, Half, Holding, Goto
    <3> QED BY <3>2, StoringKeepsCInv
  <2> QED BY <2>1, <2>2
<1>9. ASSUME NEW r \in Requests, Delete(r) \/ DropCosts(r) PROVE CInv'
  <2>1. /\ UNCHANGED <<met, flushed, data, print, import, work, seen>>
        /\ \E p \in {"raised", "reading", "trades"} : Goto(r, p)
        /\ phase'[r] = "trades" => phase[r] = "dropping"
      BY <1>9 DEF Delete, DropCosts, db, check, marks, Goto
  <2>2. Half' \subseteq Half /\ Holding' \subseteq Holding
        /\ \A q \in Requests : phase'[q] = "storing" => phase[q] = "storing"
      BY <2>1 DEF Half, Holding, Goto
  <2>3. /\ DOMAIN answers' = Keys
        /\ \A k \in Keys : answers'[k] \in {answers[k], NoEntry}
        /\ costs' \in {costs, NoEntry}
      BY <1>9 DEF Delete, DropCosts
  <2>4. DOMAIN phase' = Requests BY <2>1 DEF Goto
  <2>5. StoresAndDeletes BY <2>1, <2>2, <2>3, <2>4 DEF StoresAndDeletes
  <2> QED BY <2>5, StoringKeepsCInv
<1>10. ASSUME NEW r \in Requests, LookupCosts(r) PROVE CInv'
  <2>1. /\ UNCHANGED <<answers, costs, met, flushed, data, print, import, seen>>
        /\ \E p \in {"trades", "dropping", "putting"} : Goto(r, p)
        /\ phase[r] = "costs"
        /\ \/ work' = work
           \/ costs # NoEntry /\ work' = [work EXCEPT ![r] = Older(work[r], costs)]
      BY <1>10 DEF LookupCosts, db, check, marks
  <2>2. Half' \subseteq Half /\ Holding' \subseteq Holding
        /\ \A q \in Requests : phase'[q] = "storing" => phase[q] = "storing"
      BY <2>1 DEF Half, Holding, Goto
  <2>3. \A q \in Requests : work'[q] = work[q] \/ (costs # NoEntry /\ work'[q] = Older(work[q], costs))
      BY <2>1
  <2>4. DOMAIN phase' = Requests /\ DOMAIN work' = Requests /\ Holding' \subseteq Requests
      BY <2>1 DEF Goto, Holding
  <2>5. StoresAndDeletes BY <2>1, <2>2, <2>3, <2>4 DEF StoresAndDeletes
  <2> QED BY <2>5, StoringKeepsCInv
<1>11. ASSUME NEW r \in Requests, ReadTrades(r) PROVE CInv'
  <2>1. /\ UNCHANGED <<answers, costs, met, flushed, data, print, import, work>>
        /\ phase[r] = "trades" /\ Goto(r, "storing") /\ seen' = [seen EXCEPT ![r] = data]
      BY <1>11 DEF ReadTrades, db, marks
  <2>2. Half' \subseteq Half /\ Holding' \subseteq Holding
      BY <2>1 DEF Half, Holding, Goto
  <2>3. \A q \in Requests \ {r} : phase'[q] = phase[q] /\ seen'[q] = seen[q]
      BY <2>1 DEF Goto
  <2>4. seen'[r] = data /\ DOMAIN phase' = Requests /\ DOMAIN seen' = Requests BY <2>1 DEF Goto
  <2>5. StoresAndDeletes BY <2>1, <2>2, <2>3, <2>4 DEF StoresAndDeletes
  <2> QED BY <2>5, StoringKeepsCInv
<1>12. ASSUME NEW r \in Requests, StoreCosts(r) PROVE CInv'
  <2>1. /\ UNCHANGED <<answers, met, flushed, data, print, import, work, seen>>
        /\ phase[r] = "storing" /\ Goto(r, "putting")
        /\ costs' = Stored([data |-> seen[r], by |-> {r}])
      BY <1>12 DEF StoreCosts, db, check, marks
  <2>2. Half' \subseteq Half /\ Holding' \subseteq Holding
        /\ \A q \in Requests : phase'[q] = "storing" => phase[q] = "storing"
      BY <2>1 DEF Half, Holding, Goto
  <2>3. DOMAIN phase' = Requests BY <2>1 DEF Goto
  <2>4. \A q \in Requests : seen'[q] = seen[q] BY <2>1
  <2>5. \E q \in Requests : phase[q] = "storing" /\ costs' = Stored([data |-> seen[q], by |-> {q}])
      BY <2>1
  <2>6. data' \in Int /\ data <= data' /\ print' \in Int BY <2>1
  <2>7. StoresAndDeletes BY <2>1, <2>2, <2>3, <2>4, <2>5, <2>6, Zenon DEF StoresAndDeletes
  <2> QED BY <2>7, StoringKeepsCInv
<1>13. ASSUME NEW r \in Requests, Put(r) PROVE CInv'
  <2>1. /\ UNCHANGED <<costs, met, flushed, data, print, import, seen>>
        /\ phase[r] = "putting" /\ Goto(r, "done")
        /\ answers' = [answers EXCEPT ![key[r]] = Stored(work[r])]
        /\ work' = [work EXCEPT ![r] = NoValue]
      BY <1>13 DEF Put, db, check, marks
  <2>2. /\ Half' \subseteq Half /\ Holding' \subseteq Holding \ {r} /\ r \in Holding
        /\ \A q \in Requests : phase'[q] = "storing" => phase[q] = "storing"
      BY <2>1 DEF Half, Holding, Goto
  <2>3. /\ DOMAIN phase' = Requests /\ DOMAIN answers' = Keys /\ DOMAIN work' = Requests
        /\ \A q \in Requests \ {r} : work'[q] = work[q]
      BY <2>1 DEF Goto
  <2>4. \A k \in Keys : answers'[k] = answers[k] \/ answers'[k] = Stored(work[r])
      BY <2>1
  <2>5. Holding' \subseteq Requests BY DEF Holding
  <2>6. StoresAndDeletes BY <2>1, <2>2, <2>3, <2>4, <2>5 DEF StoresAndDeletes
  <2> QED BY <2>6, StoringKeepsCInv
<1> QED BY <1>1, <1>2, <1>3, <1>4, <1>5, <1>6, <1>7, <1>8, <1>9, <1>10, <1>11, <1>12, <1>13
        DEF Next, Serve, Finished

(* An entry older than the data that the last invalidation left is made of *)
(* the readings of a request that held them while the invalidation was     *)
(* under way; without one, nothing older survives it or comes back,        *)
(* whatever overlaps (cache.py:54-67, fifo.py:146-190, main.py).           *)
THEOREM OnlyOverlapsAreStale == Spec => []OnlyOverlapIsStale
<1>1. CInv => OnlyOverlapIsStale
    BY DEF CInv, EntriesFit, Fits, OnlyOverlapIsStale
<1> QED BY <1>1, CInvInit, CInvNext, PTL DEF Spec

-----------------------------------------------------------------------------
(* The rate limiter.                                                       *)

Outside == {"idle", "admitted", "refused", "raised"}
Inside == {"called", "read", "pruned", "empty", "counted", "passed", "appending"}

LimiterTyped ==
    /\ time \in Int /\ at \in [Requests -> Int]
    /\ entry \in Limiter!Lists /\ mine \in [Requests -> Limiter!Lists] /\ lists \in [Limiter!Lists -> SUBSET Requests]
    /\ place \in [Requests -> Inside \union Outside] /\ shared \subseteq Requests
    /\ \A r \in Requests : at[r] <= time

(* A list is held while it is read or appended to; in the lists are only   *)
(* admitted requests; and a list that nobody holds is empty.               *)
ListsAreHeld ==
    /\ \A r \in Requests : place[r] \in {"read", "appending"} <=> mine[r] # 0
    /\ lists[0] = {}
    /\ \A l \in Limiter!Lists :
          /\ lists[l] \subseteq Limiter!Admitted
          /\ l # entry /\ (\A r \in Requests : mine[r] # l) => lists[l] = {}

(* What a check that has not overlapped with another can rely on.          *)
AloneKnows(r) ==
    /\ Limiter!InCheck = {r}
    /\ \A q \in Limiter!Admitted : at[q] <= at[r]
    /\ place[r] \in {"read", "appending"} => mine[r] = entry
    /\ place[r] \in {"pruned", "empty"} => entry # 0
    /\ place[r] = "empty" => lists[entry] = {}
    /\ place[r] \in {"pruned", "counted"} => lists[entry] \subseteq Limiter!InWindow(r)

EndedWell(r) ==
    /\ place[r] # "raised"
    /\ place[r] = "refused" => Cardinality(Limiter!InWindow(r)) >= MaxRequests

(* Without any overlap: who is not in the list is out of the window.       *)
ListIsComplete ==
    \A q \in Limiter!Admitted \ lists[entry] :
        at[q] <= time - Window /\ \A r \in Limiter!InCheck : at[q] <= at[r] - Window

WindowHasRoom(r) ==
    /\ place[r] \in {"passed", "appending"} => Cardinality(Limiter!InWindow(r)) < MaxRequests
    /\ place[r] = "admitted" => Cardinality(Limiter!InWindow(r)) <= MaxRequests

LInv ==
    /\ LimiterTyped /\ ListsAreHeld
    /\ \A r \in Limiter!InCheck \ shared : AloneKnows(r)
    /\ \A r \in Requests \ shared : EndedWell(r)
    /\ shared = {} => ListIsComplete /\ \A r \in Requests : WindowHasRoom(r)

(* The operator is the same in RateLimiter and here.                       *)
LEMMA SameCardinality == ASSUME NEW S PROVE Limiter!Cardinality(S) = Cardinality(S)
  BY DEF Limiter!Cardinality, Cardinality

LEMMA LInvIsExact == LInv => Limiter!LoneChecksAreExact
  BY SameCardinality DEF LInv, Limiter!LoneChecksAreExact, EndedWell, WindowHasRoom, Limiter!Admitted

LEMMA LInvInit == Limiter!Init => LInv
  <1> SUFFICES ASSUME Limiter!Init PROVE LInv
    OBVIOUS
  <1>1. Cardinality(Requests) \in Nat
    BY LimiterAssumption, FS_CardinalityType
  <1>2. 0 \in Limiter!Lists
    BY <1>1, SameCardinality DEF Limiter!Lists
  <1>3. Limiter!InCheck = {} /\ Limiter!Admitted = {}
    BY DEF Limiter!Init, Limiter!InCheck, Limiter!Admitted
  <1>4. LimiterTyped
    BY <1>2 DEF Limiter!Init, LimiterTyped, Inside, Outside
  <1>5. ListsAreHeld
    BY <1>2 DEF Limiter!Init, ListsAreHeld
  <1> QED
    BY <1>3, <1>4, <1>5 DEF Limiter!Init, LInv, EndedWell, WindowHasRoom, ListIsComplete

(* There is always a list that nobody holds.                               *)
LEMMA FreshIsFree ==
  ASSUME LimiterTyped
  PROVE  Limiter!Fresh \in Limiter!Lists \ {0} /\ Limiter!Fresh # entry /\ \A r \in Requests : mine[r] # Limiter!Fresh
  <1> DEFINE N == Cardinality(Requests)
             Held == {mine[r] : r \in Requests}
  <1>1. N \in Nat
    BY LimiterAssumption, FS_CardinalityType
  <1>2. IsFiniteSet(Held) /\ Cardinality(Held) <= N
    <2>1. mine \in [Requests -> Held]
      BY DEF LimiterTyped
    <2>2. mine \in Surjection(Requests, Held)
      BY <2>1 DEF Surjection
    <2> HIDE DEF Held
    <2> QED
      BY <2>2, LimiterAssumption, FS_Surjection
  <1>3. IsFiniteSet(1 .. N + 2) /\ Cardinality(1 .. N + 2) = N + 2
    <2>1. 1 \in Int /\ N + 2 \in Int /\ ~(1 > N + 2) /\ (N + 2) - 1 + 1 = N + 2
      BY <1>1
    <2> HIDE DEF N
    <2> QED
      BY <2>1, FS_Interval
  <1>4. IsFiniteSet(Held \union {entry}) /\ Cardinality(Held \union {entry}) <= N + 1
    <2> HIDE DEF Held, N
    <2>1. Cardinality(Held) \in Nat
      BY <1>2, FS_CardinalityType
    <2>2. /\ IsFiniteSet(Held \union {entry})
          /\ \/ Cardinality(Held \union {entry}) = Cardinality(Held)
             \/ Cardinality(Held \union {entry}) = Cardinality(Held) + 1
      BY <1>2, FS_AddElement
    <2> QED
      BY <1>1, <1>2, <2>1, <2>2
  <1>5. \E l \in 1 .. N + 2 : l \notin Held \union {entry}
    <2> SUFFICES ASSUME 1 .. N + 2 \subseteq Held \union {entry} PROVE FALSE
      OBVIOUS
    <2> HIDE DEF Held
    <2>1. Cardinality(1 .. N + 2) <= Cardinality(Held \union {entry})
      BY <1>4, FS_Subset
    <2> HIDE DEF N
    <2>2. Cardinality(Held \union {entry}) \in Int
      BY <1>4, FS_CardinalityType
    <2> QED
      BY <1>1, <1>3, <1>4, <2>1, <2>2
  <1>6. \E l \in Limiter!Lists \ {0} : l # entry /\ \A r \in Requests : mine[r] # l
    BY <1>1, <1>5, SameCardinality DEF Limiter!Lists
  <1> QED
    BY <1>6 DEF Limiter!Fresh

(* What changes when the entry and the list that is held do.               *)
LEMMA BecomesKeepsLists ==
  ASSUME LimiterTyped, ListsAreHeld, NEW r \in Requests, NEW e \in Limiter!Lists, NEW m \in Limiter!Lists, NEW ls,
         Limiter!Becomes(r, e, m, ls), ls \in [Limiter!Lists -> SUBSET Requests], ls[0] = {},
         \A l \in Limiter!Lists : ls[l] \subseteq Limiter!Admitted',
         \A q \in Requests : place'[q] \in {"read", "appending"} <=> (IF q = r THEN m ELSE mine[q]) # 0
  PROVE  /\ ListsAreHeld'
         /\ entry' = e /\ mine'[r] = m /\ \A q \in Requests \ {r} : mine'[q] = mine[q]
         /\ lists'[e] = ls[e]
         /\ mine' \in [Requests -> Limiter!Lists] /\ lists' \in [Limiter!Lists -> SUBSET Requests]
  <1>1. /\ entry' = e /\ mine' = [mine EXCEPT ![r] = m]
        /\ lists' = [l \in Limiter!Lists |->
                        IF l \in {e, m} \/ \E q \in Requests \ {r} : mine[q] = l THEN ls[l] ELSE {}]
    BY DEF Limiter!Becomes
  <1>2. 0 \in Limiter!Lists /\ Limiter!Lists' = Limiter!Lists
    BY LimiterAssumption, FS_CardinalityType, SameCardinality DEF Limiter!Lists
  <1>3. mine'[r] = m /\ \A q \in Requests \ {r} : mine'[q] = mine[q]
    BY <1>1 DEF LimiterTyped
  <1>4. lists'[e] = ls[e] /\ lists' \in [Limiter!Lists -> SUBSET Requests] /\ mine' \in [Requests -> Limiter!Lists]
    BY <1>1 DEF LimiterTyped
  <1>5. lists'[0] = {}
    BY <1>1, <1>2
  <1>6. ASSUME NEW l \in Limiter!Lists
        PROVE  /\ lists'[l] \subseteq Limiter!Admitted'
               /\ l # entry' /\ (\A q \in Requests : mine'[q] # l) => lists'[l] = {}
    BY <1>1, <1>3
  <1>7. ListsAreHeld'
    BY <1>2, <1>3, <1>5, <1>6 DEF ListsAreHeld
  <1> QED
    BY <1>1, <1>3, <1>4, <1>7

(* A step of a check that is under way and does not admit its request.     *)
Proceeds(r, p) ==
    /\ place[r] \in Inside /\ p \in (Inside \union Outside) \ {"idle", "admitted"}
    /\ place' = [place EXCEPT ![r] = p]
    /\ UNCHANGED <<time, at, shared>>

LEMMA PlacesOfProceeding ==
  ASSUME LimiterTyped, NEW r \in Requests, NEW p, Proceeds(r, p)
  PROVE  /\ place' \in [Requests -> Inside \union Outside]
         /\ place'[r] = p /\ \A q \in Requests \ {r} : place'[q] = place[q]
         /\ r \in Limiter!InCheck /\ r \notin Limiter!Admitted
         /\ Limiter!Admitted' = Limiter!Admitted /\ Limiter!InCheck' \subseteq Limiter!InCheck
         /\ p \in Inside => Limiter!InCheck' = Limiter!InCheck
         /\ \A q \in Requests : Limiter!InWindow(q)' = Limiter!InWindow(q)
  <1>1. place'[r] = p /\ (\A q \in Requests \ {r} : place'[q] = place[q])
        /\ place' \in [Requests -> Inside \union Outside]
    BY DEF Proceeds, LimiterTyped
  <1>2. r \in Limiter!InCheck /\ r \notin Limiter!Admitted
    BY DEF Proceeds, Limiter!InCheck, Limiter!Admitted, Inside
  <1>3. Limiter!Admitted' = Limiter!Admitted
    BY <1>1, <1>2 DEF Limiter!Admitted, Proceeds
  <1>4. Limiter!InCheck' \subseteq Limiter!InCheck /\ (p \in Inside => Limiter!InCheck' = Limiter!InCheck)
    BY <1>1, <1>2 DEF Limiter!InCheck, Inside
  <1>5. \A q \in Requests : Limiter!InWindow(q)' = Limiter!InWindow(q)
    BY <1>3 DEF Limiter!InWindow, Proceeds
  <1> QED
    BY <1>1, <1>2, <1>3, <1>4, <1>5

(* Such a step has to be followed only for its own request: if another is  *)
(* in a check, the checks have overlapped.                                 *)
LEMMA ProceedingKeepsLInv ==
  ASSUME LInv, NEW r \in Requests, NEW p, Proceeds(r, p),
         entry' \in Limiter!Lists, mine' \in [Requests -> Limiter!Lists], lists' \in [Limiter!Lists -> SUBSET Requests],
         ListsAreHeld',
         r \notin shared /\ p \in Inside => AloneKnows(r)',
         r \notin shared => EndedWell(r)',
         shared = {} => ListIsComplete' /\ WindowHasRoom(r)'
  PROVE  LInv'
  <1>1. /\ place' \in [Requests -> Inside \union Outside]
        /\ place'[r] = p /\ \A q \in Requests \ {r} : place'[q] = place[q]
        /\ r \in Limiter!InCheck /\ r \notin Limiter!Admitted
        /\ Limiter!Admitted' = Limiter!Admitted /\ Limiter!InCheck' \subseteq Limiter!InCheck
        /\ \A q \in Requests : Limiter!InWindow(q)' = Limiter!InWindow(q)
    BY PlacesOfProceeding DEF LInv
  <1>2. LimiterTyped'
    <2>1. Limiter!Lists' = Limiter!Lists
      BY DEF Limiter!Lists
    <2> QED
      BY <1>1, <2>1 DEF LInv, LimiterTyped, Proceeds
  <1>3. ASSUME NEW q \in Limiter!InCheck', q \notin shared' PROVE AloneKnows(q)'
    <2>1. q \in Limiter!InCheck /\ q \notin shared
      BY <1>1, <1>3 DEF Proceeds
    <2>2. Limiter!InCheck = {q}
      BY <2>1 DEF LInv, AloneKnows
    <2>3. q = r /\ p \in Inside
      BY <1>1, <1>3, <2>2 DEF Limiter!InCheck, Inside, Outside, Proceeds
    <2> QED
      BY <1>3, <2>2, <2>3 DEF Proceeds
  <1>4. ASSUME NEW q \in Requests, q \notin shared' PROVE EndedWell(q)'
    BY <1>1, <1>4 DEF LInv, EndedWell, Proceeds
  <1>5. shared' = {} => ListIsComplete' /\ \A q \in Requests : WindowHasRoom(q)'
    BY <1>1 DEF LInv, WindowHasRoom, Proceeds
  <1> QED
    BY <1>2, <1>3, <1>4, <1>5 DEF LInv

LEMMA ProceedingKeepsLists ==
  ASSUME LInv, NEW r \in Requests, NEW p, Proceeds(r, p),
         NEW e \in Limiter!Lists, NEW m \in Limiter!Lists, NEW ls, Limiter!Becomes(r, e, m, ls),
         ls \in [Limiter!Lists -> SUBSET Requests], ls[0] = {}, \A l \in Limiter!Lists : ls[l] \subseteq Limiter!Admitted,
         p \in {"read", "appending"} <=> m # 0
  PROVE  /\ ListsAreHeld'
         /\ entry' = e /\ mine'[r] = m /\ lists'[e] = ls[e]
         /\ entry' \in Limiter!Lists /\ mine' \in [Requests -> Limiter!Lists] /\ lists' \in [Limiter!Lists -> SUBSET Requests]
  <1>1. LimiterTyped /\ ListsAreHeld
    BY DEF LInv
  <1>2. place'[r] = p /\ (\A q \in Requests \ {r} : place'[q] = place[q]) /\ Limiter!Admitted' = Limiter!Admitted
    BY <1>1, PlacesOfProceeding
  <1>3. \A l \in Limiter!Lists : ls[l] \subseteq Limiter!Admitted'
    BY <1>2
  <1>4. \A q \in Requests : place'[q] \in {"read", "appending"} <=> (IF q = r THEN m ELSE mine[q]) # 0
    BY <1>1, <1>2 DEF ListsAreHeld
  <1> QED
    BY <1>1, <1>3, <1>4, BecomesKeepsLists

LEMMA WindowsAreFinite ==
  ASSUME NEW S, S \subseteq Requests
  PROVE  /\ IsFiniteSet(S) /\ Cardinality(S) \in Nat
         /\ \A T \in SUBSET S : Cardinality(T) \in Nat /\ Cardinality(T) <= Cardinality(S)
  BY LimiterAssumption, FS_Subset, FS_CardinalityType

(* The list that self._hits[key] is.                                       *)
LEMMA EntryIsAList ==
  ASSUME LInv
  PROVE  /\ Limiter!Entry \in Limiter!Lists \ {0}
         /\ entry # 0 => Limiter!Entry = entry
         /\ lists[Limiter!Entry] = lists[entry]
  <1>1. Limiter!Fresh \in Limiter!Lists \ {0} /\ Limiter!Fresh # entry /\ \A r \in Requests : mine[r] # Limiter!Fresh
    BY FreshIsFree DEF LInv
  <1>2. lists[0] = {} /\ lists[Limiter!Fresh] = {}
    BY <1>1 DEF LInv, ListsAreHeld
  <1> QED
    BY <1>1, <1>2 DEF Limiter!Entry, LInv, LimiterTyped

LEMMA ReadKeepsLInv ==
  ASSUME LInv, NEW r \in Requests, Limiter!Read(r)
  PROVE  LInv'
  <1>1. Proceeds(r, "read") /\ Limiter!Becomes(r, Limiter!Entry, Limiter!Entry, lists) /\ place[r] = "called"
    BY DEF Limiter!Read, Limiter!Goto, Proceeds, Inside, Outside
  <1>2. Limiter!Entry \in Limiter!Lists \ {0} /\ lists[Limiter!Entry] = lists[entry]
    BY EntryIsAList
  <1>3. /\ place'[r] = "read" /\ \A q \in Requests \ {r} : place'[q] = place[q]
        /\ r \in Limiter!InCheck /\ Limiter!Admitted' = Limiter!Admitted /\ Limiter!InCheck' = Limiter!InCheck
    BY <1>1, PlacesOfProceeding DEF LInv, Inside
  <1>4. /\ ListsAreHeld' /\ entry' = Limiter!Entry /\ mine'[r] = Limiter!Entry /\ lists'[Limiter!Entry] = lists[Limiter!Entry]
        /\ entry' \in Limiter!Lists /\ mine' \in [Requests -> Limiter!Lists] /\ lists' \in [Limiter!Lists -> SUBSET Requests]
    <2>1. /\ lists \in [Limiter!Lists -> SUBSET Requests] /\ lists[0] = {}
          /\ \A l \in Limiter!Lists : lists[l] \subseteq Limiter!Admitted
      BY DEF LInv, LimiterTyped, ListsAreHeld
    <2> QED
      BY <1>1, <1>2, <2>1, ProceedingKeepsLists
  <1>5. r \notin shared => AloneKnows(r)'
    BY <1>1, <1>3, <1>4 DEF LInv, AloneKnows, Proceeds
  <1>6. EndedWell(r)' /\ WindowHasRoom(r)'
    BY <1>3 DEF EndedWell, WindowHasRoom
  <1>7. shared = {} => ListIsComplete'
    BY <1>1, <1>2, <1>3, <1>4 DEF LInv, ListIsComplete, Proceeds
  <1> QED
    BY <1>1, <1>2, <1>4, <1>5, <1>6, <1>7, ProceedingKeepsLInv

(* Where a check has got hold of no list, or goes on without one.          *)
LEMMA ProceedingLeavesLists ==
  ASSUME LInv, NEW r \in Requests, NEW p, Proceeds(r, p), UNCHANGED <<entry, mine, lists>>,
         place[r] \notin {"read", "appending"}, p \notin {"read", "appending"}
  PROVE  /\ ListsAreHeld'
         /\ entry' \in Limiter!Lists /\ mine' \in [Requests -> Limiter!Lists] /\ lists' \in [Limiter!Lists -> SUBSET Requests]
  <1>1. LimiterTyped /\ ListsAreHeld
    BY DEF LInv
  <1>2. place'[r] = p /\ (\A q \in Requests \ {r} : place'[q] = place[q]) /\ Limiter!Admitted' = Limiter!Admitted
    BY <1>1, PlacesOfProceeding
  <1>3. Limiter!Lists' = Limiter!Lists
    BY DEF Limiter!Lists
  <1> QED
    BY <1>1, <1>2, <1>3 DEF ListsAreHeld, LimiterTyped

LEMMA TheLists ==
  ASSUME LInv
  PROVE  /\ 0 \in Limiter!Lists /\ lists \in [Limiter!Lists -> SUBSET Requests] /\ lists[0] = {}
         /\ \A l \in Limiter!Lists : lists[l] \subseteq Limiter!Admitted
         /\ entry \in Limiter!Lists /\ \A r \in Requests : mine[r] \in Limiter!Lists
  BY LimiterAssumption, FS_CardinalityType, SameCardinality DEF LInv, LimiterTyped, ListsAreHeld, Limiter!Lists

(* A pruned list has the requests of the window, and no others, if checks  *)
(* have not overlapped (rate_limit.py:42-45).                              *)
LEMMA PruneKeepsLInv ==
  ASSUME LInv, NEW r \in Requests, Limiter!Prune(r)
  PROVE  LInv'
  <1> DEFINE ls == [lists EXCEPT ![Limiter!Fresh] = Limiter!Recent(r)]
  <1>1. Proceeds(r, "pruned") /\ Limiter!Becomes(r, Limiter!Fresh, 0, ls) /\ place[r] = "read"
    BY DEF Limiter!Prune, Limiter!Goto, Proceeds, Inside, Outside
  <1>2. Limiter!Fresh \in Limiter!Lists \ {0}
    BY FreshIsFree DEF LInv
  <1>3. /\ 0 \in Limiter!Lists /\ lists \in [Limiter!Lists -> SUBSET Requests] /\ lists[0] = {}
        /\ \A l \in Limiter!Lists : lists[l] \subseteq Limiter!Admitted
        /\ mine[r] \in Limiter!Lists
    BY TheLists
  <1>4. Limiter!Recent(r) \subseteq lists[mine[r]] /\ Limiter!Recent(r) \subseteq Requests
    BY <1>3 DEF Limiter!Recent
  <1>5. ls \in [Limiter!Lists -> SUBSET Requests] /\ ls[0] = {} /\ ls[Limiter!Fresh] = Limiter!Recent(r)
        /\ \A l \in Limiter!Lists : ls[l] \subseteq Limiter!Admitted
    BY <1>2, <1>3, <1>4
  <1> HIDE DEF ls
  <1>6. /\ ListsAreHeld' /\ entry' = Limiter!Fresh /\ mine'[r] = 0 /\ lists'[Limiter!Fresh] = Limiter!Recent(r)
        /\ entry' \in Limiter!Lists /\ mine' \in [Requests -> Limiter!Lists] /\ lists' \in [Limiter!Lists -> SUBSET Requests]
    BY <1>1, <1>2, <1>3, <1>5, ProceedingKeepsLists
  <1>7. /\ place'[r] = "pruned" /\ r \in Limiter!InCheck /\ Limiter!Admitted' = Limiter!Admitted /\ Limiter!InCheck' = Limiter!InCheck
        /\ Limiter!InWindow(r)' = Limiter!InWindow(r)
    BY <1>1, PlacesOfProceeding DEF LInv, Inside
  <1>8. ASSUME r \notin shared PROVE AloneKnows(r)'
    <2>1. AloneKnows(r)
      BY <1>7, <1>8 DEF LInv
    <2>2. Limiter!Recent(r) \subseteq Limiter!InWindow(r)
      BY <1>3, <1>4, <2>1 DEF AloneKnows, Limiter!Recent, Limiter!InWindow
    <2> QED
      BY <1>1, <1>2, <1>6, <1>7, <2>1, <2>2 DEF AloneKnows, Proceeds
  <1>9. EndedWell(r)' /\ WindowHasRoom(r)'
    BY <1>7 DEF EndedWell, WindowHasRoom
  <1>10. ASSUME shared = {} PROVE ListIsComplete'
    <2>1. Limiter!InCheck = {r} /\ mine[r] = entry /\ ListIsComplete
      BY <1>1, <1>7, <1>10 DEF LInv, AloneKnows
    <2>2. at \in [Requests -> Int] /\ at[r] <= time /\ time \in Int /\ Window \in Nat
          /\ Limiter!Admitted \subseteq Requests
      BY LimiterAssumption DEF LInv, LimiterTyped, Limiter!Admitted
    <2>3. ASSUME NEW q \in Limiter!Admitted, q \notin Limiter!Recent(r)
          PROVE  at[q] <= time - Window /\ at[q] <= at[r] - Window
      BY <2>1, <2>2, <2>3 DEF ListIsComplete, Limiter!Recent
    <2> QED
      BY <1>1, <1>6, <1>7, <2>1, <2>3 DEF ListIsComplete, Proceeds
  <1> QED
    BY <1>1, <1>6, <1>8, <1>9, <1>10, ProceedingKeepsLInv

LEMMA TestEmptyKeepsLInv ==
  ASSUME LInv, NEW r \in Requests, Limiter!TestEmpty(r)
  PROVE  LInv'
  <1> DEFINE p == IF lists[Limiter!Entry] = {} THEN "empty" ELSE "counted"
  <1>1. Proceeds(r, p) /\ Limiter!Becomes(r, Limiter!Entry, 0, lists) /\ place[r] = "pruned" /\ p \in {"empty", "counted"}
    BY DEF Limiter!TestEmpty, Limiter!Goto, Proceeds, Inside, Outside
  <1>2. Limiter!Entry \in Limiter!Lists \ {0} /\ lists[Limiter!Entry] = lists[entry] /\ (entry # 0 => Limiter!Entry = entry)
    BY EntryIsAList
  <1>a. p = "empty" => lists[entry] = {}
    BY <1>2
  <1> HIDE DEF p
  <1>3. /\ ListsAreHeld' /\ entry' = Limiter!Entry /\ mine'[r] = 0 /\ lists'[Limiter!Entry] = lists[entry]
        /\ entry' \in Limiter!Lists /\ mine' \in [Requests -> Limiter!Lists] /\ lists' \in [Limiter!Lists -> SUBSET Requests]
    BY <1>1, <1>2, TheLists, ProceedingKeepsLists
  <1>4. /\ place'[r] = p /\ r \in Limiter!InCheck /\ Limiter!Admitted' = Limiter!Admitted /\ Limiter!InCheck' = Limiter!InCheck
        /\ Limiter!InWindow(r)' = Limiter!InWindow(r)
    BY <1>1, PlacesOfProceeding DEF LInv, Inside
  <1>5. ASSUME r \notin shared PROVE AloneKnows(r)'
    <2>1. AloneKnows(r)
      BY <1>4, <1>5 DEF LInv
    <2> QED
      BY <1>1, <1>2, <1>a, <1>3, <1>4, <2>1 DEF AloneKnows, Proceeds
  <1>6. EndedWell(r)' /\ WindowHasRoom(r)'
    BY <1>1, <1>4 DEF EndedWell, WindowHasRoom
  <1>7. shared = {} => ListIsComplete'
    BY <1>1, <1>3, <1>4 DEF LInv, ListIsComplete, Proceeds
  <1> QED
    BY <1>1, <1>3, <1>5, <1>6, <1>7, ProceedingKeepsLInv

(* The entry that is deleted is there, unless checks overlap               *)
(* (rate_limit.py:47-49).                                                  *)
LEMMA EvictKeepsLInv ==
  ASSUME LInv, NEW r \in Requests, Limiter!Evict(r)
  PROVE  LInv'
  <1> DEFINE p == IF entry = 0 THEN "raised" ELSE "counted"
  <1>1. Proceeds(r, p) /\ Limiter!Becomes(r, 0, 0, lists) /\ place[r] = "empty" /\ p \in {"raised", "counted"}
        /\ (p = "raised" => entry = 0)
    BY DEF Limiter!Evict, Limiter!Goto, Proceeds, Inside, Outside
  <1> HIDE DEF p
  <1>2. /\ ListsAreHeld' /\ entry' = 0 /\ mine'[r] = 0 /\ lists'[0] = {}
        /\ entry' \in Limiter!Lists /\ mine' \in [Requests -> Limiter!Lists] /\ lists' \in [Limiter!Lists -> SUBSET Requests]
    BY <1>1, TheLists, ProceedingKeepsLists
  <1>3. /\ place'[r] = p /\ r \in Limiter!InCheck /\ Limiter!Admitted' = Limiter!Admitted /\ Limiter!InCheck' \subseteq Limiter!InCheck
        /\ Limiter!InWindow(r)' = Limiter!InWindow(r)
        /\ p \in Inside => Limiter!InCheck' = Limiter!InCheck
    BY <1>1, PlacesOfProceeding DEF LInv
  <1>4. r \notin shared => AloneKnows(r) /\ entry # 0 /\ lists[entry] = {}
    BY <1>1, <1>3 DEF LInv, AloneKnows
  <1>5. r \notin shared /\ p \in Inside => AloneKnows(r)'
    BY <1>1, <1>2, <1>3, <1>4 DEF AloneKnows, Proceeds
  <1>6. (r \notin shared => EndedWell(r)') /\ WindowHasRoom(r)'
    BY <1>1, <1>3, <1>4 DEF EndedWell, WindowHasRoom
  <1>7. shared = {} => ListIsComplete'
    BY <1>1, <1>2, <1>3, <1>4 DEF LInv, ListIsComplete, Proceeds
  <1> QED
    BY <1>1, <1>2, <1>5, <1>6, <1>7, ProceedingKeepsLInv

LEMMA RefuseKeepsLInv ==
  ASSUME LInv, NEW r \in Requests, Limiter!Refuse(r)
  PROVE  LInv'
  <1>1. /\ Proceeds(r, "refused") /\ UNCHANGED <<entry, mine, lists>> /\ place[r] = "counted"
        /\ Cardinality(lists[entry]) >= MaxRequests
    BY SameCardinality DEF Limiter!Refuse, Limiter!Full, Limiter!Goto, Proceeds, Inside, Outside
  <1>2. /\ ListsAreHeld'
        /\ entry' \in Limiter!Lists /\ mine' \in [Requests -> Limiter!Lists] /\ lists' \in [Limiter!Lists -> SUBSET Requests]
    BY <1>1, ProceedingLeavesLists
  <1>3. /\ place'[r] = "refused" /\ r \in Limiter!InCheck /\ Limiter!Admitted' = Limiter!Admitted /\ Limiter!InCheck' \subseteq Limiter!InCheck
        /\ Limiter!InWindow(r)' = Limiter!InWindow(r)
    BY <1>1, PlacesOfProceeding DEF LInv
  <1>4. ASSUME r \notin shared PROVE EndedWell(r)'
    <2>1. lists[entry] \subseteq Limiter!InWindow(r)
      BY <1>1, <1>3, <1>4 DEF LInv, AloneKnows
    <2>2. Limiter!InWindow(r) \subseteq Requests
      BY DEF Limiter!InWindow, Limiter!Admitted
    <2>3. Cardinality(Limiter!InWindow(r)) >= MaxRequests
      BY <1>1, <2>1, <2>2, WindowsAreFinite, LimiterAssumption
    <2> QED
      BY <1>3, <2>3 DEF EndedWell
  <1>5. WindowHasRoom(r)'
    BY <1>3 DEF WindowHasRoom
  <1>6. shared = {} => ListIsComplete'
    BY <1>1, <1>3 DEF LInv, ListIsComplete, Proceeds
  <1> QED
    BY <1>1, <1>2, <1>4, <1>5, <1>6, ProceedingKeepsLInv DEF Inside

LEMMA PassKeepsLInv ==
  ASSUME LInv, NEW r \in Requests, Limiter!Pass(r)
  PROVE  LInv'
  <1>1. /\ Proceeds(r, "passed") /\ UNCHANGED <<entry, mine, lists>> /\ place[r] = "counted"
        /\ ~(Cardinality(lists[entry]) >= MaxRequests)
    BY SameCardinality DEF Limiter!Pass, Limiter!Full, Limiter!Goto, Proceeds, Inside, Outside
  <1>2. /\ ListsAreHeld'
        /\ entry' \in Limiter!Lists /\ mine' \in [Requests -> Limiter!Lists] /\ lists' \in [Limiter!Lists -> SUBSET Requests]
    BY <1>1, ProceedingLeavesLists
  <1>3. /\ place'[r] = "passed" /\ r \in Limiter!InCheck /\ Limiter!Admitted' = Limiter!Admitted /\ Limiter!InCheck' = Limiter!InCheck
        /\ Limiter!InWindow(r)' = Limiter!InWindow(r)
    BY <1>1, PlacesOfProceeding DEF LInv, Inside
  <1>4. ASSUME shared = {} PROVE WindowHasRoom(r)'
    <2>1. Limiter!InWindow(r) \subseteq lists[entry]
      <3>1. at \in [Requests -> Int] /\ Limiter!Admitted \subseteq Requests /\ Window \in Nat
        BY LimiterAssumption DEF LInv, LimiterTyped, Limiter!Admitted
      <3> QED
        BY <1>3, <1>4, <3>1 DEF LInv, ListIsComplete, Limiter!InWindow
    <2>2. lists[entry] \subseteq Requests
      BY TheLists
    <2>3. Cardinality(Limiter!InWindow(r)) < MaxRequests
      BY <1>1, <2>1, <2>2, WindowsAreFinite, LimiterAssumption
    <2> QED
      BY <1>3, <2>3 DEF WindowHasRoom
  <1>5. EndedWell(r)'
    BY <1>3 DEF EndedWell
  <1>6. shared = {} => ListIsComplete'
    BY <1>1, <1>3 DEF LInv, ListIsComplete, Proceeds
  <1>7. r \notin shared => AloneKnows(r)'
    BY <1>1, <1>3 DEF LInv, AloneKnows, Proceeds
  <1> QED
    BY <1>1, <1>2, <1>4, <1>5, <1>6, <1>7, ProceedingKeepsLInv

LEMMA TakeListKeepsLInv ==
  ASSUME LInv, NEW r \in Requests, Limiter!TakeList(r)
  PROVE  LInv'
  <1>1. Proceeds(r, "appending") /\ Limiter!Becomes(r, Limiter!Entry, Limiter!Entry, lists) /\ place[r] = "passed"
    BY DEF Limiter!TakeList, Limiter!Goto, Proceeds, Inside, Outside
  <1>2. Limiter!Entry \in Limiter!Lists \ {0} /\ lists[Limiter!Entry] = lists[entry]
    BY EntryIsAList
  <1>3. /\ place'[r] = "appending" /\ r \in Limiter!InCheck /\ Limiter!Admitted' = Limiter!Admitted /\ Limiter!InCheck' = Limiter!InCheck
        /\ Limiter!InWindow(r)' = Limiter!InWindow(r)
    BY <1>1, PlacesOfProceeding DEF LInv, Inside
  <1>4. /\ ListsAreHeld' /\ entry' = Limiter!Entry /\ mine'[r] = Limiter!Entry /\ lists'[Limiter!Entry] = lists[Limiter!Entry]
        /\ entry' \in Limiter!Lists /\ mine' \in [Requests -> Limiter!Lists] /\ lists' \in [Limiter!Lists -> SUBSET Requests]
    BY <1>1, <1>2, TheLists, ProceedingKeepsLists
  <1>5. r \notin shared => AloneKnows(r)'
    BY <1>1, <1>3, <1>4 DEF LInv, AloneKnows, Proceeds
  <1>6. EndedWell(r)'
    BY <1>3 DEF EndedWell
  <1>7. shared = {} => WindowHasRoom(r)'
    BY <1>1, <1>3 DEF LInv, WindowHasRoom
  <1>8. shared = {} => ListIsComplete'
    BY <1>1, <1>2, <1>3, <1>4 DEF LInv, ListIsComplete, Proceeds
  <1> QED
    BY <1>1, <1>4, <1>5, <1>6, <1>7, <1>8, ProceedingKeepsLInv

(* The request is admitted when its time is in the list                    *)
(* (rate_limit.py:58-60).                                                  *)
LEMMA AppendTimeKeepsLInv ==
  ASSUME LInv, NEW r \in Requests, Limiter!AppendTime(r)
  PROVE  LInv'
  <1> DEFINE ls == [lists EXCEPT ![mine[r]] = @ \union {r}]
  <1>1. /\ place[r] = "appending" /\ Limiter!Becomes(r, entry, 0, ls)
        /\ place' = [place EXCEPT ![r] = "admitted"] /\ UNCHANGED <<time, at, shared>>
    BY DEF Limiter!AppendTime, Limiter!Goto
  <1>2. LimiterTyped /\ ListsAreHeld
    BY DEF LInv
  <1>3. place'[r] = "admitted" /\ (\A q \in Requests \ {r} : place'[q] = place[q])
        /\ place' \in [Requests -> Inside \union Outside]
    BY <1>1, <1>2 DEF LimiterTyped, Outside
  <1>4. Limiter!Admitted' = Limiter!Admitted \union {r} /\ r \in Limiter!InCheck /\ r \notin Limiter!Admitted /\ Limiter!InCheck' = Limiter!InCheck \ {r}
    BY <1>1, <1>3 DEF Limiter!Admitted, Limiter!InCheck
  <1>5. mine[r] \in Limiter!Lists \ {0} /\ 0 \in Limiter!Lists /\ entry \in Limiter!Lists
    BY <1>1, <1>2, TheLists DEF ListsAreHeld
  <1>6. /\ ls \in [Limiter!Lists -> SUBSET Requests] /\ ls[0] = {} /\ ls[mine[r]] = lists[mine[r]] \union {r}
        /\ \A l \in Limiter!Lists : lists[l] \subseteq ls[l] /\ ls[l] \subseteq Limiter!Admitted'
    BY <1>4, <1>5, TheLists
  <1> HIDE DEF ls
  <1>7. \A q \in Requests : place'[q] \in {"read", "appending"} <=> (IF q = r THEN 0 ELSE mine[q]) # 0
    BY <1>2, <1>3 DEF ListsAreHeld
  <1>8. /\ ListsAreHeld' /\ entry' = entry /\ lists'[entry] = ls[entry]
        /\ mine' \in [Requests -> Limiter!Lists] /\ lists' \in [Limiter!Lists -> SUBSET Requests]
    BY <1>1, <1>2, <1>5, <1>6, <1>7, BecomesKeepsLists
  <1>9. LimiterTyped'
    <2>1. Limiter!Lists' = Limiter!Lists
      BY DEF Limiter!Lists
    <2> QED
      BY <1>1, <1>2, <1>3, <1>8, <2>1 DEF LimiterTyped
  <1>10. ASSUME NEW q \in Limiter!InCheck', q \notin shared' PROVE FALSE
    BY <1>1, <1>4, <1>10 DEF LInv, AloneKnows
  <1>11. \A q \in Requests : Limiter!InWindow(q) \subseteq Limiter!InWindow(q)' /\ Limiter!InWindow(q)' \subseteq Limiter!InWindow(q) \union {r}
    BY <1>1, <1>4 DEF Limiter!InWindow
  <1>12. ASSUME NEW q \in Requests, q \notin shared' PROVE EndedWell(q)'
    <2>1. Limiter!InWindow(q)' \subseteq Requests
      BY <1>4 DEF Limiter!InWindow, Limiter!Admitted
    <2>2. Cardinality(Limiter!InWindow(q)) <= Cardinality(Limiter!InWindow(q)') /\ Cardinality(Limiter!InWindow(q)) \in Nat
          /\ Cardinality(Limiter!InWindow(q)') \in Nat
      BY <1>11, <2>1, WindowsAreFinite
    <2>3. EndedWell(q)
      BY <1>1, <1>12 DEF LInv
    <2> QED
      BY <1>3, <2>2, <2>3, LimiterAssumption DEF EndedWell
  <1>13. ASSUME shared' = {} PROVE ListIsComplete'
    <2>1. Limiter!InCheck = {r} /\ mine[r] = entry /\ ListIsComplete
      BY <1>1, <1>4, <1>13 DEF LInv, AloneKnows
    <2>2. lists[entry] \union {r} \subseteq lists'[entry']
      BY <1>5, <1>6, <1>8, <2>1
    <2> QED
      BY <1>1, <1>4, <2>1, <2>2 DEF ListIsComplete
  <1>14. ASSUME shared' = {}, NEW q \in Requests PROVE WindowHasRoom(q)'
    <2>1. WindowHasRoom(r) /\ WindowHasRoom(q) /\ AloneKnows(r)
      BY <1>1, <1>4, <1>14 DEF LInv
    <2>2. Cardinality(Limiter!InWindow(r)') <= MaxRequests
      <3>1. Cardinality(Limiter!InWindow(r)) < MaxRequests /\ Limiter!InWindow(r) \subseteq Requests
        BY <1>1, <2>1 DEF WindowHasRoom, Limiter!InWindow, Limiter!Admitted
      <3>2. IsFiniteSet(Limiter!InWindow(r)) /\ Cardinality(Limiter!InWindow(r)) \in Nat
        BY <3>1, WindowsAreFinite
      <3>3. \/ Cardinality(Limiter!InWindow(r) \union {r}) = Cardinality(Limiter!InWindow(r))
            \/ Cardinality(Limiter!InWindow(r) \union {r}) = Cardinality(Limiter!InWindow(r)) + 1
        BY <3>2, FS_AddElement, Zenon
      <3>4. Limiter!InWindow(r) \union {r} \subseteq Requests
        BY <3>1
      <3>5. Cardinality(Limiter!InWindow(r) \union {r}) \in Nat /\ Cardinality(Limiter!InWindow(r)') \in Nat
            /\ Cardinality(Limiter!InWindow(r)') <= Cardinality(Limiter!InWindow(r) \union {r})
        BY <1>11, <3>4, WindowsAreFinite
      <3> QED
        BY <3>1, <3>2, <3>3, <3>5, LimiterAssumption
    <2>3. CASE q = r
      BY <1>3, <2>2, <2>3 DEF WindowHasRoom
    <2>4. CASE q # r /\ q \notin Limiter!Admitted
      <3>1. q \notin Limiter!InCheck
        BY <2>1, <2>4 DEF AloneKnows
      <3> QED
        BY <1>3, <2>4, <3>1 DEF WindowHasRoom, Limiter!Admitted, Limiter!InCheck
    <2>5. CASE q # r /\ q \in Limiter!Admitted
      <3>1. at[q] <= at[r] /\ at[q] \in Int /\ at[r] \in Int
        BY <1>2, <2>1, <2>5 DEF AloneKnows, LimiterTyped
      <3>2. place'[q] = "admitted"
        BY <1>3, <2>5 DEF Limiter!Admitted
      <3>3. CASE at[q] = at[r]
        <4>1. Limiter!InWindow(q)' = Limiter!InWindow(r)'
          BY <1>1, <3>3 DEF Limiter!InWindow
        <4> QED
          BY <2>2, <3>2, <4>1 DEF WindowHasRoom
      <3>4. CASE at[q] # at[r]
        <4>1. Limiter!InWindow(q)' = Limiter!InWindow(q)
          BY <1>1, <1>4, <3>1, <3>4 DEF Limiter!InWindow
        <4> QED
          BY <2>1, <2>5, <3>2, <4>1 DEF WindowHasRoom, Limiter!Admitted
      <3> QED
        BY <3>3, <3>4
    <2> QED
      BY <2>3, <2>4, <2>5
  <1> QED
    BY <1>8, <1>9, <1>10, <1>12, <1>13, <1>14 DEF LInv

LEMMA CallKeepsLInv ==
  ASSUME LInv, NEW r \in Requests, Limiter!Call(r)
  PROVE  LInv'
  <1>1. /\ place[r] = "idle" /\ place' = [place EXCEPT ![r] = "called"]
        /\ at' = [at EXCEPT ![r] = time]
        /\ shared' = IF Limiter!InCheck = {} THEN shared ELSE shared \union Limiter!InCheck \union {r}
        /\ UNCHANGED <<time, entry, lists, mine>>
    BY DEF Limiter!Call, Limiter!Goto
  <1>2. LimiterTyped /\ ListsAreHeld
    BY DEF LInv
  <1>3. place'[r] = "called" /\ (\A q \in Requests \ {r} : place'[q] = place[q])
        /\ place' \in [Requests -> Inside \union Outside]
    BY <1>1, <1>2 DEF LimiterTyped, Inside
  <1>4. Limiter!Admitted' = Limiter!Admitted /\ r \notin Limiter!InCheck /\ r \notin Limiter!Admitted /\ Limiter!InCheck' = Limiter!InCheck \union {r}
    BY <1>1, <1>3 DEF Limiter!Admitted, Limiter!InCheck
  <1>5. at'[r] = time /\ (\A q \in Requests \ {r} : at'[q] = at[q]) /\ at' \in [Requests -> Int]
    BY <1>1, <1>2 DEF LimiterTyped
  <1>6. LimiterTyped'
    <2>1. Limiter!Lists' = Limiter!Lists
      BY DEF Limiter!Lists
    <2>2. shared' \subseteq Requests
      BY <1>1, <1>2 DEF LimiterTyped, Limiter!InCheck
    <2> QED
      BY <1>1, <1>2, <1>3, <1>5, <2>1, <2>2 DEF LimiterTyped
  <1>7. ListsAreHeld'
    <2>1. Limiter!Lists' = Limiter!Lists
      BY DEF Limiter!Lists
    <2> QED
      BY <1>1, <1>2, <1>3, <1>4, <2>1 DEF ListsAreHeld
  <1>8. \A q \in Requests \ {r} : Limiter!InWindow(q)' = Limiter!InWindow(q)
    BY <1>4, <1>5 DEF Limiter!InWindow, Limiter!Admitted
  <1>9. ASSUME NEW q \in Limiter!InCheck', q \notin shared' PROVE AloneKnows(q)'
    <2>1. Limiter!InCheck = {} /\ q = r
      BY <1>1, <1>4, <1>9
    <2>2. \A a \in Limiter!Admitted : at'[a] <= time
      BY <1>2, <1>4, <1>5 DEF LimiterTyped, Limiter!Admitted
    <2> QED
      BY <1>3, <1>4, <1>5, <2>1, <2>2 DEF AloneKnows
  <1>10. ASSUME NEW q \in Requests, q \notin shared' PROVE EndedWell(q)'
    <2>1. q # r => EndedWell(q)
      BY <1>1, <1>10 DEF LInv
    <2> QED
      BY <1>3, <1>8, <2>1 DEF EndedWell
  <1>11. ASSUME shared' = {} PROVE shared = {} /\ Limiter!InCheck = {}
    BY <1>1, <1>11
  <1>12. ASSUME shared' = {} PROVE ListIsComplete'
    BY <1>1, <1>4, <1>5, <1>11, <1>12 DEF LInv, ListIsComplete, Limiter!Admitted
  <1>13. ASSUME shared' = {}, NEW q \in Requests PROVE WindowHasRoom(q)'
    BY <1>3, <1>8, <1>11, <1>13 DEF LInv, WindowHasRoom
  <1> QED
    BY <1>6, <1>7, <1>9, <1>10, <1>12, <1>13 DEF LInv

LEMMA ClockKeepsLInv ==
  ASSUME LInv, UNCHANGED <<entry, lists, at, mine, place, shared>>, time' \in Int, time <= time'
  PROVE  LInv'
  <1>1. Limiter!InCheck' = Limiter!InCheck /\ Limiter!Admitted' = Limiter!Admitted /\ \A q \in Requests : Limiter!InWindow(q)' = Limiter!InWindow(q)
    BY DEF Limiter!InCheck, Limiter!Admitted, Limiter!InWindow
  <1>2. LimiterTyped'
    BY DEF LInv, LimiterTyped, Limiter!Lists
  <1>3. ListsAreHeld'
    BY DEF LInv, ListsAreHeld, Limiter!Lists, Limiter!Admitted
  <1>4. shared = {} => ListIsComplete'
    <2>1. at \in [Requests -> Int] /\ Limiter!Admitted \subseteq Requests /\ time \in Int /\ Window \in Nat
      BY LimiterAssumption DEF LInv, LimiterTyped, Limiter!Admitted
    <2> QED
      BY <1>1, <2>1 DEF LInv, ListIsComplete
  <1>5. ASSUME NEW q \in Requests
        PROVE  /\ AloneKnows(q)' <=> AloneKnows(q)
               /\ EndedWell(q)' <=> EndedWell(q)
               /\ WindowHasRoom(q)' <=> WindowHasRoom(q)
    BY <1>1 DEF AloneKnows, EndedWell, WindowHasRoom
  <1>6. Limiter!InCheck \subseteq Requests
    BY DEF Limiter!InCheck
  <1> QED
    BY <1>1, <1>2, <1>3, <1>4, <1>5, <1>6 DEF LInv

LEMMA LInvNext == LInv /\ [Limiter!Next]_(Limiter!vars) => LInv'
  <1> SUFFICES ASSUME LInv, [Limiter!Next]_(Limiter!vars) PROVE LInv'
    OBVIOUS
  <1>1. CASE Limiter!Tick \/ UNCHANGED Limiter!vars
    <2>1. time \in Int
      BY DEF LInv, LimiterTyped
    <2> QED
      BY <1>1, <2>1, ClockKeepsLInv DEF Limiter!Tick, Limiter!vars
  <1>2. ASSUME NEW r \in Requests, Limiter!Check(r) PROVE LInv'
    BY <1>2, CallKeepsLInv, ReadKeepsLInv, PruneKeepsLInv, TestEmptyKeepsLInv, EvictKeepsLInv,
       RefuseKeepsLInv, PassKeepsLInv, TakeListKeepsLInv, AppendTimeKeepsLInv DEF Limiter!Check
  <1> QED
    BY <1>1, <1>2 DEF Limiter!Next

LEMMA LimiterMoves ==
  MCSpec => Limiter!Init /\ [][Limiter!Next]_(Limiter!vars)
  <1>1. MCInit => Limiter!Init
    BY DEF MCInit
  <1>2. [MCNext]_all => [Limiter!Next]_(Limiter!vars)
    BY DEF MCNext, CacheStep, LimiterStep, TokenStep, all, limiter, Limiter!vars
  <1> QED
    BY <1>1, <1>2, PTL DEF MCSpec

(* A check that no other check overlaps with refuses only a request whose  *)
(* window is full, and without any overlap no window ever holds more than  *)
(* the limit (rate_limit.py:22-53).                                        *)
THEOREM ChecksAreExact == MCSpec => []LoneChecksAreExact
  <1>1. LInv => LoneChecksAreExact
    BY LInvIsExact DEF LoneChecksAreExact
  <1> QED
    BY <1>1, LInvInit, LInvNext, LimiterMoves, PTL


-----------------------------------------------------------------------------
(* The Longbridge token.                                                   *)

(* A state that has an access token has a client.                          *)
State(s) == DOMAIN s = DOMAIN Auth!NoState /\ (s.token.access # 0 => s.client)
Frame(f) == DOMAIN f = DOMAIN Auth!NoFrame /\ State(f.mine) /\ State(f.old)

AuthShape ==
    /\ DOMAIN where = Threads /\ DOMAIN op = Threads /\ DOMAIN frame = Threads
    /\ State(file) /\ \A c \in Threads : Frame(frame[c])

(* Only a call of get_access_token recovers.                               *)
OpFits(c) ==
    /\ where[c] \in {"register", "keep", "pend", "exchange", "clear", "unlink"} => op[c] # "tool"
    /\ where[c] = "recover" => op[c] = "tool"

Lacks(c, copy) == copy \in frame[c].missed

(* What a call knows from the file as long as no other call has written.   *)
KnowsFile(c) ==
    /\ where[c] \in {"register", "keep", "pend", "clear", "sync"} /\ ~Lacks(c, "mine") =>
          frame[c].mine.token = file.token
    /\ where[c] = "clear" /\ ~Lacks(c, "mine") => frame[c].mine.client = file.client
    /\ where[c] = "unlink" /\ ~Lacks(c, "mine") => file.token.access = 0
    /\ where[c] = "share" \/ (op[c] = "tool" /\ where[c] \in {"read", "renew", "recover"}) =>
          Lacks(c, "old") \/ frame[c].old.token = file.token

(* A token that is about to be stored is good, or another is as well, and  *)
(* one of the two calls will replace what the other has stored.            *)
StoresGood(c) ==
    where[c] = "store" /\ ~Lacks(c, "mine") =>
        \/ frame[c].mine.token.refresh \in good \union {0}
        \/ \E d \in Threads \ {c} : where[d] = "store"

RefreshFollows == file.token.refresh \in good \union {0} \/ \E c \in Threads : where[c] = "store"
SdkFollows == sdk = file.token.access \/ \E c \in Threads : where[c] \in {"sync", "share", "unlink"}

AInv ==
    /\ AuthShape
    /\ \A c \in Threads : OpFits(c)
    /\ ~trouble => /\ RefreshFollows /\ SdkFollows
                   /\ \A c \in Threads : KnowsFile(c) /\ StoresGood(c)

LEMMA AInvKeepsToken == AInv => Auth!TokenIsKept
  BY DEF AInv, Auth!TokenIsKept, RefreshFollows, SdkFollows, Auth!Between

LEMMA AInvInit == Auth!Init => AInv
  <1> SUFFICES ASSUME Auth!Init PROVE AInv
    OBVIOUS
  <1>1. Frame(Auth!NoFrame) /\ State(Auth!NoState)
    BY DEF Frame, State, Auth!NoFrame, Auth!NoState, Auth!NoToken
  <1>2. AuthShape
    BY <1>1 DEF Auth!Init, AuthShape
  <1>3. RefreshFollows /\ SdkFollows
    BY DEF Auth!Init, RefreshFollows, SdkFollows, Auth!NoState, Auth!NoToken
  <1>4. \A c \in Threads : OpFits(c) /\ KnowsFile(c) /\ StoresGood(c)
    BY DEF Auth!Init, OpFits, KnowsFile, StoresGood
  <1> QED
    BY <1>2, <1>3, <1>4 DEF AInv

(* What is changed of a state, and what is kept of its token.              *)
LEMMA StatesAreKept ==
  ASSUME NEW s, State(s)
  PROVE  /\ State(Auth!Pruned(s)) /\ Auth!Pruned(s).token = s.token /\ Auth!Pruned(s).client = s.client
         /\ State([s EXCEPT !.client = TRUE]) /\ [s EXCEPT !.client = TRUE].token = s.token
         /\ \A x : /\ State([s EXCEPT !.client = TRUE, !.error = FALSE, !.pending = x])
                   /\ [s EXCEPT !.client = TRUE, !.error = FALSE, !.pending = x].token = s.token
         /\ State([s EXCEPT !.token = Auth!NoToken, !.pending = {}, !.error = FALSE])
         /\ [s EXCEPT !.token = Auth!NoToken, !.pending = {}, !.error = FALSE].token = Auth!NoToken
         /\ \A x : State([s EXCEPT !.pending = x])
         /\ \A t : /\ State([s EXCEPT !.client = TRUE, !.token = t, !.error = FALSE])
                   /\ [s EXCEPT !.client = TRUE, !.token = t, !.error = FALSE].token = t
         /\ State([s EXCEPT !.error = TRUE]) /\ [s EXCEPT !.error = TRUE].token = s.token
  BY DEF State, Auth!Pruned, Auth!NoState, Auth!NoToken

LEMMA FramesAreKept ==
  ASSUME NEW f, Frame(f), NEW s, State(s)
  PROVE  /\ Frame(Auth!NoFrame)
         /\ Frame(Auth!Reading(s)) /\ Auth!Reading(s).mine = s
         /\ Frame([f EXCEPT !.mine = s])
         /\ [f EXCEPT !.mine = s].mine = s /\ [f EXCEPT !.mine = s].old = f.old
         /\ [f EXCEPT !.mine = s].missed = f.missed
         /\ Frame([Auth!NoFrame EXCEPT !.old = s]) /\ [Auth!NoFrame EXCEPT !.old = s].old = s
         /\ \A x : /\ Frame([f EXCEPT !.mine = s, !.missed = x])
                   /\ [f EXCEPT !.mine = s, !.missed = x].mine = s
                   /\ [f EXCEPT !.mine = s, !.missed = x].old = f.old
                   /\ [f EXCEPT !.mine = s, !.missed = x].missed = x
         /\ \A x : Frame([Auth!NoFrame EXCEPT !.tries = x])
  <1>1. State(Auth!NoState)
    BY DEF State, Auth!NoState, Auth!NoToken
  <1> QED
    BY <1>1 DEF Frame, Auth!NoFrame, Auth!Reading

(* A token that is received.                                               *)
LEMMA TokenIsReceived ==
  ASSUME NEW s, State(s), NEW t, NEW v, v = [s EXCEPT !.client = TRUE, !.token = t, !.error = FALSE]
  PROVE  State(v) /\ v.token = t
  BY DEF State, Auth!NoState, Auth!NoToken

LEMMA MineIsKept ==
  ASSUME NEW f, Frame(f), NEW s, State(s), NEW g, g = [f EXCEPT !.mine = s]
  PROVE  Frame(g) /\ g.mine = s /\ g.old = f.old /\ g.missed = f.missed
  BY DEF Frame, Auth!NoFrame

LEMMA MissedIsNoted ==
  ASSUME NEW f, Frame(f), NEW x
  PROVE  Frame([f EXCEPT !.missed = x]) /\ [f EXCEPT !.missed = x].missed = x
  BY DEF Frame, Auth!NoFrame

LEMMA NoFrameIsOne == Frame(Auth!NoFrame) /\ State(Auth!NoState)
  BY DEF Frame, State, Auth!NoFrame, Auth!NoState, Auth!NoToken

(* A step that leaves the file as it is.  The SDK's copy is left alone as  *)
(* well, by a call that is not about to write it, or it is of the token of *)
(* the file then; and the tokens that are good stay so, unless the call    *)
(* has a new one to store.                                                 *)
LEMMA GoingKeepsAInv ==
  ASSUME AInv, NEW c \in Threads, NEW p, NEW f, Auth!Go(c, p, f), Frame(f), file' = file,
         DOMAIN op' = Threads, \A q \in Threads \ {c} : op'[q] = op[q],
         trouble => trouble',
         OpFits(c)',
         ~trouble' =>
            /\ where[c] # "store"
            /\ (\A x \in good : x \in good' \union {0}) \/ p = "store"
            /\ (sdk' = sdk /\ where[c] \notin {"sync", "share", "unlink"}) \/ sdk' = file.token.access
            /\ KnowsFile(c)' /\ StoresGood(c)'
  PROVE  AInv'
  <1>1. where'[c] = p /\ \A q \in Threads \ {c} : where'[q] = where[q] /\ frame'[q] = frame[q]
    BY DEF Auth!Go, Auth!At, AInv, AuthShape
  <1>2. frame'[c] = Auth!NoFrame \/ frame'[c] = f
    BY DEF Auth!Go, Auth!Local, AInv, AuthShape
  <1>3. AuthShape'
    <2>1. Frame(Auth!NoFrame)
      BY FramesAreKept DEF AInv, AuthShape
    <2>2. DOMAIN where' = Threads /\ DOMAIN frame' = Threads
      BY DEF Auth!Go, Auth!At, AInv, AuthShape
    <2>3. Frame(frame'[c])
      BY <1>2, <2>1
    <2>4. \A q \in Threads : Frame(frame'[q])
      BY <1>1, <2>3 DEF AInv, AuthShape
    <2> QED
      BY <2>2, <2>4 DEF AInv, AuthShape, Frame, State
  <1>4. \A q \in Threads \ {c} : OpFits(q)'
    BY <1>1 DEF AInv, OpFits
  <1>5. ASSUME ~trouble'
        PROVE  RefreshFollows' /\ SdkFollows' /\ \A q \in Threads \ {c} : KnowsFile(q)' /\ StoresGood(q)'
    <2>1. /\ ~trouble /\ RefreshFollows /\ SdkFollows
          /\ \A q \in Threads : KnowsFile(q) /\ StoresGood(q)
      BY <1>5 DEF AInv
    <2>2. \A d \in Threads : where[d] = "store" => where'[d] = "store"
      BY <1>1, <1>5
    <2>3. RefreshFollows'
      BY <1>1, <1>5, <2>1, <2>2 DEF RefreshFollows
    <2>4. SdkFollows'
      BY <1>1, <1>5, <2>1 DEF SdkFollows
    <2>5. ASSUME NEW q \in Threads \ {c} PROVE KnowsFile(q)' /\ StoresGood(q)'
      <3>1. KnowsFile(q) /\ StoresGood(q)
        BY <2>1
      <3>2. KnowsFile(q)'
        BY <1>1, <3>1 DEF KnowsFile, Lacks
      <3>3. StoresGood(q)'
        BY <1>1, <1>5, <2>2, <3>1 DEF StoresGood, Lacks
      <3> QED
        BY <3>2, <3>3
    <2> QED
      BY <2>3, <2>4, <2>5
  <1> QED
    BY <1>3, <1>4, <1>5 DEF AInv

(* A call replaces the file: the copies of all others lack that write.     *)
LEMMA WritingKeepsAInv ==
  ASSUME AInv, NEW c \in Threads, NEW copy, NEW s, NEW p, Auth!Write(c, copy, s, p), State(s), op' = op,
         OpFits(c)',
         ~trouble' => /\ KnowsFile(c)' /\ RefreshFollows' /\ SdkFollows'
                      /\ p # "store"
  PROVE  AInv'
  <1>1. /\ where'[c] = p /\ \A q \in Threads \ {c} : where'[q] = where[q]
        /\ file' = s /\ (trouble => trouble')
        /\ frame'[c] = Auth!NoFrame \/ frame'[c] = frame[c]
    BY DEF Auth!Write, Auth!At, Auth!Local, AInv, AuthShape
  <1>2. \A q \in Threads \ {c} :
           \/ where[q] \in Auth!Ended /\ frame'[q] = frame[q]
           \/ frame'[q] = [frame[q] EXCEPT !.missed = {"mine", "old"}]
    BY DEF Auth!Write
  <1>3. AuthShape'
    <2>1. \A q \in Threads : Frame(frame[q])
      BY DEF AInv, AuthShape
    <2>a. Frame(Auth!NoFrame) /\ \A q \in Threads : Frame([frame[q] EXCEPT !.missed = {"mine", "old"}])
      BY <2>1, MissedIsNoted, NoFrameIsOne
    <2>2. \A q \in Threads : Frame(frame'[q])
      BY <1>1, <1>2, <2>1, <2>a
    <2>3. DOMAIN where' = Threads /\ DOMAIN frame' = Threads
      BY DEF Auth!Write, Auth!At, AInv, AuthShape
    <2>4. State(file)'
      BY <1>1 DEF State
    <2>5. \A q \in Threads : Frame(frame[q])'
      BY <2>2 DEF Frame, State
    <2> QED
      BY <2>3, <2>4, <2>5 DEF AInv, AuthShape
  <1>4. \A q \in Threads \ {c} : OpFits(q)'
    BY <1>1 DEF AInv, OpFits
  <1>5. ASSUME NEW q \in Threads \ {c} PROVE KnowsFile(q)' /\ StoresGood(q)'
    <2>1. CASE where[q] \in Auth!Ended
      BY <1>1, <2>1 DEF KnowsFile, StoresGood, Auth!Ended
    <2>2. CASE frame'[q] = [frame[q] EXCEPT !.missed = {"mine", "old"}]
      <3>1. frame'[q].missed = {"mine", "old"}
        <4>1. Frame(frame[q])
          BY DEF AInv, AuthShape
        <4> QED
          BY <2>2, <4>1, MissedIsNoted
      <3> QED
        BY <3>1 DEF KnowsFile, StoresGood, Lacks
    <2> QED
      BY <1>2, <2>1, <2>2
  <1>6. ~trouble' => StoresGood(c)'
    BY <1>1 DEF StoresGood
  <1> QED
    BY <1>3, <1>4, <1>5, <1>6 DEF AInv

(* Where a step of call c has led it.                                      *)
LEMMA WhereItGoes ==
  ASSUME AInv, NEW c \in Threads, NEW p, NEW f, Auth!Go(c, p, f)
  PROVE  where'[c] = p /\ (p \notin Auth!Ended => frame'[c] = f)
  BY DEF Auth!Go, Auth!At, Auth!Local, AInv, AuthShape

LEMMA WhereItWrites ==
  ASSUME AInv, NEW c \in Threads, NEW copy, NEW s, NEW p, Auth!Write(c, copy, s, p)
  PROVE  /\ where'[c] = p /\ (p \notin Auth!Ended => frame'[c] = frame[c]) /\ file' = s
         /\ \A q \in Threads \ {c} : where'[q] = where[q]
         /\ trouble' = (trouble \/ Lacks(c, copy))
  BY DEF Auth!Write, Auth!At, Auth!Local, AInv, AuthShape, Lacks

LEMMA TheFrame ==
  ASSUME AInv, NEW c \in Threads
  PROVE  /\ Frame(frame[c]) /\ State(frame[c].mine) /\ State(frame[c].old) /\ State(file)
         /\ OpFits(c)
         /\ ~trouble => RefreshFollows /\ SdkFollows /\ KnowsFile(c) /\ StoresGood(c)
  BY DEF AInv, AuthShape, Frame

(* A call that raises ends, or recovers what it has read (                 *)
(* longbridge_openapi_oauth.py:281-294).                                   *)
LEMMA RaisingKeepsAInv ==
  ASSUME AInv, NEW c \in Threads, NEW badly \in BOOLEAN, Auth!Raises(c, badly), file' = file,
         op' = op, badly \/ where[c] \in {"register", "exchange", "read", "renew"},
         ~badly => sdk' = sdk /\ good' = good
  PROVE  AInv'
  <1> DEFINE p == IF op[c] = "tool" THEN "recover" ELSE "failed"
             f == frame[c]
  <1>1. Auth!Go(c, p, f) /\ trouble' = (trouble \/ badly)
    BY DEF Auth!Raises
  <1>2. Frame(f) /\ OpFits(c) /\ (~trouble => KnowsFile(c))
    BY TheFrame
  <1>3. where'[c] = p /\ (p = "recover" => frame'[c] = f)
    BY <1>1, WhereItGoes DEF Auth!Ended
  <1>4. OpFits(c)'
    BY <1>3 DEF OpFits
  <1>5. ASSUME ~trouble' PROVE KnowsFile(c)' /\ StoresGood(c)'
    <2>1. /\ ~trouble /\ where[c] \in {"register", "exchange", "read", "renew"}
      BY <1>1, <1>5
    <2>2. p = "recover" => where[c] \in {"read", "renew"} /\ op[c] = "tool"
      BY <1>2, <2>1 DEF OpFits
    <2>3. p = "recover" => Lacks(c, "old") \/ frame[c].old.token = file.token
      BY <1>2, <2>1, <2>2 DEF KnowsFile
    <2> QED
      BY <1>3, <2>3 DEF KnowsFile, StoresGood, Lacks
  <1>6. DOMAIN op' = Threads
    BY DEF AInv, AuthShape
  <1> HIDE DEF p, f
  <1> QED
    BY <1>1, <1>2, <1>4, <1>5, <1>6, GoingKeepsAInv

LEMMA BeginKeepsAInv ==
  ASSUME AInv, NEW c \in Threads, Auth!Begin(c)
  PROVE  AInv'
  <1>1. where[c] \in Auth!Ended /\ UNCHANGED <<file, sdk, good, trouble>>
    BY DEF Auth!Begin, Auth!stored, Auth!server
  <1>2. State(file) /\ Frame(Auth!NoFrame) /\ Frame(frame[c])
    BY TheFrame, NoFrameIsOne
  <1>3. State(Auth!Pruned(file)) /\ Auth!Pruned(file).token = file.token
    BY <1>2, StatesAreKept
  <1>4. /\ Frame(Auth!Reading(file)) /\ Auth!Reading(file).mine = file
        /\ Frame(Auth!Reading(Auth!Pruned(file))) /\ Auth!Reading(Auth!Pruned(file)).mine = Auth!Pruned(file)
    BY <1>2, <1>3, FramesAreKept
  <1>5. DOMAIN op' = Threads /\ \A q \in Threads \ {c} : op'[q] = op[q]
    BY DEF Auth!Begin, AInv, AuthShape
  <1>6. PICK p, f, o :
          /\ Auth!Go(c, p, f) /\ op'[c] = o
          /\ \/ o = "start" /\ p \in {"pend", "register"} /\ f = Auth!Reading(Auth!Pruned(file))
             \/ o = "complete" /\ p \in {"exchange", "failed"} /\ f = Auth!Reading(Auth!Pruned(file))
             \/ o = "disconnect" /\ p = "clear" /\ f = Auth!Reading(file)
             \/ o = "refresh" /\ p = "read" /\ f = Auth!NoFrame
             \/ o = "tool" /\ p = "header" /\ f = Auth!NoFrame
    BY DEF Auth!Begin, AInv, AuthShape
  <1>7. Frame(f)
    BY <1>2, <1>4, <1>6
  <1>8. where'[c] = p /\ (p \notin Auth!Ended => frame'[c] = f)
    BY <1>6, WhereItGoes
  <1>9. OpFits(c)'
    BY <1>6, <1>8 DEF OpFits
  <1>10. KnowsFile(c)' /\ StoresGood(c)'
    BY <1>1, <1>3, <1>4, <1>6, <1>8 DEF KnowsFile, StoresGood, Auth!Ended
  <1>11. where[c] \notin {"store", "sync", "share", "unlink"}
    BY <1>1 DEF Auth!Ended
  <1> QED
    BY <1>1, <1>5, <1>6, <1>7, <1>9, <1>10, <1>11, GoingKeepsAInv

LEMMA RegisterKeepsAInv ==
  ASSUME AInv, NEW c \in Threads, Auth!Register(c)
  PROVE  AInv'
  <1>1. where[c] = "register" /\ UNCHANGED <<file, sdk, op, good>>
    BY DEF Auth!Register, Auth!stored, Auth!server
  <1>2. CASE Auth!Raises(c, FALSE)
    BY <1>1, <1>2, RaisingKeepsAInv
  <1> DEFINE s == [frame[c].mine EXCEPT !.client = TRUE]
  <1>3. CASE Auth!Go(c, "keep", [frame[c] EXCEPT !.mine = s]) /\ trouble' = trouble
    <2>1. Frame(frame[c]) /\ State(frame[c].mine) /\ OpFits(c) /\ (~trouble => KnowsFile(c))
      BY TheFrame
    <2>2. State(s) /\ s.token = frame[c].mine.token
      BY <2>1, StatesAreKept
    <2> HIDE DEF s
    <2>3. PICK f : f = [frame[c] EXCEPT !.mine = s]
      OBVIOUS
    <2>4. Frame(f) /\ f.mine = s /\ f.missed = frame[c].missed
      BY <2>1, <2>2, <2>3, MineIsKept
    <2>5. where'[c] = "keep" /\ frame'[c] = f
      BY <1>3, <2>3, WhereItGoes DEF Auth!Ended
    <2>a. f.mine.token = frame[c].mine.token
      BY <2>2, <2>4
    <2>6. OpFits(c)' /\ (~trouble' => KnowsFile(c)' /\ StoresGood(c)')
      BY <1>1, <1>3, <2>1, <2>a, <2>4, <2>5 DEF OpFits, KnowsFile, StoresGood, Lacks
    <2>7. DOMAIN op' = Threads
      BY <1>1 DEF AInv, AuthShape
    <2> QED
      BY <1>1, <1>3, <2>3, <2>4, <2>6, <2>7, GoingKeepsAInv
  <1> QED
    BY <1>2, <1>3 DEF Auth!Register

LEMMA KeepRegistrationKeepsAInv ==
  ASSUME AInv, NEW c \in Threads, Auth!KeepRegistration(c)
  PROVE  AInv'
  <1>1. where[c] = "keep" /\ UNCHANGED <<sdk, op, good>>
    BY DEF Auth!KeepRegistration, Auth!server
  <1>2. CASE Auth!Raises(c, TRUE) /\ file' = file
    BY <1>1, <1>2, RaisingKeepsAInv
  <1>3. CASE Auth!Write(c, "mine", frame[c].mine, "pend")
    <2>1. State(frame[c].mine) /\ OpFits(c)
          /\ (~trouble => KnowsFile(c) /\ RefreshFollows /\ SdkFollows)
      BY TheFrame
    <2>2. /\ where'[c] = "pend" /\ frame'[c] = frame[c] /\ file' = frame[c].mine
          /\ \A q \in Threads \ {c} : where'[q] = where[q]
          /\ trouble' = (trouble \/ Lacks(c, "mine"))
      BY <1>3, WhereItWrites DEF Auth!Ended
    <2>3. OpFits(c)'
      BY <1>1, <2>1, <2>2 DEF OpFits
    <2>4. ASSUME ~trouble' PROVE KnowsFile(c)' /\ RefreshFollows' /\ SdkFollows'
      <3>1. frame[c].mine.token = file.token
        BY <1>1, <2>1, <2>2, <2>4 DEF KnowsFile
      <3> QED
        BY <1>1, <2>1, <2>2, <2>4, <3>1 DEF KnowsFile, RefreshFollows, SdkFollows
    <2> QED
      BY <1>1, <1>3, <2>1, <2>3, <2>4, WritingKeepsAInv
  <1> QED
    BY <1>2, <1>3 DEF Auth!KeepRegistration

LEMMA PendKeepsAInv ==
  ASSUME AInv, NEW c \in Threads, Auth!Pend(c)
  PROVE  AInv'
  <1>1. where[c] = "pend" /\ UNCHANGED <<sdk, op, good>>
    BY DEF Auth!Pend, Auth!server
  <1>2. CASE Auth!Raises(c, TRUE) /\ file' = file
    BY <1>1, <1>2, RaisingKeepsAInv
  <1> DEFINE x == frame[c].mine.pending \union {[id |-> starts', expires |-> hours + PendingTtl]}
             s == [frame[c].mine EXCEPT !.client = TRUE, !.error = FALSE, !.pending = x]
  <1>3. CASE Auth!Write(c, "mine", s, "done")
    <2>1. State(frame[c].mine) /\ (~trouble => KnowsFile(c) /\ RefreshFollows /\ SdkFollows)
      BY TheFrame
    <2>a. State(s) /\ s.token = frame[c].mine.token
      <3> HIDE DEF x
      <3> QED
        BY <2>1, StatesAreKept
    <2> HIDE DEF s
    <2>b. PICK t : t = s
      OBVIOUS
    <2>2. /\ where'[c] = "done" /\ file' = t
          /\ \A q \in Threads \ {c} : where'[q] = where[q]
          /\ trouble' = (trouble \/ Lacks(c, "mine"))
      BY <1>3, <2>b, WhereItWrites
    <2>3. OpFits(c)'
      BY <2>2 DEF OpFits
    <2>4. ASSUME ~trouble' PROVE KnowsFile(c)' /\ RefreshFollows' /\ SdkFollows'
      <3>1. t.token = file.token
        BY <1>1, <2>1, <2>a, <2>b, <2>2, <2>4 DEF KnowsFile
      <3> QED
        BY <1>1, <2>1, <2>2, <2>4, <3>1 DEF KnowsFile, RefreshFollows, SdkFollows
    <2> QED
      BY <1>1, <1>3, <2>a, <2>b, <2>3, <2>4, WritingKeepsAInv
  <1> QED
    BY <1>2, <1>3 DEF Auth!Pend

(* The SDK's copy is removed after the token, if there is a client; without*)
(* one there has been no token (longbridge_openapi_oauth.py:297-320).      *)
LEMMA ClearKeepsAInv ==
  ASSUME AInv, NEW c \in Threads, Auth!Clear(c)
  PROVE  AInv'
  <1>1. where[c] = "clear" /\ UNCHANGED <<sdk, op, good>>
    BY DEF Auth!Clear, Auth!server
  <1>2. CASE Auth!Raises(c, TRUE) /\ file' = file
    BY <1>1, <1>2, RaisingKeepsAInv
  <1> DEFINE s == [frame[c].mine EXCEPT !.token = Auth!NoToken, !.pending = {}, !.error = FALSE]
             p == IF Auth!HasClient(frame[c].mine) THEN "unlink" ELSE "done"
  <1>3. CASE Auth!Write(c, "mine", s, p)
    <2>1. State(frame[c].mine) /\ State(file) /\ OpFits(c)
          /\ (~trouble => KnowsFile(c) /\ RefreshFollows /\ SdkFollows)
      BY TheFrame
    <2>a. State(s) /\ s.token = Auth!NoToken
      BY <2>1, StatesAreKept
    <2> HIDE DEF s
    <2>b. PICK t : t = s
      OBVIOUS
    <2>c. PICK q : q = p
      OBVIOUS
    <2>2. /\ where'[c] = q /\ (q \notin Auth!Ended => frame'[c] = frame[c]) /\ file' = t
          /\ \A d \in Threads \ {c} : where'[d] = where[d]
          /\ trouble' = (trouble \/ Lacks(c, "mine"))
      <3> HIDE DEF p
      <3> QED
        BY <1>3, <2>b, <2>c, WhereItWrites
    <2>3. OpFits(c)'
      BY <1>1, <2>1, <2>c, <2>2 DEF OpFits
    <2>d. Auth!NoToken.access = 0 /\ Auth!NoToken.refresh = 0
      BY DEF Auth!NoToken
    <2>4. ASSUME ~trouble' PROVE KnowsFile(c)' /\ RefreshFollows' /\ SdkFollows'
      <3>1. frame[c].mine.token = file.token /\ frame[c].mine.client = file.client
        BY <1>1, <2>1, <2>2, <2>4 DEF KnowsFile
      <3>2. KnowsFile(c)'
        BY <2>a, <2>b, <2>c, <2>d, <2>2 DEF KnowsFile, Auth!Ended
      <3>3. RefreshFollows'
        BY <2>a, <2>b, <2>d, <2>2 DEF RefreshFollows
      <3>4. CASE Auth!HasClient(frame[c].mine)
        BY <2>c, <2>2, <3>2, <3>3, <3>4 DEF SdkFollows
      <3>5. CASE ~Auth!HasClient(frame[c].mine)
        <4>1. file.token.access = 0
          BY <2>1, <3>1, <3>5 DEF Auth!HasClient, State
        <4>2. SdkFollows'
          BY <1>1, <2>1, <2>a, <2>b, <2>d, <2>2, <2>4, <4>1 DEF SdkFollows
        <4> QED
          BY <3>2, <3>3, <4>2
      <3> QED
        BY <3>4, <3>5
    <2>5. q # "store"
      BY <2>c
    <2> HIDE DEF p
    <2> QED
      BY <1>1, <1>3, <2>a, <2>b, <2>c, <2>3, <2>4, <2>5, WritingKeepsAInv
  <1> QED
    BY <1>2, <1>3 DEF Auth!Clear

LEMMA UnlinkKeepsAInv ==
  ASSUME AInv, NEW c \in Threads, Auth!Unlink(c)
  PROVE  AInv'
  <1>1. /\ where[c] = "unlink" /\ UNCHANGED <<file, op, good>> /\ Auth!Go(c, "done", frame[c])
        /\ trouble' \/ (sdk' = 0 /\ trouble' = (trouble \/ Lacks(c, "mine")))
    BY DEF Auth!Unlink, Auth!server, Lacks
  <1>2. Frame(frame[c]) /\ (~trouble => KnowsFile(c))
    BY TheFrame
  <1>3. where'[c] = "done"
    BY <1>1, WhereItGoes
  <1>4. OpFits(c)' /\ KnowsFile(c)' /\ StoresGood(c)'
    BY <1>3 DEF OpFits, KnowsFile, StoresGood
  <1>5. ~trouble' => sdk' = file.token.access
    BY <1>1, <1>2 DEF KnowsFile
  <1>6. trouble => trouble'
    BY DEF Auth!Unlink
  <1>7. DOMAIN op' = Threads
    BY <1>1 DEF AInv, AuthShape
  <1> QED
    BY <1>1, <1>2, <1>4, <1>5, <1>6, <1>7, GoingKeepsAInv

LEMMA ExchangeKeepsAInv ==
  ASSUME AInv, NEW c \in Threads, Auth!Exchange(c)
  PROVE  AInv'
  <1>1. where[c] = "exchange" /\ UNCHANGED <<file, sdk, op>>
    BY DEF Auth!Exchange, Auth!stored
  <1>2. CASE Auth!Raises(c, FALSE) /\ UNCHANGED Auth!server
    BY <1>1, <1>2, RaisingKeepsAInv DEF Auth!server
  <1>3. CASE Auth!Raises(c, TRUE)
    BY <1>1, <1>3, RaisingKeepsAInv
  <1>4. CASE \E p \in frame[c].mine.pending, new \in {0, issued + 1}, life \in Lifetimes :
               /\ Auth!Accept(new, 0)
               /\ Auth!Receive(c, [frame[c].mine EXCEPT !.pending = @ \ {p}], Auth!Token(new, 0, life))
    <2>1. PICK p \in frame[c].mine.pending, new \in {0, issued + 1}, life \in Lifetimes :
               /\ Auth!Accept(new, 0)
               /\ Auth!Receive(c, [frame[c].mine EXCEPT !.pending = @ \ {p}], Auth!Token(new, 0, life))
      BY <1>4
    <2>2. PICK x : x = frame[c].mine.pending \ {p}
      OBVIOUS
    <2>3. PICK t : t = Auth!Token(new, 0, life)
      OBVIOUS
    <2>4. PICK u : u = [frame[c].mine EXCEPT !.pending = x]
      OBVIOUS
    <2>5. PICK v : v = [u EXCEPT !.client = TRUE, !.token = t, !.error = FALSE]
      OBVIOUS
    <2>6. PICK f : f = [frame[c] EXCEPT !.mine = v]
      OBVIOUS
    <2>7. Auth!Raises(c, TRUE) \/ (Auth!Go(c, "store", f) /\ trouble' = trouble)
      BY <2>1, <2>2, <2>3, <2>4, <2>5, <2>6 DEF Auth!Receive
    <2>8. Frame(frame[c]) /\ State(frame[c].mine) /\ OpFits(c)
      BY TheFrame
    <2>9. State(u)
      BY <2>4, <2>8, StatesAreKept
    <2>10. State(v) /\ v.token = t
      BY <2>5, <2>9, TokenIsReceived
    <2>11. Frame(f) /\ f.mine = v
      BY <2>6, <2>8, <2>10, MineIsKept
    <2>12. t.refresh = new
      BY <2>1, <2>3 DEF Auth!Token, Auth!RefreshToken
    <2>13. new \in good' \union {0}
      BY <2>1 DEF Auth!Accept
    <2>14. CASE Auth!Go(c, "store", f) /\ trouble' = trouble
      <3>1. where'[c] = "store" /\ frame'[c] = f
        BY <2>14, WhereItGoes DEF Auth!Ended
      <3>2. OpFits(c)' /\ KnowsFile(c)' /\ StoresGood(c)'
        BY <2>10, <2>11, <2>12, <2>13, <3>1 DEF OpFits, KnowsFile, StoresGood
      <3>3. DOMAIN op' = Threads
        BY <1>1 DEF AInv, AuthShape
      <3> QED
        BY <1>1, <2>11, <2>14, <3>2, <3>3, GoingKeepsAInv
    <2> QED
      BY <1>3, <2>7, <2>14
  <1> QED
    BY <1>2, <1>4 DEF Auth!Exchange

LEMMA ReadToRefreshKeepsAInv ==
  ASSUME AInv, NEW c \in Threads, Auth!ReadToRefresh(c)
  PROVE  AInv'
  <1>1. where[c] = "read" /\ UNCHANGED <<file, sdk, op, good>>
    BY DEF Auth!ReadToRefresh, Auth!stored, Auth!server
  <1>2. CASE Auth!Raises(c, FALSE)
    BY <1>1, <1>2, RaisingKeepsAInv
  <1> DEFINE x == frame[c].missed \ {"mine"}
             f == [frame[c] EXCEPT !.mine = file, !.missed = x]
  <1>3. CASE Auth!Go(c, "renew", f) /\ trouble' = trouble
    <2>1. Frame(frame[c]) /\ State(file) /\ OpFits(c) /\ (~trouble => KnowsFile(c))
      BY TheFrame
    <2>2. Frame(f) /\ f.old = frame[c].old /\ f.missed = x
      BY <2>1 DEF Frame, Auth!NoFrame
    <2>3. "old" \in x <=> Lacks(c, "old")
      BY DEF Lacks
    <2> HIDE DEF f, x
    <2>4. where'[c] = "renew" /\ frame'[c] = f
      BY <1>3, WhereItGoes DEF Auth!Ended
    <2>5. OpFits(c)' /\ (~trouble' => KnowsFile(c)' /\ StoresGood(c)')
      BY <1>1, <1>3, <2>1, <2>2, <2>3, <2>4 DEF OpFits, KnowsFile, StoresGood, Lacks
    <2>6. DOMAIN op' = Threads
      BY <1>1 DEF AInv, AuthShape
    <2> QED
      BY <1>1, <1>3, <2>2, <2>5, <2>6, GoingKeepsAInv
  <1> QED
    BY <1>2, <1>3 DEF Auth!ReadToRefresh

(* The server replaces the refresh token that is spent: the call has the   *)
(* new one, and stores it (longbridge_openapi_oauth.py:194-214).           *)
LEMMA RenewKeepsAInv ==
  ASSUME AInv, NEW c \in Threads, Auth!Renew(c)
  PROVE  AInv'
  <1>1. where[c] = "renew" /\ UNCHANGED <<file, sdk, op>>
    BY DEF Auth!Renew, Auth!stored
  <1>2. CASE Auth!Raises(c, FALSE) /\ UNCHANGED <<issued, good>>
    BY <1>1, <1>2, RaisingKeepsAInv
  <1>3. CASE Auth!Raises(c, TRUE)
    BY <1>1, <1>3, RaisingKeepsAInv
  <1> DEFINE previous == frame[c].mine.token.refresh
  <1>4. CASE \E new \in {0, issued + 1}, life \in Lifetimes :
               /\ previous \in good
               /\ Auth!Accept(new, previous)
               /\ Auth!Receive(c, frame[c].mine, Auth!Token(new, previous, life))
    <2>1. PICK new \in {0, issued + 1}, life \in Lifetimes :
               /\ previous \in good
               /\ Auth!Accept(new, previous)
               /\ Auth!Receive(c, frame[c].mine, Auth!Token(new, previous, life))
      BY <1>4
    <2>3. PICK t : t = Auth!Token(new, previous, life)
      OBVIOUS
    <2>5. PICK v : v = [frame[c].mine EXCEPT !.client = TRUE, !.token = t, !.error = FALSE]
      OBVIOUS
    <2>6. PICK f : f = [frame[c] EXCEPT !.mine = v]
      OBVIOUS
    <2>7. Auth!Raises(c, TRUE) \/ (Auth!Go(c, "store", f) /\ trouble' = trouble)
      BY <2>1, <2>3, <2>5, <2>6 DEF Auth!Receive
    <2>8. Frame(frame[c]) /\ State(frame[c].mine) /\ OpFits(c)
      BY TheFrame
    <2>10. State(v) /\ v.token = t
      BY <2>5, <2>8, TokenIsReceived
    <2>11. Frame(f) /\ f.mine = v
      BY <2>6, <2>8, <2>10, MineIsKept
    <2>12. t.refresh = Auth!RefreshToken(new, previous)
      BY <2>3 DEF Auth!Token
    <2>13. t.refresh \in good' \union {0}
      BY <2>1, <2>12 DEF Auth!Accept, Auth!RefreshToken
    <2>14. CASE Auth!Go(c, "store", f) /\ trouble' = trouble
      <3>1. where'[c] = "store" /\ frame'[c] = f
        BY <2>14, WhereItGoes DEF Auth!Ended
      <3>2. OpFits(c)' /\ KnowsFile(c)' /\ StoresGood(c)'
        BY <2>10, <2>11, <2>13, <3>1 DEF OpFits, KnowsFile, StoresGood
      <3>3. DOMAIN op' = Threads
        BY <1>1 DEF AInv, AuthShape
      <3> QED
        BY <1>1, <2>11, <2>14, <3>2, <3>3, GoingKeepsAInv
    <2> QED
      BY <1>3, <2>7, <2>14
  <1> QED
    BY <1>2, <1>4 DEF Auth!Renew

LEMMA StoreKeepsAInv ==
  ASSUME AInv, NEW c \in Threads, Auth!Store(c)
  PROVE  AInv'
  <1>1. where[c] = "store" /\ UNCHANGED <<sdk, op, good>>
    BY DEF Auth!Store, Auth!server
  <1>2. CASE Auth!Raises(c, TRUE) /\ file' = file
    BY <1>1, <1>2, RaisingKeepsAInv
  <1>3. CASE Auth!Write(c, "mine", frame[c].mine, "sync")
    <2>1. State(frame[c].mine) /\ (~trouble => StoresGood(c) /\ RefreshFollows /\ SdkFollows)
      BY TheFrame
    <2>2. /\ where'[c] = "sync" /\ frame'[c] = frame[c] /\ file' = frame[c].mine
          /\ \A q \in Threads \ {c} : where'[q] = where[q]
          /\ trouble' = (trouble \/ Lacks(c, "mine"))
      BY <1>3, WhereItWrites DEF Auth!Ended
    <2>3. OpFits(c)'
      BY <2>2 DEF OpFits
    <2>4. ASSUME ~trouble' PROVE KnowsFile(c)' /\ RefreshFollows' /\ SdkFollows'
      <3>1. KnowsFile(c)' /\ SdkFollows'
        BY <2>2 DEF KnowsFile, SdkFollows
      <3>2. RefreshFollows'
        BY <1>1, <2>1, <2>2, <2>4 DEF RefreshFollows, StoresGood
      <3> QED
        BY <3>1, <3>2
    <2> QED
      BY <1>1, <1>3, <2>1, <2>3, <2>4, WritingKeepsAInv
  <1> QED
    BY <1>2, <1>3 DEF Auth!Store

(* Where a call goes with the header it has made, or without.              *)
LEMMA HeadersLead ==
  ASSUME AInv, NEW c \in Threads, NEW there \in BOOLEAN, Auth!WithToken(c, there)
  PROVE  \E p \in {"handshake", "enter", "failed"} : Auth!Go(c, p, Auth!NoFrame)
  BY DEF Auth!WithToken

(* A step after which a call has nothing to write any more.                *)
LEMMA LeavingKeepsAInv ==
  ASSUME AInv, NEW c \in Threads, NEW p \in {"handshake", "enter", "failed", "done", "header", "locked", "post"},
         NEW f, Frame(f), Auth!Go(c, p, f),
         file' = file, op' = op, good' = good, trouble => trouble',
         ~trouble' => /\ where[c] # "store"
                      /\ (sdk' = sdk /\ where[c] \notin {"sync", "share", "unlink"}) \/ sdk' = file.token.access
  PROVE  AInv'
  <1>1. where'[c] = p
    BY WhereItGoes
  <1>2. OpFits(c)' /\ KnowsFile(c)' /\ StoresGood(c)'
    BY <1>1 DEF OpFits, KnowsFile, StoresGood
  <1>3. DOMAIN op' = Threads
    BY DEF AInv, AuthShape
  <1> QED
    BY <1>2, <1>3, GoingKeepsAInv

LEMMA SyncNewKeepsAInv ==
  ASSUME AInv, NEW c \in Threads, Auth!SyncNew(c)
  PROVE  AInv'
  <1>1. where[c] = "sync" /\ UNCHANGED <<file, op, good>>
    BY DEF Auth!SyncNew, Auth!server
  <1>2. CASE Auth!Raises(c, TRUE)
    BY <1>1, <1>2, RaisingKeepsAInv
  <1>3. CASE Auth!Sync(c, "mine", frame[c].mine) /\ \E p \in {"handshake", "enter", "failed", "done"} : Auth!Go(c, p, Auth!NoFrame)
    <2>1. PICK p \in {"handshake", "enter", "failed", "done"} : Auth!Go(c, p, Auth!NoFrame)
      BY <1>3
    <2>2. sdk' = frame[c].mine.token.access /\ trouble' = (trouble \/ Lacks(c, "mine"))
      BY <1>3 DEF Auth!Sync, Lacks
    <2>3. ~trouble' => sdk' = file.token.access
      BY <1>1, <2>2, TheFrame DEF KnowsFile
    <2>4. trouble => trouble'
      BY <2>2
    <2> QED
      BY <1>1, <2>1, <2>3, <2>4, NoFrameIsOne, LeavingKeepsAInv
  <1>4. Auth!Raises(c, TRUE) \/ (Auth!Sync(c, "mine", frame[c].mine) /\ (Auth!WithToken(c, TRUE) \/ Auth!Go(c, "done", Auth!NoFrame)))
    BY DEF Auth!SyncNew
  <1> QED
    BY <1>2, <1>3, <1>4, HeadersLead

LEMMA GetTokenKeepsAInv ==
  ASSUME AInv, NEW c \in Threads, Auth!GetToken(c)
  PROVE  AInv'
  <1>1. where[c] = "header" /\ UNCHANGED <<file, sdk, op, good, trouble>>
    BY DEF Auth!GetToken, Auth!stored, Auth!server
  <1>2. State(file)
    BY TheFrame
  <1>3. State(Auth!Pruned(file)) /\ Auth!Pruned(file).token = file.token
    BY <1>2, StatesAreKept
  <1>4. PICK s : s = Auth!Pruned(file)
    OBVIOUS
  <1>5. PICK f : f = [Auth!NoFrame EXCEPT !.old = s]
    OBVIOUS
  <1>6. Frame(f) /\ f.old = s
    BY <1>3, <1>4, <1>5, NoFrameIsOne, FramesAreKept
  <1>7. CASE \E p \in {"handshake", "enter", "failed"} : Auth!Go(c, p, Auth!NoFrame)
    BY <1>1, <1>7, NoFrameIsOne, LeavingKeepsAInv
  <1>8. ASSUME NEW p \in {"share", "read"}, Auth!Go(c, p, f)
        PROVE  AInv'
    <2>1. where'[c] = p /\ frame'[c] = f
      BY <1>8, WhereItGoes DEF Auth!Ended
    <2>2. OpFits(c)' /\ KnowsFile(c)' /\ StoresGood(c)'
      BY <1>1, <1>3, <1>4, <1>6, <2>1 DEF OpFits, KnowsFile, StoresGood
    <2>3. DOMAIN op' = Threads
      BY <1>1 DEF AInv, AuthShape
    <2> QED
      BY <1>1, <1>6, <1>8, <2>2, <2>3, GoingKeepsAInv
  <1>9. Auth!WithToken(c, FALSE) \/ Auth!Go(c, "share", f) \/ Auth!Go(c, "read", f) \/ Auth!WithToken(c, s.token.expires > hours)
    BY <1>4, <1>5 DEF Auth!GetToken
  <1>10. (s.token.expires > hours) \in BOOLEAN
    OBVIOUS
  <1> QED
    BY <1>7, <1>8, <1>9, <1>10, HeadersLead

LEMMA ShareKeepsAInv ==
  ASSUME AInv, NEW c \in Threads, Auth!Share(c)
  PROVE  AInv'
  <1>1. where[c] = "share" /\ UNCHANGED <<file, op, good>>
    BY DEF Auth!Share, Auth!server
  <1>2. \/ sdk' = frame[c].old.token.access /\ trouble' = (trouble \/ Lacks(c, "old"))
        \/ trouble' = TRUE
    BY DEF Auth!Share, Auth!Sync, Lacks
  <1>3. ~trouble' => sdk' = file.token.access
    BY <1>1, <1>2, TheFrame DEF KnowsFile
  <1>4. PICK p \in {"handshake", "enter", "failed"} : Auth!Go(c, p, Auth!NoFrame)
    BY HeadersLead DEF Auth!Share
  <1>5. trouble => trouble'
    BY <1>2
  <1> QED
    BY <1>1, <1>3, <1>4, <1>5, NoFrameIsOne, LeavingKeepsAInv

LEMMA RecoverKeepsAInv ==
  ASSUME AInv, NEW c \in Threads, Auth!Recover(c)
  PROVE  AInv'
  <1>1. where[c] = "recover" /\ UNCHANGED <<sdk, op, good>>
    BY DEF Auth!Recover, Auth!server
  <1>2. CASE trouble' = TRUE /\ file' = file /\ Auth!WithToken(c, FALSE)
    <2>1. PICK p \in {"handshake", "enter", "failed"} : Auth!Go(c, p, Auth!NoFrame)
      BY <1>2, HeadersLead
    <2> QED
      BY <1>1, <1>2, <2>1, NoFrameIsOne, LeavingKeepsAInv
  <1> DEFINE s == [frame[c].old EXCEPT !.error = TRUE]
  <1>3. CASE Auth!Write(c, "old", s, "use")
    <2>1. State(frame[c].old) /\ (~trouble => KnowsFile(c) /\ RefreshFollows /\ SdkFollows)
      BY TheFrame
    <2>2. State(s) /\ s.token = frame[c].old.token
      BY <2>1, StatesAreKept
    <2> HIDE DEF s
    <2>3. PICK t : t = s
      OBVIOUS
    <2>4. /\ where'[c] = "use" /\ file' = t
          /\ \A q \in Threads \ {c} : where'[q] = where[q]
          /\ trouble' = (trouble \/ Lacks(c, "old"))
      BY <1>3, <2>3, WhereItWrites
    <2>5. OpFits(c)' /\ KnowsFile(c)'
      BY <2>4 DEF OpFits, KnowsFile
    <2>6. ASSUME ~trouble' PROVE RefreshFollows' /\ SdkFollows'
      <3>1. t.token = file.token
        BY <1>1, <2>1, <2>2, <2>3, <2>4, <2>6, TheFrame DEF KnowsFile, OpFits
      <3> QED
        BY <1>1, <2>1, <2>4, <2>6, <3>1 DEF RefreshFollows, SdkFollows
    <2> QED
      BY <1>1, <1>3, <2>2, <2>3, <2>5, <2>6, WritingKeepsAInv
  <1> QED
    BY <1>2, <1>3 DEF Auth!Recover

(* The other steps of a tool call leave file and copies alone.             *)
LEMMA ToolStepsKeepAInv ==
  ASSUME AInv, NEW c \in Threads,
         Auth!UseOld(c) \/ Auth!Enter(c) \/ Auth!CheckAgain(c) \/ Auth!Handshake(c) \/ Auth!Post(c)
  PROVE  AInv'
  <1>1. /\ where[c] \in {"use", "enter", "locked", "handshake", "post"}
        /\ UNCHANGED <<file, sdk, op, good, trouble>>
    BY DEF Auth!UseOld, Auth!Enter, Auth!CheckAgain, Auth!Handshake, Auth!Post, Auth!stored, Auth!server
  <1>2. CASE Auth!UseOld(c)
    <2>a. PICK b : b = (frame[c].old.token.expires > hours)
      OBVIOUS
    <2>b. b \in BOOLEAN
      BY <2>a
    <2>1. PICK p \in {"handshake", "enter", "failed"} : Auth!Go(c, p, Auth!NoFrame)
      BY <1>2, <2>a, <2>b, HeadersLead DEF Auth!UseOld
    <2> QED
      BY <1>1, <2>1, NoFrameIsOne, LeavingKeepsAInv
  <1>3. CASE Auth!Enter(c) \/ Auth!CheckAgain(c) \/ Auth!Handshake(c)
    <2>1. PICK p \in {"post", "locked", "header", "failed"} : Auth!Go(c, p, Auth!NoFrame)
      BY <1>3 DEF Auth!Enter, Auth!CheckAgain, Auth!Handshake
    <2> QED
      BY <1>1, <2>1, NoFrameIsOne, LeavingKeepsAInv
  <1>4. CASE Auth!Post(c)
    <2>a. PICK x : x = frame[c].tries + 1
      OBVIOUS
    <2>1. PICK p \in {"post", "done", "failed"} :
             Auth!Go(c, p, Auth!NoFrame) \/ Auth!Go(c, p, [Auth!NoFrame EXCEPT !.tries = x])
      BY <1>4, <2>a DEF Auth!Post
    <2>2. PICK f : Frame(f) /\ Auth!Go(c, p, f)
      BY <2>1, NoFrameIsOne, FramesAreKept
    <2> QED
      BY <1>1, <2>1, <2>2, LeavingKeepsAInv
  <1> QED
    BY <1>2, <1>3, <1>4

(* Whatever leaves these variables alone.                                  *)
LEMMA IdlingKeepsAInv ==
  ASSUME AInv, UNCHANGED <<file, sdk, op, where, frame, good, trouble>>
  PROVE  AInv'
  <1>1. AuthShape' /\ RefreshFollows' = RefreshFollows /\ SdkFollows' = SdkFollows
    BY DEF AInv, AuthShape, Frame, State, RefreshFollows, SdkFollows
  <1>2. \A c \in Threads : OpFits(c)' = OpFits(c) /\ KnowsFile(c)' = KnowsFile(c) /\ StoresGood(c)' = StoresGood(c)
    BY DEF OpFits, KnowsFile, StoresGood, Lacks
  <1> QED
    BY <1>1, <1>2 DEF AInv

LEMMA AInvNext == AInv /\ [Auth!Next]_(Auth!vars) => AInv'
  <1> SUFFICES ASSUME AInv, [Auth!Next]_(Auth!vars) PROVE AInv'
    OBVIOUS
  <1>1. CASE UNCHANGED Auth!vars \/ Auth!Tick
    BY <1>1, IdlingKeepsAInv DEF Auth!vars, Auth!Tick, Auth!stored, Auth!server
  <1>2. ASSUME NEW c \in Threads, Auth!Begin(c) \/ Auth!Step(c)
        PROVE  AInv'
    BY <1>2, BeginKeepsAInv, RegisterKeepsAInv, KeepRegistrationKeepsAInv, PendKeepsAInv, ClearKeepsAInv,
       UnlinkKeepsAInv, ExchangeKeepsAInv, ReadToRefreshKeepsAInv, RenewKeepsAInv, StoreKeepsAInv,
       SyncNewKeepsAInv, GetTokenKeepsAInv, ShareKeepsAInv, RecoverKeepsAInv, ToolStepsKeepAInv DEF Auth!Step
  <1> QED
    BY <1>1, <1>2 DEF Auth!Next

LEMMA TokenMoves ==
  MCSpec => Auth!Init /\ [][Auth!Next]_(Auth!vars)
  <1>1. MCInit => Auth!Init
    BY DEF MCInit
  <1>2. [MCNext]_all => [Auth!Next]_(Auth!vars)
    BY DEF MCNext, CacheStep, LimiterStep, TokenStep, all, auth, Auth!vars, Auth!stored, Auth!client,
       Auth!server
  <1> QED
    BY <1>1, <1>2, PTL DEF MCSpec

(* Unless the disk fails, an answer is lost or a call puts back what       *)
(* another had replaced, the stored refresh token is good and the SDK has  *)
(* the stored access token, however the calls are interleaved              *)
(* (longbridge_openapi_oauth.py:194-406).                                  *)
THEOREM TokenIsAlwaysKept == MCSpec => []TokenIsKept
  <1>1. AInv => TokenIsKept
    BY AInvKeepsToken DEF TokenIsKept
  <1> QED
    BY <1>1, AInvInit, AInvNext, TokenMoves, PTL
=============================================================================
