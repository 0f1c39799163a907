-------------------------------- MODULE Ledger --------------------------------
(***************************************************************************)
(* What the import of a Flex statement leaves in the database: the rows    *)
(* that the parsers make of a statement (worker/parsers/                   *)
(* flex_xml_parser.py, flex_csv_parser.py), in the order in which they are *)
(* written (jobs/import_job.py, _write_results), and what becomes of them  *)
(* when a row with the same key is there (clients/sqlite_writer.py and the *)
(* unique indexes of backend/app/core/database.py).  Every write is a      *)
(* transaction, so an import that fails leaves a part of its statement,    *)
(* and a later pass writes all of it again.  Statements overlap: each has  *)
(* the account values of many days, and the trades of several statements   *)
(* are the same.  FlexImport has the passes and what they mark; here one   *)
(* file is imported at a time, and any number of times.                    *)
(***************************************************************************)
EXTENDS Integers, Sequences, FiniteSets

CONSTANTS
    Archives,     \* each a sequence of statements, the contents of the files
    MaxFailures   \* bound on the imports that fail

(***************************************************************************)
(* A statement is a record                                                 *)
(*   csv     its format,                                                   *)
(*   day     toDate, the day of its positions,                             *)
(*   nav     ChangeInNAV: "absent", "empty" (an account without value),    *)
(*           "full", "zeros" (an incomplete report) or "partial" (some     *)
(*           attributes are missing),                                      *)
(*   covers  the days of its EquitySummary with a positive total,          *)
(*   holds   whether it lists positions,                                   *)
(*   trades  a sequence of [day, id, fill, form, foreign], where an id of 0*)
(*           is an empty tradeID, fill tells trades with equal ids apart,  *)
(*           and form is "trade" or "confirm",                             *)
(*   flows   a sequence of [id, flow].                                     *)
(***************************************************************************)

VARIABLES
    archive,
    at,          \* the file that is imported, 0 between two imports
    next,        \* the number of its next write
    last,        \* the file that the pass has dealt with last
    failures,
    marked,      \* the files that have been imported, in this order
    tried,       \* and those of which an import began
    snapshots,   \* account_snapshots, by day
    positions,   \* per day: the last statement that wrote its positions
    trades,      \* trade_records
    flows        \* cash_flows, a row may be there several times

tables == <<snapshots, positions, trades, flows>>
vars == <<archive, at, next, last, failures, marked, tried, tables>>

Statement == [csv : BOOLEAN, day : Nat, nav : {"absent", "empty", "full", "zeros", "partial"},
              covers : SUBSET Nat, holds : BOOLEAN,
              trades : Seq([day : Nat, id : Nat, fill : STRING, form : {"trade", "confirm"}, foreign : BOOLEAN]),
              flows : Seq([id : Nat, flow : STRING])]

TradesIn(s) == {s.trades[i] : i \in DOMAIN s.trades}
FlowsIn(s) == {s.flows[i] : i \in DOMAIN s.flows}

(* An id is that of one flow, and a fill is in one currency.               *)
IsArchive(a) ==
    /\ a \in Seq(Statement)
    /\ \A f \in DOMAIN a : IsFiniteSet(a[f].covers)
    /\ \A f, g \in DOMAIN a :
          /\ \A v \in FlowsIn(a[f]), w \in FlowsIn(a[g]) : v.id = w.id /\ v.id # 0 => v = w
          /\ \A t \in TradesIn(a[f]), u \in TradesIn(a[g]) :
                <<t.day, t.id, t.fill>> = <<u.day, u.id, u.fill>> => t.foreign = u.foreign

DaysOf(a) == UNION {{a[f].day} \union a[f].covers : f \in DOMAIN a}

(* The number of the statement a column comes from, 0 for NULL, and        *)
(* whether the value of the account was summed up from its positions.      *)
NoRow == [equity |-> 0, estimate |-> FALSE, options |-> 0, ending |-> 0, parts |-> 0, inferred |-> FALSE]

EmptyTables(a) == [snapshots |-> [d \in DaysOf(a) |-> NoRow], positions |-> [d \in DaysOf(a) |-> 0],
                   trades |-> {}, flows |-> <<>>]

Init ==
    /\ archive \in Archives
    /\ at = 0 /\ next = 1 /\ last = 0 /\ failures = 0 /\ marked = <<>> /\ tried = {}
    /\ snapshots = EmptyTables(archive).snapshots /\ positions = EmptyTables(archive).positions
    /\ trades = EmptyTables(archive).trades /\ flows = EmptyTables(archive).flows

-----------------------------------------------------------------------------
(* The snapshot of the day of statement s, of file f: from its ChangeInNAV *)
(* (the parts of an incomplete report are inferred, missing ones are NULL);*)
(* if there is none, or the account is empty, from the positions; or none. *)
(* CSV files have the value of the account in a section of its own, and    *)
(* "empty" is a file without it.                                           *)
Snapshot(s, f) ==
    LET row == [NoRow EXCEPT !.equity = f, !.ending = f]
    IN  IF s.csv /\ s.nav # "empty" THEN
              {[NoRow EXCEPT !.equity = f, !.options = f,
                  !.ending = IF s.nav = "absent" THEN 0 ELSE f,
                  !.parts = IF s.nav \in {"full", "zeros"} THEN f ELSE 0]}
        ELSE IF s.nav \in {"full", "zeros"} THEN {[row EXCEPT !.parts = f, !.inferred = s.nav = "zeros"]}
        ELSE IF s.nav = "partial" THEN {row}
        ELSE IF s.holds THEN {[NoRow EXCEPT !.equity = f, !.estimate = TRUE]}
        ELSE {}

(* A snapshot of another day has only the values of the account.           *)
Summary(f) == [NoRow EXCEPT !.equity = f, !.options = f]

(* Trades are converted to the base currency, confirmations are not.       *)
InBase(t) == ~t.foreign \/ t.form = "trade"

Ordered(days) ==
    CHOOSE q \in [1 .. Cardinality(days) -> days] : \A i, j \in DOMAIN q : i < j => q[i] < q[j]

(* What _write_results writes of statement s, of file f, in this order.    *)
TransactionsOf(s, f) ==
    LET day(d, rows) == IF rows = {} THEN <<>>
                        ELSE <<[table |-> "snapshots", day |-> d, row |-> CHOOSE r \in rows : TRUE]>>
        others == Ordered(s.covers \ {s.day})
    IN  day(s.day, Snapshot(s, f))
        \o (IF s.holds THEN <<[table |-> "positions", day |-> s.day, row |-> f]>> ELSE <<>>)
        \o [i \in DOMAIN s.trades |-> [table |-> "trades", row |-> s.trades[i]]]
        \o [i \in DOMAIN s.flows |-> [table |-> "flows", row |-> s.flows[i]]]
        \o [i \in DOMAIN others |-> [table |-> "snapshots", day |-> others[i], row |-> Summary(f)]]

-----------------------------------------------------------------------------
(* ON CONFLICT(account_id, report_date) DO UPDATE: the values of the       *)
(* account are replaced, a part of its change only by one that is known.   *)
Upserted(old, new) ==
    [new EXCEPT !.ending = IF @ # 0 THEN @ ELSE old.ending,
                !.parts = IF @ # 0 THEN @ ELSE old.parts,
                !.inferred = IF new.parts # 0 THEN @ ELSE old.inferred]

(* INSERT OR IGNORE under UNIQUE(account_id, trade_date, symbol, trade_id),*)
(* where an empty id is an id like any other.                              *)
InsertedTrade(rows, t) ==
    IF \E r \in rows : r.day = t.day /\ r.id = t.id THEN rows
    ELSE rows \union {[day |-> t.day, id |-> t.id, fill |-> t.fill, inBase |-> InBase(t)]}

(* Mutant of InsertedFlow: every row is new.                               *)
InsertedFlow_Always(rows, w) == Append(rows, w)

(* INSERT OR IGNORE under an index that leaves empty ids out.              *)
InsertedFlow(rows, w) ==
    IF w.id # 0 /\ \E i \in DOMAIN rows : rows[i].id = w.id THEN rows ELSE Append(rows, w)

(* The tables t after write w.                                             *)
After(t, w) ==
    CASE w.table = "snapshots" -> [t EXCEPT !.snapshots[w.day] = Upserted(@, w.row)]
      [] w.table = "positions" -> [t EXCEPT !.positions[w.day] = w.row]
      [] w.table = "trades"    -> [t EXCEPT !.trades = InsertedTrade(@, w.row)]
      [] w.table = "flows"     -> [t EXCEPT !.flows = InsertedFlow(@, w.row)]

Now == [snapshots |-> snapshots, positions |-> positions, trades |-> trades, flows |-> flows]

Apply(w) ==
    LET t == After(Now, w)
    IN  /\ snapshots' = t.snapshots /\ positions' = t.positions
        /\ trades' = t.trades /\ flows' = t.flows

(* A record of a CSV file has no trade_id at all, and the insertion of a   *)
(* trade without that parameter raises.                                    *)
Raises(f, w) == archive[f].csv /\ w.table = "trades"

-----------------------------------------------------------------------------
Marked == {marked[i] : i \in DOMAIN marked}

(* A pass comes to the next file that is not marked, in the order of the   *)
(* names; the pass after the last one begins anew.                         *)
Begin(f) ==
    LET unmarked == DOMAIN archive \ Marked
        ahead == {g \in unmarked : g > last}
    IN  /\ at = 0 /\ f \in unmarked
        /\ \A g \in IF ahead = {} THEN unmarked ELSE ahead : f <= g
        /\ ahead # {} => f \in ahead
        /\ at' = f /\ next' = 1
        /\ tried' = tried \union {f}
        /\ UNCHANGED <<archive, last, failures, marked, tables>>

ToWrite == TransactionsOf(archive[at], at)

Write ==
    /\ at # 0 /\ next <= Len(ToWrite)
    /\ ~Raises(at, ToWrite[next])
    /\ Apply(ToWrite[next])
    /\ next' = next + 1
    /\ UNCHANGED <<archive, at, last, failures, marked, tried>>

Mark ==
    /\ at # 0 /\ next > Len(ToWrite)
    /\ marked' = Append(marked, at) /\ last' = at
    /\ at' = 0 /\ next' = 1
    /\ UNCHANGED <<archive, failures, tried, tables>>

(* The import of the file fails and the pass goes on, or it is killed.     *)
Fail ==
    /\ at # 0 /\ failures < MaxFailures /\ failures' = failures + 1
    /\ last' \in {at, 0} /\ at' = 0 /\ next' = 1
    /\ UNCHANGED <<archive, marked, tried, tables>>

Next == (\E f \in DOMAIN archive : Begin(f)) \/ Write \/ Mark \/ Fail

Spec == Init /\ [][Next]_vars

-----------------------------------------------------------------------------
(* The tables t after the writes ws, and the tables if the files of an     *)
(* archive a had been imported in an order, each at once.                  *)
Imported(t, ws) ==
    LET step[n \in 0 .. Len(ws)] == IF n = 0 THEN t ELSE After(step[n - 1], ws[n])
    IN  step[Len(ws)]

Replay(a, order) ==
    LET pass[n \in 0 .. Len(order)] ==
            IF n = 0 THEN EmptyTables(a) ELSE Imported(pass[n - 1], TransactionsOf(a[order[n]], order[n]))
    IN  pass[Len(order)]

(* A trade that comes as a confirmation and as a trade, or a second trade  *)
(* of the same day without an id.                                          *)
Contested(key) ==
    \E f, g \in DOMAIN archive : \E t \in TradesIn(archive[f]), u \in TradesIn(archive[g]) :
        <<t.day, t.id>> = key /\ <<u.day, u.id>> = key /\ <<t.form, t.fill>> # <<u.form, u.fill>>

(* A failure leaves no trace once its file has been imported: then the     *)
(* tables are as if every file had been imported once, without a failure,  *)
(* in the order in which they were marked, except for cash flows that have *)
(* no id, which are written anew by every attempt, and for trades of which *)
(* there are two versions (sqlite_writer.py:201-578, import_job.py:46-90). *)
FailuresLeaveNoTrace ==
    at = 0 /\ tried = Marked =>
        LET t == Replay(archive, marked)
            settled(rows) == {r \in rows : ~Contested(<<r.day, r.id>>)}
            known(rows) == {i \in DOMAIN rows : rows[i].id # 0}
            set(rows) == {rows[i] : i \in DOMAIN rows}
        IN  /\ snapshots = t.snapshots /\ positions = t.positions
            /\ settled(trades) = settled(t.trades)
            /\ {<<r.day, r.id>> : r \in trades} = {<<r.day, r.id>> : r \in t.trades}
            /\ set(flows) = set(t.flows) /\ Cardinality(known(flows)) = Cardinality(known(t.flows))

(* "Insert a single cash flow record (skip if transaction_id already       *)
(* exists)" (sqlite_writer.py:561): a flow is stored once.  Not so for one *)
(* without an id.                                                          *)
FlowsAreStoredOnce == \A i, j \in DOMAIN flows : flows[i] = flows[j] => i = j

(* "Build snapshot from positions if no ChangeInNAV data"                  *)
(* (import_job.py:64): an estimate stands only for a day of which no file  *)
(* has the value.  Not so when the statement without it comes last.        *)
EstimatesFillGaps ==
    \A d \in DaysOf(archive) : snapshots[d].estimate =>
        \A f \in Marked : d \notin archive[f].covers /\ (archive[f].day = d => archive[f].nav \in {"absent", "empty"})

(* "Supports multiple file formats (XML, CSV, TXT)" (import_job.py:4): a   *)
(* file whose import began is imported unless it fails.  Not so for a CSV  *)
(* file with a trade, which can only fail.                                 *)
FilesCanBeImported == at # 0 /\ next <= Len(ToWrite) => ~Raises(at, ToWrite[next])
=============================================================================
