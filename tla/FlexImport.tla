------------------------------ MODULE FlexImport ------------------------------
(***************************************************************************)
(* Importing the archived Flex statements into SQLite (worker/jobs/        *)
(* import_job.py, worker/clients/sqlite_writer.py).  A pass reads in       *)
(* imported_files.txt which names to skip and takes one pattern after the  *)
(* other: it lists the files of the pattern that are there by now, and     *)
(* deals with them in the order of their names before it lists those of    *)
(* the next.  It parses a file, writes its records with one transaction    *)
(* per write, and appends the name to imported_files.txt.  The scheduled   *)
(* job, the command line and the import route of the backend (which skips  *)
(* no name) run passes that may overlap, and the fetch job may save files  *)
(* meanwhile.                                                              *)
(*                                                                         *)
(* A statement is what one download saved, and is known by its number.     *)
(***************************************************************************)
EXTENDS Naturals, Sequences

CONSTANTS
    NumFiles,     \* file names, numbered by pattern and, within one, by name
    Pattern,      \* per file: the pattern it matches
    Rows,         \* groups of records: one table's records of one report date
    InsertOnly,   \* those in trade_records and cash_flows
    Writes,       \* per file: the rows its statement writes, in this order
    Passes,       \* calls of import_all_archived
    MaxSaves,     \* bound on the number of downloads
    MayFail       \* whether a download, a write or a pass may break off

Files == 1 .. NumFiles

(* 1 is *.xml, 2 is *.csv, 3 is *.txt. *)
NumPatterns == 3
Patterns == 1 .. NumPatterns

ASSUME NumbersAssumption == NumFiles \in Nat /\ MaxSaves \in Nat /\ MayFail \in BOOLEAN
ASSUME WritesAssumption == InsertOnly \subseteq Rows /\ Writes \in [Files -> Seq(Rows)]
ASSUME PatternAssumption ==
    /\ Pattern \in [Files -> Patterns]
    /\ \A f, g \in Files : f < g => Pattern[f] <= Pattern[g]

VARIABLES
    saves,     \* the number of downloads so far
    first,     \* per file: the download that created it, 0 if there is none
    last,      \*   the download it holds
    state,     \*   and whether that is whole
    marked,    \* the names in imported_files.txt
    stored,    \* per row: the statements whose records it holds
    phase,     \* per pass: where it is
    skips,     \*   the names it skips
    pattern,   \*   the pattern it listed last, 0 before the first
    asOf,      \*   per pattern: the number of downloads when it listed it
    todo,      \*   the listed files it has yet to deal with
    source,    \*   the statement it read from the file it is at, or 0
    left,      \*   the rows of it that are yet to be written
    failed     \*   the files it logged as failed

archive == <<saves, first, last, state>>
db == <<marked, stored>>
listing == <<skips, pattern, asOf>>
pass == <<phase, listing, todo, source, left, failed>>
vars == <<archive, db, pass>>

Phases == {"idle", "scanning", "writing", "done", "dead"}

(* Mutant of Current: the newest first. *)
Current_Newest(p) == CHOOSE f \in todo[p] : \A g \in todo[p] : g <= f

(* The file a pass deals with next: the names of a listing are sorted. *)
Current(p) == CHOOSE f \in todo[p] : \A g \in todo[p] : f <= g

Init ==
    /\ saves = 0
    /\ first = [f \in Files |-> 0] /\ last = [f \in Files |-> 0]
    /\ state = [f \in Files |-> "absent"]
    /\ marked = {}
    /\ stored = [r \in Rows |-> {}]
    /\ phase = [p \in Passes |-> "idle"]
    /\ skips = [p \in Passes |-> {}]
    /\ pattern = [p \in Passes |-> 0]
    /\ asOf = [p \in Passes |-> [k \in Patterns |-> 0]]
    /\ todo = [p \in Passes |-> {}]
    /\ source = [p \in Passes |-> 0]
    /\ left = [p \in Passes |-> <<>>]
    /\ failed = [p \in Passes |-> {}]

(* The fetch job, or a user, saves a file.  A file of more than 1 KB is    *)
(* not downloaded again, be it whole or cut off; a short one is.           *)
Save(f, s) ==
    /\ saves < MaxSaves
    /\ state[f] \in {"absent", "short"}
    /\ s = "broken" => MayFail
    /\ saves' = saves + 1
    /\ first' = [first EXCEPT ![f] = IF state[f] = "absent" THEN saves + 1 ELSE @]
    /\ last' = [last EXCEPT ![f] = saves + 1]
    /\ state' = [state EXCEPT ![f] = s]
    /\ UNCHANGED <<db, pass>>

(* A pass reads imported_files.txt, unless it is to import all. *)
Begin(p, all) ==
    /\ phase[p] = "idle"
    /\ skips' = [skips EXCEPT ![p] = IF all THEN {} ELSE marked]
    /\ phase' = [phase EXCEPT ![p] = "scanning"]
    /\ UNCHANGED <<archive, db, pattern, asOf, todo, source, left, failed>>

(* It is through with the files of one pattern, and lists those of the     *)
(* next that are there by now.                                             *)
List(p) ==
    /\ phase[p] = "scanning" /\ todo[p] = {} /\ pattern[p] < NumPatterns
    /\ pattern' = [pattern EXCEPT ![p] = @ + 1]
    /\ asOf' = [asOf EXCEPT ![p][pattern[p] + 1] = saves]
    /\ todo' = [todo EXCEPT ![p] =
                   {f \in Files \ skips[p] : Pattern[f] = pattern[p] + 1 /\ state[f] # "absent"}]
    /\ UNCHANGED <<archive, db, phase, skips, source, left, failed>>

(* parse_flex_file reads the file as it is now.  A short statement has     *)
(* some of the records, or none.                                           *)
Parse(p) ==
    /\ phase[p] = "scanning" /\ todo[p] # {}
    /\ state[Current(p)] # "broken"
    /\ LET w == Writes[Current(p)]
       IN \E n \in IF state[Current(p)] = "whole" THEN {Len(w)} ELSE 0 .. Len(w) :
             left' = [left EXCEPT ![p] = SubSeq(w, 1, n)]
    /\ source' = [source EXCEPT ![p] = last[Current(p)]]
    /\ phase' = [phase EXCEPT ![p] = "writing"]
    /\ UNCHANGED <<archive, db, listing, todo, failed>>

(* One transaction: rows of most tables are replaced, trades and cash      *)
(* flows are added unless their id is there.                               *)
WriteRow(p) ==
    /\ phase[p] = "writing" /\ left[p] # <<>>
    /\ LET r == Head(left[p])
       IN stored' = [stored EXCEPT ![r] = IF r \in InsertOnly THEN @ \union {source[p]}
                                                              ELSE {source[p]}]
    /\ left' = [left EXCEPT ![p] = Tail(@)]
    /\ UNCHANGED <<archive, marked, phase, listing, todo, source, failed>>

(* The pass is through with a file. *)
Leave(p) ==
    /\ todo' = [todo EXCEPT ![p] = @ \ {Current(p)}]
    /\ source' = [source EXCEPT ![p] = 0]
    /\ left' = [left EXCEPT ![p] = <<>>]
    /\ phase' = [phase EXCEPT ![p] = "scanning"]

(* Mutant of Mark: the name is appended before the last record is written. *)
Mark_Early(p) ==
    /\ phase[p] = "writing" /\ Len(left[p]) <= 1
    /\ marked' = marked \union {Current(p)}
    /\ IF left[p] = <<>> THEN Leave(p) ELSE UNCHANGED <<todo, source, left, phase>>
    /\ UNCHANGED <<archive, stored, listing, failed>>

(* _mark_imported *)
Mark(p) ==
    /\ phase[p] = "writing" /\ left[p] = <<>>
    /\ marked' = marked \union {Current(p)}
    /\ Leave(p)
    /\ UNCHANGED <<archive, stored, listing, failed>>

(* An exception while one file is parsed (it is cut off, or is just being  *)
(* saved), while it is written or while its name is appended is logged,    *)
(* and the pass goes on with the next file.  What was written stays.       *)
Fail(p) ==
    /\ phase[p] \in {"scanning", "writing"} /\ todo[p] # {}
    /\ MayFail \/ (phase[p] = "scanning" /\ state[Current(p)] = "broken")
    /\ failed' = [failed EXCEPT ![p] = @ \union {Current(p)}]
    /\ Leave(p)
    /\ UNCHANGED <<archive, db, listing>>

End(p) ==
    /\ phase[p] = "scanning" /\ todo[p] = {} /\ pattern[p] = NumPatterns
    /\ phase' = [phase EXCEPT ![p] = "done"]
    /\ UNCHANGED <<archive, db, listing, todo, source, left, failed>>

(* The process is killed: what it had in its memory is gone. *)
Die(p) ==
    /\ MayFail
    /\ phase[p] \in {"scanning", "writing"}
    /\ phase' = [phase EXCEPT ![p] = "dead"]
    /\ todo' = [todo EXCEPT ![p] = {}]
    /\ source' = [source EXCEPT ![p] = 0]
    /\ left' = [left EXCEPT ![p] = <<>>]
    /\ UNCHANGED <<archive, db, listing, failed>>

Work(p) == List(p) \/ Parse(p) \/ WriteRow(p) \/ Mark(p) \/ Fail(p) \/ End(p)

Finished ==
    /\ \A p \in Passes : phase[p] \in {"done", "dead"}
    /\ UNCHANGED vars

Next ==
    \/ \E f \in Files, s \in {"short", "whole", "broken"} : Save(f, s)
    \/ \E p \in Passes, all \in BOOLEAN : Begin(p, all)
    \/ \E p \in Passes : Work(p) \/ Die(p)
    \/ Finished

Spec == Init /\ [][Next]_vars

-----------------------------------------------------------------------------
(* Archive, database and passes keep their types. *)
TypeOK ==
    /\ saves \in 0 .. MaxSaves
    /\ first \in [Files -> Nat] /\ last \in [Files -> Nat]
    /\ state \in [Files -> {"absent", "short", "whole", "broken"}]
    /\ marked \subseteq Files
    /\ stored \in [Rows -> SUBSET Nat]
    /\ phase \in [Passes -> Phases]
    /\ skips \in [Passes -> SUBSET Files]
    /\ pattern \in [Passes -> 0 .. NumPatterns]
    /\ asOf \in [Passes -> [Patterns -> Nat]]
    /\ todo \in [Passes -> SUBSET Files]
    /\ source \in [Passes -> Nat]
    /\ left \in [Passes -> Seq(Rows)]
    /\ failed \in [Passes -> SUBSET Files]

(* The rows that the statement of a file writes. *)
RowsOf(f) == {Writes[f][i] : i \in 1 .. Len(Writes[f])}

(* imported_files.txt never hides records that are missing: if a name is   *)
(* in it and the file was whole from the start, every row of the statement *)
(* is there, and its trades and cash flows are, although each write is a   *)
(* transaction of its own, passes overlap, and any of them may break off   *)
(* (import_job.py:59-88, 164-169).                                         *)
MarkedIsStored ==
    \A f \in marked :
        state[f] = "whole" /\ first[f] = last[f] =>
            \A r \in RowsOf(f) : IF r \in InsertOnly THEN first[f] \in stored[r]
                                                    ELSE stored[r] # {}

(* A listing of the pass has the file. *)
Lists(p, f) == Pattern[f] <= pattern[p] /\ 0 < first[f] /\ first[f] <= asOf[p][Pattern[f]]

(* The pass has listed the pattern of g, and not g, and f with a later one. *)
Overtakes(p, f, g) == Lists(p, f) /\ Pattern[g] < Pattern[f] /\ ~Lists(p, g)

(* The pass has not come to g yet, or was killed before it did. *)
BreaksOff(p, f, g) == Lists(p, f) /\ f < g /\ phase[p] \in {"scanning", "writing", "dead"}

Logged(g) == \E p \in Passes : g \in failed[p]

(* No day is left out in silence.  If a file is marked, every file that    *)
(* was archived before it is marked as well, or a pass has logged that it  *)
(* failed.  There are two exceptions: some pass listed the newer file with *)
(* a later pattern, when it had already listed the pattern of the older    *)
(* one, which was not there yet; or some pass takes the newer file first,  *)
(* and has not come to the older one, or was killed.  Neither outlasts a   *)
(* pass that lists the older file and ends (import_job.py:154-169).        *)
NoSilentGaps ==
    \A f \in marked, g \in Files :
        /\ 0 < first[g] /\ first[g] < first[f]
        /\ g \notin marked /\ ~Logged(g)
        => /\ \E p \in Passes : Overtakes(p, f, g) \/ BreaksOff(p, f, g)
           /\ \A p \in Passes : phase[p] = "done" => ~Lists(p, g)
=============================================================================
