------------------------------- MODULE Universe -------------------------------
(***************************************************************************)
(* The symbol universe of the portfolio manager: one stored row per        *)
(* symbol, which users edit through the API (universe/service.py) and      *)
(* which every synchronisation of the holdings rewrites for the symbols    *)
(* that are held.  All of them read a row and later write the whole row;   *)
(* a synchronisation reads every row it needs before it writes the first.  *)
(* Requests and the daily loop are threads; nothing is locked.             *)
(*                                                                         *)
(* Of a row the model keeps what the readers of the universe test: the     *)
(* kind of the symbol, whether it is enabled, and whether its scan and     *)
(* decision frequencies are "disabled".                                    *)
(***************************************************************************)
EXTENDS Naturals

CONSTANTS
    Symbols,
    Users,        \* requests of users, each one edit
    Syncs         \* synchronisations

VARIABLES
    rows,         \* the stored rows
    held,         \* the symbols with a position that is not zero
    pc,           \* per actor: where it is
    edit,         \* per user: what it asks for
    of,           \*   and of which symbol
    todo,         \* per synchronisation: the symbols to read, later to write
    work,         \* per actor: the rows it has made of what it read
    stale         \* per actor: the symbols that were switched off since then

vars == <<rows, held, pc, edit, of, todo, work, stale>>

Absent == [kind |-> "absent", enabled |-> FALSE, off |-> FALSE]
Row == [kind : {"holding", "watchlist", "candidate", "excluded"}, enabled : BOOLEAN, off : BOOLEAN]
Actors == Users \union Syncs

Init ==
    /\ rows \in [Symbols -> {Absent, [kind |-> "watchlist", enabled |-> TRUE, off |-> FALSE]}]
    /\ held \in SUBSET Symbols
    /\ pc = [a \in Actors |-> "idle"]
    /\ edit = [u \in Users |-> "none"]
    /\ of \in [Users -> Symbols]
    /\ todo = [y \in Syncs |-> {}]
    /\ work = [a \in Actors |-> [s \in Symbols |-> Absent]]
    /\ stale = [a \in Actors |-> {}]

Goto(a, p) == pc' = [pc EXCEPT ![a] = p]

(* Reading makes the copy of a row fresh. *)
Copy(a, s, row) ==
    /\ work' = [work EXCEPT ![a][s] = row]
    /\ stale' = [stale EXCEPT ![a] = @ \ {s}]

(* Writing a row whose frequencies are off makes all other copies stale. *)
Store(s, row) ==
    /\ rows' = [rows EXCEPT ![s] = row]
    /\ stale' = IF row.off THEN [a \in Actors |-> stale[a] \union {s}] ELSE stale

(* A position is opened or closed by an import. *)
Trade(s) ==
    /\ held' = IF s \in held THEN held \ {s} ELSE held \union {s}
    /\ UNCHANGED <<rows, pc, edit, of, todo, work, stale>>

-----------------------------------------------------------------------------
(* Edits.                                                                  *)

(* mark_excluded: the frequencies are disabled as well. *)
Excluded == [kind |-> "excluded", enabled |-> FALSE, off |-> TRUE]

Arrive(u, e) ==
    /\ pc[u] = "idle"
    /\ edit' = [edit EXCEPT ![u] = e]
    /\ Goto(u, IF e = "upsert" THEN "writing" ELSE "reading")
    /\ UNCHANGED <<rows, held, of, todo, work, stale>>

(* mark_excluded makes the excluded row of whatever is there; for          *)
(* disable_symbol a missing row is an error.                               *)
ReadRow(u) ==
    /\ pc[u] = "reading"
    /\ LET row == rows[of[u]]
       IN /\ Copy(u, of[u], IF edit[u] = "exclude" THEN Excluded ELSE [row EXCEPT !.enabled = FALSE])
          /\ Goto(u, IF edit[u] = "disable" /\ row = Absent THEN "done" ELSE "writing")
    /\ UNCHANGED <<rows, held, edit, of, todo>>

(* upsert_symbol and add_to_watchlist: the user gives the row in full. *)
Upsert(u, row) ==
    /\ pc[u] = "writing" /\ edit[u] = "upsert"
    /\ Store(of[u], row)
    /\ Goto(u, "done")
    /\ UNCHANGED <<held, edit, of, todo, work>>

WriteRow(u) ==
    /\ pc[u] = "writing" /\ edit[u] # "upsert"
    /\ Store(of[u], work[u][of[u]])
    /\ Goto(u, "done")
    /\ UNCHANGED <<held, edit, of, todo, work>>

-----------------------------------------------------------------------------
(* sync_holdings_from_positions.                                           *)

(* A plausible bug, used as a mutant only: the frequencies are set anew. *)
Synced_FreqsReset(row) == [kind |-> "holding", enabled |-> TRUE, off |-> FALSE]

(* build_holding_sync_document: a held symbol is an enabled holding, and   *)
(* keeps its frequencies; a new one gets the usual ones.                   *)
Synced(row) == [kind |-> "holding", enabled |-> TRUE, off |-> row # Absent /\ row.off]

(* The positions are listed; those that are zero are skipped. *)
ListPositions(y) ==
    /\ pc[y] = "idle"
    /\ todo' = [todo EXCEPT ![y] = held]
    /\ Goto(y, "reading")
    /\ UNCHANGED <<rows, held, edit, of, work, stale>>

(* repository.get_symbol for each of them *)
ReadHolding(y, s) ==
    /\ pc[y] = "reading" /\ s \in todo[y]
    /\ Copy(y, s, Synced(rows[s]))
    /\ todo' = [todo EXCEPT ![y] = @ \ {s}]
    /\ UNCHANGED <<rows, held, pc, edit, of>>

(* bulk_upsert, after the last reading: row after row. *)
StartWriting(y) ==
    /\ pc[y] = "reading" /\ todo[y] = {}
    /\ todo' = [todo EXCEPT ![y] = {s \in Symbols : work[y][s] # Absent}]
    /\ Goto(y, "writing")
    /\ UNCHANGED <<rows, held, edit, of, work, stale>>

WriteHolding(y, s) ==
    /\ pc[y] = "writing" /\ s \in todo[y]
    /\ Store(s, work[y][s])
    /\ todo' = [todo EXCEPT ![y] = @ \ {s}]
    /\ UNCHANGED <<held, pc, edit, of, work>>

Next ==
    \/ \E s \in Symbols : Trade(s)
    \/ \E u \in Users : \/ \E e \in {"upsert", "exclude", "disable"} : Arrive(u, e)
                        \/ \E row \in Row : Upsert(u, row)
                        \/ ReadRow(u) \/ WriteRow(u)
    \/ \E y \in Syncs : \/ ListPositions(y) \/ StartWriting(y)
                        \/ \E s \in Symbols : ReadHolding(y, s) \/ WriteHolding(y, s)

Spec == Init /\ [][Next]_vars

-----------------------------------------------------------------------------
(* The tests of _skip_reason: may an automatic decision be made of it?     *)
Decidable(row) == row.kind \in {"holding", "watchlist", "candidate"} /\ row.enabled /\ ~row.off

(* An exclusion outlives every synchronisation: although a synchronisation *)
(* makes a held symbol that was excluded an enabled holding again, the     *)
(* frequencies stay disabled, so that no automatic decision is made of it. *)
(* It becomes decidable again only by an edit of a user, or by a writer    *)
(* that had read the row before the exclusion was stored and so loses it   *)
(* (universe/service.py:70-131, sync_holdings.py:7-35).                    *)
KeepsExclusions ==
    \A s \in Symbols :
        rows[s].off /\ Decidable(rows'[s]) =>
            \/ \E u \in Users : pc[u] = "writing" /\ of[u] = s /\ edit[u] = "upsert" /\ pc'[u] = "done"
            \/ \E a \in Actors : s \in stale[a] /\ rows'[s] = work[a][s]

ExclusionIsKept == [][KeepsExclusions]_vars
=============================================================================
