---------------------------- MODULE ImportsProofs ----------------------------
(***************************************************************************)
(* Proofs about the import of Flex statements, for any number of files,    *)
(* rows, passes that overlap, and downloads; about the symbol universe,    *)
(* for any symbols, users and synchronisations; about the watchtower and   *)
(* the selection above it, for any symbols, roles and metrics; about the   *)
(* cost basis of a symbol, for any records of trades; and about the rows   *)
(* that statements leave in the database, for any archive and any failures.*)
(***************************************************************************)
EXTENDS MCImports, FiniteSetTheorems, TLAPS, WellFoundedInduction

(* A pass is at a file it has to deal with, and every file it has to deal  *)
(* with, like every name that is marked, is in the archive.                *)
AtAFile ==
    /\ \A p \in Passes : phase[p] = "writing" => todo[p] # {}
    /\ \A p \in Passes : \A f \in todo[p] : state[f] # "absent"
    /\ \A f \in marked : state[f] # "absent"

(* Downloads are numbered: the one that created a file is no later than    *)
(* the one it holds, and neither is later than the last.                   *)
SavesAreNumbered ==
    \A f \in Files : IF state[f] = "absent" THEN first[f] = 0
                                            ELSE 0 < first[f] /\ first[f] <= last[f] /\ last[f] <= saves

(* Row r has what statement n would write. *)
Has(r, n) == IF r \in InsertOnly THEN n \in stored[r] ELSE stored[r] # {}

(* What a pass that is at a file that was whole from the start has left to *)
(* write is what the database lacks of it.                                 *)
RestIsLeft ==
    \A p \in Passes : \A f \in Files :
        /\ phase[p] = "writing" /\ f = Current(p)
        /\ state[f] = "whole" /\ first[f] = last[f]
        => /\ source[p] = first[f]
           /\ \A r \in RowsOf(f) : (\E i \in 1 .. Len(left[p]) : left[p][i] = r) \/ Has(r, first[f])

Settled(g) == g \in marked \/ Logged(g)

(* The listings of a pass were made one after the other, and so far; what  *)
(* it has to deal with is in the last of them; and it skips what is marked.*)
ListedInOrder ==
    \A p \in Passes :
        /\ phase[p] = "idle" => pattern[p] = 0
        /\ phase[p] = "done" => pattern[p] = NumPatterns /\ todo[p] = {}
        /\ skips[p] \subseteq marked
        /\ \A f \in todo[p] : Pattern[f] = pattern[p] /\ Lists(p, f)
        /\ \A k \in Patterns : asOf[p][k] <= saves
        /\ \A j, k \in Patterns : j < k /\ k <= pattern[p] => asOf[p][j] <= asOf[p][k]

(* What a pass has listed it has yet to deal with, or it is settled.       *)
ListedIsLeft ==
    \A p \in Passes : phase[p] # "dead" =>
        \A g \in Files : Lists(p, g) => g \in todo[p] \/ Settled(g)

IInv == /\ TypeOK /\ AtAFile /\ SavesAreNumbered
        /\ RestIsLeft /\ MarkedIsStored
        /\ ListedInOrder /\ ListedIsLeft /\ NoSilentGaps

-----------------------------------------------------------------------------
(* A non-empty set of files has a smallest. *)
LEMMA SmallestFile ==
    ASSUME NEW T, T \subseteq Files, T # {}
    PROVE  \E f \in T : \A g \in T : f <= g
<1>1. Files \subseteq Nat
    BY NumbersAssumption DEF Files
<1>2. \E f \in T : \A g \in T : ~ (<<g, f>> \in OpToRel(<, Nat))
    BY <1>1, NatLessThanWellFounded, WFMin
<1>3. PICK f \in T : \A g \in T : ~ (<<g, f>> \in OpToRel(<, Nat))
    BY <1>2
<1>4. \A g \in T : ~ (g < f)
    BY <1>1, <1>3 DEF OpToRel
<1> QED BY <1>1, <1>4

(* The file a pass is at is one it has to deal with, and the smallest. *)
LEMMA CurrentIsSmallest ==
    ASSUME TypeOK, NEW p \in Passes, todo[p] # {}
    PROVE  Current(p) \in todo[p] /\ Current(p) \in Files /\ \A g \in todo[p] : Current(p) <= g
<1>1. todo[p] \subseteq Files
    BY DEF TypeOK
<1>2. \E f \in todo[p] : \A g \in todo[p] : f <= g
    BY <1>1, SmallestFile
<1> QED BY <1>1, <1>2 DEF Current

(* The rows of a statement are rows. *)
LEMMA RowsAreRows ==
    ASSUME NEW f \in Files
    PROVE  /\ Writes[f] \in Seq(Rows)
           /\ RowsOf(f) \subseteq Rows
           /\ \A n \in 0 .. Len(Writes[f]) : SubSeq(Writes[f], 1, n) \in Seq(Rows)
<1>1. Writes[f] \in Seq(Rows)
    BY WritesAssumption
<1> QED BY <1>1 DEF RowsOf

(* The start: no file, no row, no pass. *)
LEMMA InitIInv == Init => IInv
<1> SUFFICES ASSUME Init PROVE IInv
    OBVIOUS
<1> USE DEF Init
<1>1. TypeOK
    BY NumbersAssumption DEF TypeOK, Phases, Files, Patterns, NumPatterns
<1>2. AtAFile /\ SavesAreNumbered
    BY DEF AtAFile, SavesAreNumbered
<1>3. RestIsLeft /\ MarkedIsStored /\ NoSilentGaps
    BY DEF RestIsLeft, MarkedIsStored, NoSilentGaps
<1>4. ListedInOrder /\ ListedIsLeft
    BY NumbersAssumption, PatternAssumption
       DEF ListedInOrder, ListedIsLeft, Lists, Patterns, NumPatterns, Files
<1> QED BY <1>1, <1>2, <1>3, <1>4 DEF IInv

-----------------------------------------------------------------------------
(* What a pass that lists a pattern changes. *)
LEMMA ListIs ==
    ASSUME TypeOK, NEW p \in Passes, List(p)
    PROVE  /\ pattern[p] + 1 \in Patterns /\ pattern'[p] = pattern[p] + 1
           /\ pattern' \in [Passes -> 0 .. NumPatterns]
           /\ asOf' \in [Passes -> [Patterns -> Nat]]
           /\ asOf'[p][pattern[p] + 1] = saves
           /\ \A k \in Patterns : k # pattern[p] + 1 => asOf'[p][k] = asOf[p][k]
           /\ todo'[p] = {f \in Files \ skips[p] : Pattern[f] = pattern[p] + 1 /\ state[f] # "absent"}
           /\ \A q \in Passes \ {p} : pattern'[q] = pattern[q] /\ asOf'[q] = asOf[q] /\ todo'[q] = todo[q]
           /\ phase[p] = "scanning" /\ todo[p] = {}
           /\ UNCHANGED archive /\ UNCHANGED db /\ UNCHANGED <<phase, skips>>
<1>1. pattern \in [Passes -> 0 .. NumPatterns] /\ asOf \in [Passes -> [Patterns -> Nat]]
      /\ todo \in [Passes -> SUBSET Files] /\ saves \in Nat
    BY NumbersAssumption DEF TypeOK
<1>2. pattern[p] < NumPatterns /\ pattern' = [pattern EXCEPT ![p] = pattern[p] + 1]
    BY DEF List
<1>3. pattern[p] + 1 \in Patterns /\ pattern[p] + 1 \in 0 .. NumPatterns
    BY <1>1, <1>2 DEF Patterns, NumPatterns
<1>4. asOf' = [asOf EXCEPT ![p] = [asOf[p] EXCEPT ![pattern[p] + 1] = saves]]
    BY DEF List
<1>5. asOf[p] \in [Patterns -> Nat] BY <1>1
<1>6. [asOf[p] EXCEPT ![pattern[p] + 1] = saves] \in [Patterns -> Nat]
    BY <1>1, <1>3, <1>5
<1>7. /\ asOf' \in [Passes -> [Patterns -> Nat]]
      /\ asOf'[p] = [asOf[p] EXCEPT ![pattern[p] + 1] = saves]
      /\ \A q \in Passes \ {p} : asOf'[q] = asOf[q]
    BY <1>1, <1>4, <1>6, Zenon
<1>8. /\ asOf'[p][pattern[p] + 1] = saves
      /\ \A k \in Patterns : k # pattern[p] + 1 => asOf'[p][k] = asOf[p][k]
    BY <1>3, <1>5, <1>7
<1>9. /\ pattern' \in [Passes -> 0 .. NumPatterns] /\ pattern'[p] = pattern[p] + 1
      /\ \A q \in Passes \ {p} : pattern'[q] = pattern[q]
    BY <1>1, <1>2, <1>3
<1>10. /\ todo'[p] = {f \in Files \ skips[p] : Pattern[f] = pattern[p] + 1 /\ state[f] # "absent"}
       /\ \A q \in Passes \ {p} : todo'[q] = todo[q]
    BY <1>1 DEF List
<1> QED BY <1>3, <1>7, <1>8, <1>9, <1>10 DEF List

(* Every step keeps the types. *)
LEMMA TypeStep == TypeOK /\ AtAFile /\ [Next]_vars => TypeOK'
<1> SUFFICES ASSUME TypeOK, AtAFile, [Next]_vars PROVE TypeOK'
    OBVIOUS
<1> USE NumbersAssumption
<1>1. ASSUME NEW f \in Files, NEW s \in {"short", "whole", "broken"}, Save(f, s) PROVE TypeOK'
    BY <1>1 DEF Save, TypeOK, db, pass, listing
<1>2. ASSUME NEW p \in Passes, NEW forced \in BOOLEAN, Begin(p, forced) PROVE TypeOK'
    BY <1>2 DEF Begin, TypeOK, Phases, archive, db
<1>11. ASSUME NEW p \in Passes, List(p) PROVE TypeOK'
  <2>1. todo' \in [Passes -> SUBSET Files]
      BY <1>11 DEF List, TypeOK
  <2> QED BY <1>11, <2>1, ListIs DEF List, TypeOK, archive, db
<1>3. ASSUME NEW p \in Passes, Parse(p) PROVE TypeOK'
  <2>1. Current(p) \in Files
    BY <1>3, CurrentIsSmallest DEF Parse
  <2>2. PICK n \in 0 .. Len(Writes[Current(p)]) : left' = [left EXCEPT ![p] = SubSeq(Writes[Current(p)], 1, n)]
  <3>1. Len(Writes[Current(p)]) \in Nat
    BY <2>1, RowsAreRows
  <3>2. PICK n \in IF state[Current(p)] = "whole" THEN {Len(Writes[Current(p)])} ELSE 0 .. Len(Writes[Current(p)]) :
          left' = [left EXCEPT ![p] = SubSeq(Writes[Current(p)], 1, n)]
    BY <1>3 DEF Parse
  <3>3. n \in 0 .. Len(Writes[Current(p)])
    BY <3>1, <3>2
  <3> QED BY <3>2, <3>3
  <2>3. left' \in [Passes -> Seq(Rows)]
    BY <2>1, <2>2, RowsAreRows DEF TypeOK
  <2> QED BY <1>3, <2>1, <2>3 DEF Parse, TypeOK, Phases, archive, db, listing
<1>4. ASSUME NEW p \in Passes, WriteRow(p) PROVE TypeOK'
    BY <1>4 DEF WriteRow, TypeOK, archive, listing
<1>5. ASSUME NEW p \in Passes, Leave(p) 
      PROVE  /\ todo' \in [Passes -> SUBSET Files] /\ source' \in [Passes -> Nat]
             /\ left' \in [Passes -> Seq(Rows)] /\ phase' \in [Passes -> Phases]
    BY <1>5 DEF Leave, TypeOK, Phases
<1>6. ASSUME NEW p \in Passes, Mark(p) PROVE TypeOK'
  <2>1. Current(p) \in Files
    BY <1>6, CurrentIsSmallest DEF Mark, AtAFile
  <2> QED BY <1>5, <1>6, <2>1 DEF Mark, TypeOK, archive, listing
<1>7. ASSUME NEW p \in Passes, Fail(p) PROVE TypeOK'
  <2>1. Current(p) \in Files
    BY <1>7, CurrentIsSmallest DEF Fail
  <2> QED BY <1>5, <1>7, <2>1 DEF Fail, TypeOK, archive, db, listing
<1>8. ASSUME NEW p \in Passes, End(p) PROVE TypeOK'
    BY <1>8 DEF End, TypeOK, Phases, archive, db, listing
<1>9. ASSUME NEW p \in Passes, Die(p) PROVE TypeOK'
    BY <1>9 DEF Die, TypeOK, Phases, archive, db, listing
<1>10. ASSUME UNCHANGED vars PROVE TypeOK'
    BY <1>10 DEF TypeOK, vars, archive, db, pass, listing
<1> QED BY <1>1, <1>2, <1>3, <1>4, <1>6, <1>7, <1>8, <1>9, <1>10, <1>11 DEF Next, Work, Finished

(* Every step keeps passes at files, and files numbered. *)
LEMMA FileStep == TypeOK /\ AtAFile /\ SavesAreNumbered /\ [Next]_vars => AtAFile' /\ SavesAreNumbered'
<1> SUFFICES ASSUME TypeOK, AtAFile, SavesAreNumbered, [Next]_vars PROVE AtAFile' /\ SavesAreNumbered'
    OBVIOUS
<1> USE NumbersAssumption
<1>1. ASSUME NEW f \in Files, NEW s \in {"short", "whole", "broken"}, Save(f, s)
      PROVE AtAFile' /\ SavesAreNumbered'
  <2>1. AtAFile'
    BY <1>1 DEF Save, TypeOK, AtAFile, db, pass
  <2>2. SavesAreNumbered'
    BY <1>1 DEF Save, TypeOK, SavesAreNumbered
  <2> QED BY <2>1, <2>2
<1>2. ASSUME UNCHANGED archive PROVE SavesAreNumbered'
    BY <1>2 DEF SavesAreNumbered, archive
<1>3. ASSUME NEW p \in Passes, NEW forced \in BOOLEAN, Begin(p, forced) PROVE AtAFile'
    BY <1>3 DEF Begin, TypeOK, AtAFile, archive, db
<1>11. ASSUME NEW p \in Passes, List(p) PROVE AtAFile'
    BY <1>11 DEF List, TypeOK, AtAFile, archive, db
<1>4. ASSUME NEW p \in Passes, Parse(p) PROVE AtAFile'
    BY <1>4 DEF Parse, TypeOK, AtAFile, archive, db
<1>5. ASSUME NEW p \in Passes, WriteRow(p) PROVE AtAFile'
    BY <1>5 DEF WriteRow, TypeOK, AtAFile, archive
<1>6. ASSUME NEW p \in Passes, Mark(p) PROVE AtAFile'
  <2>1. Current(p) \in todo[p]
    BY <1>6, CurrentIsSmallest DEF Mark, AtAFile
  <2> QED BY <1>6, <2>1 DEF Mark, Leave, TypeOK, AtAFile, archive
<1>7. ASSUME NEW p \in Passes, Fail(p) PROVE AtAFile'
    BY <1>7 DEF Fail, Leave, TypeOK, AtAFile, archive, db
<1>8. ASSUME NEW p \in Passes, End(p) \/ Die(p) PROVE AtAFile'
    BY <1>8 DEF End, Die, TypeOK, AtAFile, archive, db
<1>9. ASSUME UNCHANGED vars PROVE AtAFile'
    BY <1>9 DEF AtAFile, vars, archive, db, pass
<1>10. [Next]_vars => UNCHANGED archive \/ \E f \in Files, s \in {"short", "whole", "broken"} : Save(f, s)
    BY DEF Next, Work, Begin, List, Parse, WriteRow, Mark, Fail, End, Die, Finished, vars
<1> QED BY <1>1, <1>2, <1>3, <1>4, <1>5, <1>6, <1>7, <1>8, <1>9, <1>10, <1>11 DEF Next, Work, Finished

-----------------------------------------------------------------------------
(* What is stored stays, whatever a pass writes over it. *)
LEMMA NothingIsLost ==
    ASSUME TypeOK, NEW p \in Passes, WriteRow(p), NEW r \in Rows, NEW n, Has(r, n)
    PROVE  Has(r, n)'
<1>1. stored \in [Rows -> SUBSET Nat]
    BY DEF TypeOK
<1> QED BY <1>1 DEF WriteRow, Has

(* A pass that is not writing afterwards, or that did not move, has the    *)
(* same left to write as before.                                           *)
LEMMA QuietPass ==
    ASSUME RestIsLeft, UNCHANGED archive, UNCHANGED stored,
           \A q \in Passes : \/ phase'[q] # "writing"
                             \/ /\ phase'[q] = phase[q] /\ todo'[q] = todo[q]
                                /\ source'[q] = source[q] /\ left'[q] = left[q]
    PROVE  RestIsLeft'
<1> SUFFICES ASSUME NEW q \in Passes, NEW f \in Files,
                    phase'[q] = "writing", f = Current(q)', state[f] = "whole", first[f] = last[f]
             PROVE  /\ source'[q] = first[f]
                    /\ \A r \in RowsOf(f) : (\E i \in 1 .. Len(left'[q]) : left'[q][i] = r) \/ Has(r, first[f])
    BY DEF RestIsLeft, archive, RowsOf, Has
<1>1. Current(q)' = Current(q)
    BY DEF Current
<1> QED BY <1>1 DEF RestIsLeft

(* Every step keeps what is left and what is stored complementary. *)
LEMMA StoredStep ==
    TypeOK /\ AtAFile /\ SavesAreNumbered /\ RestIsLeft /\ MarkedIsStored /\ [Next]_vars
        => RestIsLeft' /\ MarkedIsStored'
<1> SUFFICES ASSUME TypeOK, AtAFile, SavesAreNumbered, RestIsLeft, MarkedIsStored, [Next]_vars
             PROVE  RestIsLeft' /\ MarkedIsStored'
    OBVIOUS
<1> USE NumbersAssumption
<1>1. ASSUME NEW f \in Files, NEW s \in {"short", "whole", "broken"}, Save(f, s)
      PROVE RestIsLeft' /\ MarkedIsStored'
  <2>1. \A g \in Files : state'[g] = "whole" /\ first'[g] = last'[g] /\ state[f] # "absent" => g # f
    BY <1>1 DEF Save, TypeOK, SavesAreNumbered
  <2>2. \A g \in Files \ {f} : state'[g] = state[g] /\ first'[g] = first[g] /\ last'[g] = last[g]
    BY <1>1 DEF Save, TypeOK
  <2>3. \A p \in Passes : phase[p] = "writing" => state[Current(p)] # "absent"
    BY CurrentIsSmallest DEF AtAFile
  <2>4. \A p \in Passes : Current(p)' = Current(p)
    BY <1>1 DEF Save, pass, Current
  <2>5. RestIsLeft'
    BY <1>1, <2>1, <2>2, <2>3, <2>4 DEF Save, db, pass, RestIsLeft, RowsOf, Has
  <2>6. MarkedIsStored'
    <3>1. \A g \in marked : state'[g] = "whole" /\ first'[g] = last'[g] => g # f /\ g \in Files
      BY <2>1 DEF AtAFile, TypeOK
    <3> QED BY <1>1, <2>2, <3>1 DEF Save, db, MarkedIsStored, RowsOf
  <2> QED BY <2>5, <2>6
<1>2. ASSUME UNCHANGED archive, UNCHANGED marked, UNCHANGED stored PROVE MarkedIsStored'
    BY <1>2 DEF MarkedIsStored, archive, RowsOf
<1>3. ASSUME NEW p \in Passes, NEW forced \in BOOLEAN, Begin(p, forced) PROVE RestIsLeft' /\ MarkedIsStored'
    BY <1>2, <1>3, QuietPass DEF Begin, TypeOK, db
<1>11. ASSUME NEW p \in Passes, List(p) PROVE RestIsLeft' /\ MarkedIsStored'
  <2>1. \A q \in Passes : \/ phase'[q] # "writing"
                           \/ /\ phase'[q] = phase[q] /\ todo'[q] = todo[q]
                              /\ source'[q] = source[q] /\ left'[q] = left[q]
      BY <1>11 DEF List, TypeOK
  <2> QED BY <1>2, <1>11, <2>1, QuietPass DEF List, db
<1>4. ASSUME NEW p \in Passes, Parse(p) PROVE RestIsLeft' /\ MarkedIsStored'
  <2> DEFINE f == Current(p)
  <2>1. f \in Files /\ Current(p)' = f
    BY <1>4, CurrentIsSmallest DEF Parse, Current
  <2>2. \A q \in Passes \ {p} : /\ phase'[q] = phase[q] /\ todo'[q] = todo[q]
                                /\ source'[q] = source[q] /\ left'[q] = left[q]
                                /\ Current(q)' = Current(q)
    BY <1>4 DEF Parse, TypeOK, Current
  <2>3. source'[p] = last[f]
    BY <1>4 DEF Parse, TypeOK
  <2>4. state[f] = "whole" => left'[p] = SubSeq(Writes[f], 1, Len(Writes[f]))
    BY <1>4, <2>1 DEF Parse, TypeOK
  <2>5. state[f] = "whole" => left'[p] = Writes[f]
    BY <2>1, <2>4, RowsAreRows
  <2>6. state[f] = "whole" => \A r \in RowsOf(f) : \E i \in 1 .. Len(left'[p]) : left'[p][i] = r
    BY <2>5 DEF RowsOf
  <2> HIDE DEF f
  <2>7. ASSUME NEW q \in Passes, NEW g \in Files, phase'[q] = "writing", g = Current(q)',
               state[g] = "whole", first[g] = last[g]
        PROVE  /\ source'[q] = first[g]
               /\ \A r \in RowsOf(g) : (\E i \in 1 .. Len(left'[q]) : left'[q][i] = r) \/ Has(r, first[g])
    <3>1. CASE q = p BY <2>1, <2>3, <2>6, <2>7, <3>1
    <3>2. CASE q # p BY <2>2, <2>7, <3>2 DEF RestIsLeft
    <3> QED BY <3>1, <3>2
  <2>8. RestIsLeft'
    BY <1>4, <2>7 DEF Parse, archive, db, RestIsLeft, RowsOf, Has
  <2> QED BY <1>2, <1>4, <2>8 DEF Parse, db
<1>5. ASSUME NEW p \in Passes, WriteRow(p) PROVE RestIsLeft' /\ MarkedIsStored'
  <2>1. \A g \in Files : \A r \in RowsOf(g) : \A n : Has(r, n) => Has(r, n)'
    BY <1>5, NothingIsLost, RowsAreRows
  <2>2. MarkedIsStored'
    <3>1. \A g \in marked : g \in Files
      BY DEF TypeOK
    <3> QED BY <1>5, <2>1, <3>1 DEF WriteRow, archive, MarkedIsStored, RowsOf, Has
  <2>3. left[p] \in Seq(Rows) /\ left[p] # <<>> /\ left'[p] = Tail(left[p])
    BY <1>5 DEF WriteRow, TypeOK
  <2>4. \A i \in 1 .. Len(left[p]) : i = 1 \/ (i - 1 \in 1 .. Len(left'[p]) /\ left'[p][i - 1] = left[p][i])
    BY <2>3
  <2> PICK h \in Rows : h = Head(left[p]) /\ h = left[p][1]
    BY <2>3
  <2>5. Has(h, source[p])'
    <3>1. source' = source
      BY <1>5 DEF WriteRow
    <3>2. stored'[h] = IF h \in InsertOnly THEN stored[h] \union {source[p]} ELSE {source[p]}
      BY <1>5 DEF WriteRow, TypeOK
    <3> QED BY <3>1, <3>2 DEF Has
  <2>6. \A q \in Passes : Current(q)' = Current(q)
    BY <1>5 DEF WriteRow, Current
  <2>7. ASSUME NEW q \in Passes, NEW g \in Files, phase[q] = "writing", g = Current(q),
               state[g] = "whole", first[g] = last[g]
        PROVE  /\ source[q] = first[g]
               /\ \A r \in RowsOf(g) : (\E i \in 1 .. Len(left'[q]) : left'[q][i] = r) \/ Has(r, first[g])'
    <3>1. /\ source[q] = first[g]
          /\ \A r \in RowsOf(g) : (\E i \in 1 .. Len(left[q]) : left[q][i] = r) \/ Has(r, first[g])
      BY <2>7 DEF RestIsLeft
    <3>2. CASE q # p
      <4>1. left'[q] = left[q] BY <1>5, <3>2 DEF WriteRow, TypeOK
      <4> QED BY <2>1, <3>1, <4>1, <1>5 DEF WriteRow, archive, Has
    <3>3. CASE q = p
      <4>1. Has(h, first[g])'
        BY <1>5, <2>5, <3>1, <3>3 DEF WriteRow, archive, Has
      <4>2. ASSUME NEW r \in RowsOf(g), Has(r, first[g]) PROVE Has(r, first[g])'
        BY <1>5, <2>1, <4>2 DEF WriteRow, archive, Has
      <4>3. ASSUME NEW r \in RowsOf(g), NEW i \in 1 .. Len(left[p]), left[p][i] = r
            PROVE  (\E j \in 1 .. Len(left'[p]) : left'[p][j] = r) \/ Has(r, first[g])'
        <5>1. CASE i = 1 BY <4>1, <4>3, <5>1
        <5>2. CASE i # 1 BY <2>4, <4>3, <5>2
        <5> QED BY <5>1, <5>2
      <4> QED BY <3>1, <3>3, <4>2, <4>3
    <3> QED BY <3>2, <3>3
  <2>8. RestIsLeft'
    <3>1. state' = state /\ first' = first /\ last' = last /\ phase' = phase /\ source' = source
      BY <1>5 DEF WriteRow, archive
    <3>2. \A g \in Files : RowsOf(g)' = RowsOf(g)
      BY DEF RowsOf
    <3>3. ASSUME NEW q \in Passes, NEW g \in Files, phase'[q] = "writing", g = Current(q)',
                 state'[g] = "whole", first'[g] = last'[g]
          PROVE  /\ source'[q] = first'[g]
                 /\ \A r \in RowsOf(g) : (\E i \in 1 .. Len(left'[q]) : left'[q][i] = r) \/ Has(r, first[g])'
      BY <2>6, <2>7, <3>1, <3>3
    <3> QED BY <3>2, <3>3 DEF RestIsLeft
  <2> QED BY <2>2, <2>8
<1>6. ASSUME NEW p \in Passes, Mark(p) PROVE RestIsLeft' /\ MarkedIsStored'
  <2>1. RestIsLeft'
    BY <1>6, QuietPass DEF Mark, Leave, TypeOK
  <2>2. Current(p) \in Files
    BY <1>6, CurrentIsSmallest DEF Mark, AtAFile
  <2>3. state[Current(p)] = "whole" /\ first[Current(p)] = last[Current(p)]
          => \A r \in RowsOf(Current(p)) : Has(r, first[Current(p)])
    BY <1>6, <2>2 DEF Mark, RestIsLeft
  <2>4. MarkedIsStored'
    BY <1>6, <2>3 DEF Mark, archive, MarkedIsStored, RowsOf, Has
  <2> QED BY <2>1, <2>4
<1>7. ASSUME NEW p \in Passes, Fail(p) PROVE RestIsLeft' /\ MarkedIsStored'
    BY <1>2, <1>7, QuietPass DEF Fail, Leave, TypeOK, db
<1>8. ASSUME NEW p \in Passes, End(p) \/ Die(p) PROVE RestIsLeft' /\ MarkedIsStored'
    BY <1>2, <1>8, QuietPass DEF End, Die, TypeOK, db
<1>9. ASSUME UNCHANGED vars PROVE RestIsLeft' /\ MarkedIsStored'
    BY <1>2, <1>9, QuietPass DEF vars, archive, db, pass
<1> QED BY <1>1, <1>3, <1>4, <1>5, <1>6, <1>7, <1>8, <1>9, <1>11 DEF Next, Work, Finished

-----------------------------------------------------------------------------
(* What is marked or logged as failed stays so. *)
LEMMA SettledStays ==
    ASSUME TypeOK, [Next]_vars, NEW g, Settled(g)
    PROVE  Settled(g)'
<1>1. marked \subseteq marked'
    BY DEF Next, Work, Save, Begin, List, Parse, WriteRow, Mark, Fail, End, Die, Finished, vars, db, pass
<1>2. \A q \in Passes : failed[q] \subseteq failed'[q]
  <2>1. ASSUME NEW p \in Passes, Fail(p) PROVE \A q \in Passes : failed[q] \subseteq failed'[q]
    BY <2>1 DEF Fail, TypeOK
  <2>2. failed' = failed \/ \E p \in Passes : Fail(p)
    BY DEF Next, Work, Save, Begin, List, Parse, WriteRow, Mark, End, Die, Finished, vars, db, pass
  <2> QED BY <2>1, <2>2
<1> QED BY <1>1, <1>2 DEF Settled, Logged

(* The patterns of files, and what a listing is made of, are numbers. *)
LEMMA ListsOfNumbers ==
    ASSUME TypeOK
    PROVE  /\ NumPatterns \in Nat /\ Files \subseteq Nat /\ Patterns = 1 .. NumPatterns
           /\ \A f \in Files : Pattern[f] \in Patterns /\ Pattern[f] \in Nat /\ first[f] \in Nat
           /\ \A p \in Passes : pattern[p] \in 0 .. NumPatterns /\ pattern[p] \in Nat
           /\ \A p \in Passes : \A k \in Patterns : asOf[p][k] \in Nat
           /\ saves \in Nat
<1>1. Files \subseteq Nat BY NumbersAssumption DEF Files
<1>2. \A f \in Files : Pattern[f] \in Patterns BY PatternAssumption
<1> QED BY <1>1, <1>2, NumbersAssumption DEF TypeOK, Patterns, NumPatterns

(* Unless a pass lists a pattern, every listing has the files it had.      *)
LEMMA ListsStay ==
    ASSUME TypeOK, SavesAreNumbered, ListedInOrder, [Next]_vars, NEW p \in Passes, NEW g \in Files
    PROVE  /\ Lists(p, g) => Lists(p, g)'
           /\ ~List(p) => (Lists(p, g)' <=> Lists(p, g))
<1> USE ListsOfNumbers DEF Lists
<1>1. ASSUME NEW f \in Files, NEW s \in {"short", "whole", "broken"}, Save(f, s)
      PROVE  Lists(p, g)' <=> Lists(p, g)
  <2>1. pattern' = pattern /\ asOf' = asOf BY <1>1 DEF Save, pass, listing
  <2>2. asOf[p][Pattern[g]] <= saves BY DEF ListedInOrder
  <2>3. first'[g] = first[g] \/ (first[g] = 0 /\ first'[g] = saves + 1)
      BY <1>1 DEF Save, TypeOK, SavesAreNumbered
  <2> QED BY <2>1, <2>2, <2>3
<1>2. ASSUME NEW q \in Passes, List(q)
      PROVE  /\ Lists(p, g) => Lists(p, g)'
             /\ q # p => (Lists(p, g)' <=> Lists(p, g))
  <2>1. first' = first BY <1>2 DEF List, archive
  <2>2. /\ pattern'[q] = pattern[q] + 1
        /\ \A k \in Patterns : k # pattern[q] + 1 => asOf'[q][k] = asOf[q][k]
        /\ \A r \in Passes \ {q} : pattern'[r] = pattern[r] /\ asOf'[r] = asOf[r]
      BY <1>2 DEF List, TypeOK
  <2> QED BY <2>1, <2>2
<1>3. ASSUME UNCHANGED <<first, pattern, asOf>> PROVE Lists(p, g)' <=> Lists(p, g)
    BY <1>3
<1>4. \/ UNCHANGED <<first, pattern, asOf>>
      \/ \E f \in Files, s \in {"short", "whole", "broken"} : Save(f, s)
      \/ \E q \in Passes : List(q)
    BY DEF Next, Work, Begin, Parse, WriteRow, Mark, Fail, End, Die, Finished, vars, archive, pass, listing
<1> QED BY <1>1, <1>2, <1>3, <1>4

(* Every step keeps the listings in order. *)
LEMMA ListedStep ==
    TypeOK /\ AtAFile /\ SavesAreNumbered /\ ListedInOrder /\ [Next]_vars => ListedInOrder'
<1> SUFFICES ASSUME TypeOK, AtAFile, SavesAreNumbered, ListedInOrder, [Next]_vars PROVE ListedInOrder'
    OBVIOUS
<1>1. ASSUME UNCHANGED <<pattern, asOf>>, \A q \in Passes : todo'[q] \subseteq todo[q],
             saves <= saves', saves' \in Nat, marked \subseteq marked',
             \A q \in Passes : skips'[q] \subseteq skips[q] \union marked,
             \A q \in Passes : /\ phase'[q] = "idle" => phase[q] = "idle"
                               /\ phase'[q] = "done" => \/ phase[q] = "done"
                                                        \/ pattern[q] = NumPatterns /\ todo[q] = {}
      PROVE  ListedInOrder'
  <2> SUFFICES ASSUME NEW q \in Passes
               PROVE  /\ phase'[q] = "idle" => pattern[q] = 0
                      /\ phase'[q] = "done" => pattern[q] = NumPatterns /\ todo'[q] = {}
                      /\ skips'[q] \subseteq marked'
                      /\ \A f \in todo'[q] : Pattern[f] = pattern[q] /\ Lists(q, f)'
                      /\ \A k \in Patterns : asOf[q][k] <= saves'
                      /\ \A j, k \in Patterns : j < k /\ k <= pattern[q] => asOf[q][j] <= asOf[q][k]
      BY <1>1 DEF ListedInOrder
  <2>1. phase'[q] = "idle" => pattern[q] = 0
      BY <1>1 DEF ListedInOrder
  <2>2. phase'[q] = "done" => pattern[q] = NumPatterns /\ todo'[q] = {}
      BY <1>1 DEF ListedInOrder
  <2>3. skips'[q] \subseteq marked'
      BY <1>1 DEF ListedInOrder
  <2>4. \A f \in todo'[q] : Pattern[f] = pattern[q] /\ Lists(q, f)'
      BY <1>1, ListsStay DEF ListedInOrder, TypeOK
  <2>5. \A k \in Patterns : asOf[q][k] <= saves'
      BY <1>1, ListsOfNumbers DEF ListedInOrder
  <2>6. \A j, k \in Patterns : j < k /\ k <= pattern[q] => asOf[q][j] <= asOf[q][k]
      BY DEF ListedInOrder
  <2> QED BY <2>1, <2>2, <2>3, <2>4, <2>5, <2>6
<1>2. ASSUME NEW f \in Files, NEW s \in {"short", "whole", "broken"}, Save(f, s) PROVE ListedInOrder'
    BY <1>1, <1>2, ListsOfNumbers DEF Save, db, pass, listing
<1>3. ASSUME NEW p \in Passes, NEW forced \in BOOLEAN, Begin(p, forced) PROVE ListedInOrder'
    BY <1>1, <1>3, ListsOfNumbers DEF Begin, TypeOK, archive, db
<1>4. ASSUME NEW p \in Passes, List(p) PROVE ListedInOrder'
  <2>1. /\ pattern'[p] = pattern[p] + 1 /\ pattern[p] + 1 \in Patterns
        /\ asOf'[p][pattern[p] + 1] = saves
        /\ \A k \in Patterns : k # pattern[p] + 1 => asOf'[p][k] = asOf[p][k]
        /\ \A q \in Passes \ {p} : pattern'[q] = pattern[q] /\ asOf'[q] = asOf[q] /\ todo'[q] = todo[q]
        /\ todo'[p] = {f \in Files \ skips[p] : Pattern[f] = pattern[p] + 1 /\ state[f] # "absent"}
        /\ phase[p] = "scanning" /\ phase' = phase /\ skips' = skips
        /\ marked' = marked /\ saves' = saves /\ first' = first
      BY <1>4, ListIs DEF archive, db
  <2>2. \A f \in todo'[p] : Pattern[f] = pattern'[p] /\ Lists(p, f)'
    <3> SUFFICES ASSUME NEW f \in Files, Pattern[f] = pattern[p] + 1, state[f] # "absent"
                 PROVE  Pattern[f] = pattern'[p] /\ Lists(p, f)'
        BY <2>1
    <3>1. 0 < first[f] /\ first[f] <= saves
        BY ListsOfNumbers DEF SavesAreNumbered, TypeOK
    <3> QED BY <2>1, <3>1, ListsOfNumbers DEF Lists
  <2>3. \A k \in Patterns : asOf'[p][k] <= saves
      BY <2>1, ListsOfNumbers DEF ListedInOrder
  <2>4. \A j, k \in Patterns : j < k /\ k <= pattern'[p] => asOf'[p][j] <= asOf'[p][k]
      BY <2>1, ListsOfNumbers DEF ListedInOrder
  <2>5. \A q \in Passes \ {p} : \A f \in todo'[q] : Pattern[f] = pattern[q] /\ Lists(q, f)'
      BY <2>1, ListsStay DEF ListedInOrder, TypeOK
  <2>6. \A q \in Passes \ {p} : phase'[q] = phase[q]
      BY <2>1
  <2> QED BY <2>1, <2>2, <2>3, <2>4, <2>5, <2>6 DEF ListedInOrder
<1>5. ASSUME NEW p \in Passes, Parse(p) PROVE ListedInOrder'
    BY <1>1, <1>5, ListsOfNumbers DEF Parse, TypeOK, archive, db, listing
<1>9. ASSUME NEW p \in Passes, WriteRow(p) PROVE ListedInOrder'
    BY <1>1, <1>9, ListsOfNumbers DEF WriteRow, TypeOK, archive, db, listing
<1>10. ASSUME NEW p \in Passes, End(p) PROVE ListedInOrder'
    BY <1>1, <1>10, ListsOfNumbers DEF End, TypeOK, archive, db, listing
<1>11. ASSUME NEW p \in Passes, Die(p) PROVE ListedInOrder'
    BY <1>1, <1>11, ListsOfNumbers DEF Die, TypeOK, archive, db, listing
<1>6. ASSUME NEW p \in Passes, Mark(p) PROVE ListedInOrder'
    BY <1>1, <1>6, ListsOfNumbers DEF Mark, Leave, TypeOK, archive, listing
<1>7. ASSUME NEW p \in Passes, Fail(p) PROVE ListedInOrder'
    BY <1>1, <1>7, ListsOfNumbers DEF Fail, Leave, TypeOK, archive, db, listing
<1>8. ASSUME UNCHANGED vars PROVE ListedInOrder'
    BY <1>1, <1>8, ListsOfNumbers DEF vars, archive, db, pass, listing
<1> QED BY <1>2, <1>3, <1>4, <1>5, <1>6, <1>7, <1>8, <1>9, <1>10, <1>11 DEF Next, Work, Finished

(* A pass does not begin twice, and ends once. *)
LEMMA PhaseStep ==
    ASSUME TypeOK, [Next]_vars, NEW q \in Passes
    PROVE  /\ phase[q] = "dead" => phase'[q] = "dead"
           /\ phase[q] \in {"scanning", "writing", "dead"} =>
                  phase'[q] \in {"scanning", "writing", "dead", "done"}
<1>1. ASSUME NEW p \in Passes, Begin(p, TRUE) \/ Begin(p, FALSE)
      PROVE  phase[p] = "idle" /\ \A r \in Passes \ {p} : phase'[r] = phase[r]
    BY <1>1 DEF Begin, TypeOK
<1>2. ASSUME NEW p \in Passes, Work(p) \/ Die(p)
      PROVE  /\ phase[p] # "dead" /\ phase'[p] \in {"scanning", "writing", "dead", "done"}
             /\ \A r \in Passes \ {p} : phase'[r] = phase[r]
  <2>1. CASE List(p) \/ WriteRow(p) BY <2>1 DEF List, WriteRow, TypeOK
  <2>2. CASE Parse(p) \/ End(p) \/ Die(p) BY <2>2 DEF Parse, End, Die, TypeOK
  <2>3. CASE Mark(p) \/ Fail(p) BY <2>3 DEF Mark, Fail, Leave, TypeOK
  <2> QED BY <1>2, <2>1, <2>2, <2>3 DEF Work
<1>3. \/ phase' = phase
      \/ \E p \in Passes : Begin(p, TRUE) \/ Begin(p, FALSE) \/ Work(p) \/ Die(p)
    BY DEF Next, Save, Finished, vars, pass
<1> QED BY <1>1, <1>2, <1>3

(* Every step leaves what was listed to be dealt with, or settles it.      *)
LEMMA LeftStep ==
    /\ TypeOK /\ AtAFile /\ SavesAreNumbered /\ ListedInOrder /\ ListedIsLeft /\ [Next]_vars
    => ListedIsLeft'
<1> SUFFICES ASSUME TypeOK, AtAFile, SavesAreNumbered, ListedInOrder, ListedIsLeft, [Next]_vars,
                    NEW q \in Passes, phase'[q] # "dead", NEW g \in Files, Lists(q, g)'
             PROVE  g \in todo'[q] \/ Settled(g)'
    BY DEF ListedIsLeft
<1>1. phase[q] # "dead" BY PhaseStep
<1>2. Lists(q, g) => g \in todo[q] \/ Settled(g)
    BY <1>1 DEF ListedIsLeft
<1>3. ASSUME Lists(q, g), g \notin todo'[q] PROVE g \notin todo[q] \/ Settled(g)'
  <2>1. CASE List(q) BY <1>3, <2>1 DEF List
  <2>2. ASSUME NEW p \in Passes, Mark(p) PROVE g \notin todo[q] \/ Settled(g)'
      BY <1>3, <2>2 DEF Mark, Leave, Settled, TypeOK
  <2>3. ASSUME NEW p \in Passes, Fail(p) PROVE g \notin todo[q] \/ Settled(g)'
      BY <1>3, <2>3 DEF Fail, Leave, Settled, Logged, TypeOK
  <2>4. CASE Die(q) BY <2>4 DEF Die, TypeOK
  <2>5. \/ todo'[q] = todo[q] \/ List(q) \/ Die(q)
        \/ \E p \in Passes : Mark(p) \/ Fail(p)
    <3>1. ASSUME NEW p \in Passes, List(p) \/ Die(p) PROVE p = q \/ todo'[q] = todo[q]
        BY <3>1, ListIs DEF Die, TypeOK
    <3>2. \/ todo' = todo
          \/ \E p \in Passes : List(p) \/ Die(p) \/ Mark(p) \/ Fail(p)
        BY DEF Next, Work, Save, Begin, Parse, WriteRow, End, Finished, vars, pass
    <3> QED BY <3>1, <3>2
  <2> QED BY <1>3, <2>1, <2>2, <2>3, <2>4, <2>5
<1>4. CASE Lists(q, g) BY <1>2, <1>3, <1>4, SettledStays
<1>5. CASE ~Lists(q, g)
  <2>1. List(q) BY <1>5, ListsStay
  <2>2. Pattern[g] = pattern[q] + 1
      BY <1>5, <2>1, ListsOfNumbers DEF List, Lists, TypeOK, archive
  <2>3. state[g] # "absent"
      BY <2>1 DEF List, archive, Lists, SavesAreNumbered
  <2>4. g \in todo'[q] \/ g \in marked
      BY <2>1, <2>2, <2>3 DEF List, TypeOK, ListedInOrder
  <2> QED BY <2>4, SettledStays DEF Settled
<1> QED BY <1>4, <1>5

(* Why a file may be missing although f is marked. *)
Excused(f, g) ==
    /\ \E p \in Passes : Overtakes(p, f, g) \/ BreaksOff(p, f, g)
    /\ \A p \in Passes : phase[p] = "done" => ~Lists(p, g)

(* Every step keeps gaps settled or excused. *)
LEMMA GapStep ==
    /\ TypeOK /\ AtAFile /\ SavesAreNumbered /\ ListedInOrder /\ ListedIsLeft /\ NoSilentGaps
    /\ ListedInOrder' /\ ListedIsLeft' /\ TypeOK' /\ [Next]_vars
    => NoSilentGaps'
<1> SUFFICES ASSUME TypeOK, AtAFile, SavesAreNumbered, ListedInOrder, ListedIsLeft, NoSilentGaps,
                    ListedInOrder', ListedIsLeft', TypeOK', [Next]_vars,
                    NEW f \in marked', NEW g \in Files,
                    0 < first'[g], first'[g] < first'[f], ~Settled(g)'
             PROVE  Excused(f, g)'
    BY DEF NoSilentGaps, Settled, Logged, Excused
<1>f. f \in Files BY DEF TypeOK
<1>n. /\ f \in Nat /\ g \in Nat /\ ~Settled(g)
      /\ Pattern[f] \in Patterns /\ Pattern[g] \in Patterns /\ Pattern[f] \in Nat /\ Pattern[g] \in Nat
      /\ f <= g => Pattern[f] <= Pattern[g]
  <2>1. f < g => Pattern[f] <= Pattern[g] BY <1>f, PatternAssumption
  <2> QED BY <1>f, <2>1, SettledStays, ListsOfNumbers
<1>d. \A p \in Passes : phase'[p] = "done" => ~Lists(p, g)'
    BY DEF ListedInOrder, ListedIsLeft
<1>1. CASE f \in marked
  <2>1. 0 < first[g] /\ first[g] < first[f]
    <3>1. state[f] # "absent" BY <1>1 DEF AtAFile
    <3>2. ASSUME NEW h \in Files, NEW s \in {"short", "whole", "broken"}, Save(h, s)
          PROVE  0 < first[g] /\ first[g] < first[f]
      <4>1. first'[f] = first[f] /\ first[f] <= saves
          BY <1>f, <3>1, <3>2, ListsOfNumbers DEF Save, TypeOK, SavesAreNumbered
      <4>2. first'[g] = first[g] \/ first'[g] = saves + 1
          BY <3>2 DEF Save, TypeOK
      <4> QED BY <1>f, <4>1, <4>2, ListsOfNumbers
    <3>3. first' = first \/ \E h \in Files, s \in {"short", "whole", "broken"} : Save(h, s)
        BY DEF Next, Work, Begin, List, Parse, WriteRow, Mark, Fail, End, Die, Finished, vars, archive
    <3> QED BY <3>2, <3>3
  <2>2. PICK p \in Passes : Overtakes(p, f, g) \/ BreaksOff(p, f, g)
      BY <1>1, <1>n, <2>1 DEF NoSilentGaps, Settled
  <2>3. Lists(p, f) /\ Lists(p, f)'
      BY <1>f, <2>2, ListsStay DEF Overtakes, BreaksOff
  <2>4. CASE Overtakes(p, f, g)
    <3>1. ~List(p) => ~Lists(p, g)'
        BY <2>4, ListsStay DEF Overtakes
    <3>2. ASSUME List(p) PROVE ~Lists(p, g)'
      <4>1. Pattern[g] <= pattern[p] /\ Pattern[g] # pattern[p] + 1 /\ ~Lists(p, g)
          BY <2>4, <1>f, <1>n, ListsOfNumbers DEF Overtakes, Lists
      <4>2. asOf'[p][Pattern[g]] = asOf[p][Pattern[g]] /\ first'[g] = first[g]
          BY <1>n, <3>2, <4>1, ListIs DEF archive
      <4> QED BY <4>1, <4>2 DEF Lists
    <3> QED BY <1>d, <2>2, <2>3, <2>4, <3>1, <3>2 DEF Excused, Overtakes
  <2>5. CASE BreaksOff(p, f, g)
    <3>1. CASE phase'[p] # "done"
      <4>1. phase'[p] \in {"scanning", "writing", "dead"}
          BY <2>5, <3>1, PhaseStep DEF BreaksOff
      <4> QED BY <1>d, <2>3, <2>5, <4>1 DEF Excused, BreaksOff
    <3>2. CASE phase'[p] = "done"
      <4>1. ~Lists(p, g)' BY <1>d, <3>2
      <4>2. pattern'[p] = NumPatterns BY <3>2 DEF ListedInOrder
      <4>3. ~(first'[g] <= asOf'[p][Pattern[g]]) /\ first'[f] <= asOf'[p][Pattern[f]]
          BY <2>3, <4>1, <4>2, <1>n, ListsOfNumbers DEF Lists
      <4>4. Pattern[g] < Pattern[f] \/ Pattern[f] = Pattern[g]
            \/ asOf'[p][Pattern[f]] <= asOf'[p][Pattern[g]]
          BY <1>n, <4>2, ListsOfNumbers DEF ListedInOrder
      <4>5. Pattern[f] <= Pattern[g] BY <1>n, <2>5 DEF BreaksOff
      <4>6. /\ first'[f] \in Nat /\ first'[g] \in Nat
            /\ asOf'[p][Pattern[f]] \in Nat /\ asOf'[p][Pattern[g]] \in Nat
          BY <1>f, <1>n DEF TypeOK
      <4> QED BY <4>3, <4>4, <4>5, <4>6, <1>n
    <3> QED BY <3>1, <3>2
  <2> QED BY <2>2, <2>4, <2>5
<1>2. CASE f \notin marked
  <2>1. PICK p \in Passes : Mark(p) /\ f = Current(p)
      BY <1>2 DEF Next, Work, Save, Begin, List, Parse, WriteRow, Mark, Fail, End, Die, Finished, vars, db
  <2>2. f \in todo[p] /\ \A h \in todo[p] : f <= h
      BY <2>1, CurrentIsSmallest DEF Mark, AtAFile
  <2>3. phase[p] = "writing" /\ phase'[p] = "scanning" /\ first' = first
      BY <2>1 DEF Mark, Leave, TypeOK, archive
  <2>4. Pattern[f] = pattern[p] /\ Lists(p, f) /\ Lists(p, f)'
      BY <1>f, <2>2, ListsStay DEF ListedInOrder
  <2>5. f # g BY SettledStays DEF Settled
  <2>6. ~List(p) BY <2>3 DEF List
  <2>7. CASE f < g BY <1>d, <2>3, <2>4, <2>7 DEF Excused, BreaksOff
  <2>8. CASE g < f
    <3>1. Pattern[g] <= Pattern[f] BY <1>f, <2>8, PatternAssumption
    <3>2. ~Lists(p, g)
      <4>1. g \notin todo[p] BY <1>n, <2>2, <2>8
      <4> QED BY <1>n, <2>3, <4>1 DEF ListedIsLeft
    <3>3. ~Lists(p, g)' BY <2>6, <3>2, ListsStay
    <3>4. Pattern[g] # Pattern[f]
        BY <1>f, <1>n, <2>3, <2>4, <3>2, ListsOfNumbers DEF Lists
    <3> QED BY <1>d, <1>n, <2>4, <3>1, <3>3, <3>4 DEF Excused, Overtakes
  <2> QED BY <1>n, <2>5, <2>7, <2>8
<1> QED BY <1>1, <1>2

-----------------------------------------------------------------------------
(* Every step keeps the invariant. *)
LEMMA IInvStep == IInv /\ [Next]_vars => IInv'
    BY TypeStep, FileStep, StoredStep, ListedStep, LeftStep, GapStep DEF IInv

(* The archive, the database and every pass stay well-formed: a pass       *)
(* always has files and rows in hand that exist (import_job.py:146-169).   *)
THEOREM TypeCorrect == Spec => []TypeOK
<1>1. IInv => TypeOK
    BY DEF IInv
<1> QED BY <1>1, InitIInv, IInvStep, PTL DEF Spec

(* However many passes overlap, break off or are killed: imported_files.txt *)
(* never names a file, whole from the start, of which a record is missing  *)
(* (import_job.py:59-88, 164-169, sqlite_writer.py).                       *)
THEOREM MarkedFilesAreStored == Spec => []MarkedIsStored
<1>1. IInv => MarkedIsStored
    BY DEF IInv
<1> QED BY <1>1, InitIInv, IInvStep, PTL DEF Spec

(* However many passes overlap, break off or are killed, and whenever      *)
(* files arrive: a file older than a marked one is marked, or logged as    *)
(* failed, or came after a pass had listed its pattern, or is one that a   *)
(* pass has yet to come to or was killed before; and no pass that listed   *)
(* it has ended without the first or the second (import_job.py:154-169).   *)
THEOREM GapsAreLogged == Spec => []NoSilentGaps
<1>1. IInv => NoSilentGaps
    BY DEF IInv
<1> QED BY <1>1, InitIInv, IInvStep, PTL DEF Spec

-----------------------------------------------------------------------------
(* The symbol universe.                                                    *)
IsRow(row) == DOMAIN row = {"kind", "enabled", "off"}

(* While a row is off, a copy of it that is not stale is not decidable:    *)
(* a copy was made of the row as it is, or has become stale since.         *)
CopiesAreOff ==
    /\ DOMAIN rows = Symbols /\ \A s \in Symbols : IsRow(rows[s])
    /\ DOMAIN work = Listed!Actors
    /\ \A a \in Listed!Actors : DOMAIN work[a] = Symbols /\ \A s \in Symbols : IsRow(work[a][s])
    /\ stale \in [Listed!Actors -> SUBSET Symbols]
    /\ of \in [Users -> Symbols]
    /\ \A a \in Listed!Actors : \A s \in Symbols : rows[s].off /\ s \notin stale[a] => ~Listed!Decidable(work[a][s])

(* What the actors write.                                                  *)
LEMMA WrittenRows ==
    /\ ~Listed!Decidable(Listed!Absent) /\ ~Listed!Decidable(Listed!Excluded) /\ Listed!Absent.off = FALSE
    /\ IsRow(Listed!Absent) /\ IsRow(Listed!Excluded)
    /\ \A row : IsRow(Listed!Synced(row)) /\ (row.off /\ row # Listed!Absent => ~Listed!Decidable(Listed!Synced(row)))
    /\ \A row : IsRow(row) => /\ IsRow([row EXCEPT !.enabled = FALSE])
                              /\ ~Listed!Decidable([row EXCEPT !.enabled = FALSE])
<1>1. ~Listed!Decidable(Listed!Absent) /\ Listed!Absent.off = FALSE /\ IsRow(Listed!Absent)
  BY DEF Listed!Decidable, Listed!Absent, IsRow
<1>2. ~Listed!Decidable(Listed!Excluded) /\ IsRow(Listed!Excluded)
  BY DEF Listed!Decidable, Listed!Excluded, IsRow
<1>3. ASSUME NEW row, row.off, row # Listed!Absent PROVE ~Listed!Decidable(Listed!Synced(row))
  <2>1. Listed!Synced(row).off
    BY <1>3 DEF Listed!Synced
  <2> QED  BY <2>1 DEF Listed!Decidable
<1>4. ASSUME NEW row PROVE IsRow(Listed!Synced(row))
  BY DEF Listed!Synced, IsRow
<1>5. ASSUME NEW row, IsRow(row) PROVE IsRow([row EXCEPT !.enabled = FALSE]) /\ ~Listed!Decidable([row EXCEPT !.enabled = FALSE])
  <2>1. [row EXCEPT !.enabled = FALSE].enabled = FALSE /\ IsRow([row EXCEPT !.enabled = FALSE])
    BY <1>5 DEF IsRow
  <2> QED  BY <2>1 DEF Listed!Decidable
<1> QED  BY <1>1, <1>2, <1>3, <1>4, <1>5

LEMMA CopyKeepsOff ==
    ASSUME CopiesAreOff, NEW a \in Listed!Actors, NEW s \in Symbols, NEW row, IsRow(row),
           rows[s].off => ~Listed!Decidable(row),
           Listed!Copy(a, s, row), UNCHANGED <<rows, of>>
    PROVE  CopiesAreOff'
<1>1. work' = [work EXCEPT ![a][s] = row] /\ stale' = [stale EXCEPT ![a] = @ \ {s}]
  BY DEF Listed!Copy
<1>2. /\ DOMAIN work' = Listed!Actors
      /\ \A b \in Listed!Actors : DOMAIN work'[b] = Symbols
      /\ \A b \in Listed!Actors : \A t \in Symbols : work'[b][t] = IF b = a /\ t = s THEN row ELSE work[b][t]
  BY <1>1 DEF CopiesAreOff
<1>3. /\ stale' \in [Listed!Actors -> SUBSET Symbols]
      /\ \A b \in Listed!Actors : \A t \in Symbols : t \notin stale'[b] => t \notin stale[b] \/ (b = a /\ t = s)
  BY <1>1 DEF CopiesAreOff
<1>4. \A b \in Listed!Actors : \A t \in Symbols : rows'[t].off /\ t \notin stale'[b] => ~Listed!Decidable(work'[b][t])
  BY <1>2, <1>3 DEF CopiesAreOff
<1> QED  BY <1>2, <1>3, <1>4 DEF CopiesAreOff, Listed!Actors

LEMMA StoreKeepsOff ==
    ASSUME CopiesAreOff, NEW s \in Symbols, NEW row, IsRow(row), Listed!Store(s, row), UNCHANGED <<work, of>>
    PROVE  CopiesAreOff'
<1>1. rows' = [rows EXCEPT ![s] = row]
  BY DEF Listed!Store
<1>2. DOMAIN rows' = Symbols /\ \A t \in Symbols : rows'[t] = IF t = s THEN row ELSE rows[t]
  BY <1>1 DEF CopiesAreOff
<1>3. /\ stale' \in [Listed!Actors -> SUBSET Symbols]
      /\ \A b \in Listed!Actors : stale[b] \subseteq stale'[b] /\ (row.off => s \in stale'[b])
  BY DEF Listed!Store, CopiesAreOff
<1>4. \A b \in Listed!Actors : \A t \in Symbols : rows'[t].off /\ t \notin stale'[b] => ~Listed!Decidable(work'[b][t])
  BY <1>2, <1>3 DEF CopiesAreOff
<1> QED  BY <1>2, <1>3, <1>4 DEF CopiesAreOff, Listed!Actors

LEMMA EditsKeepOff == CopiesAreOff /\ Listed!Next => CopiesAreOff'
<1> SUFFICES ASSUME CopiesAreOff, Listed!Next PROVE CopiesAreOff'
  OBVIOUS
<1>1. ASSUME UNCHANGED <<rows, work, stale, of>> PROVE CopiesAreOff'
  BY <1>1 DEF CopiesAreOff, Listed!Actors
<1>2. ASSUME NEW u \in Users, Listed!ReadRow(u) PROVE CopiesAreOff'
  <2> DEFINE row == rows[of[u]]
             copy == IF edit[u] = "exclude" THEN Listed!Excluded ELSE [row EXCEPT !.enabled = FALSE]
  <2>1. of[u] \in Symbols /\ u \in Listed!Actors /\ IsRow(row)
    BY DEF CopiesAreOff, Listed!Actors
  <2>2. Listed!Copy(u, of[u], copy) /\ UNCHANGED <<rows, of>>
    BY <1>2 DEF Listed!ReadRow
  <2>3. IsRow(copy) /\ ~Listed!Decidable(copy)
    BY <2>1, WrittenRows
  <2> HIDE DEF copy, row
  <2> QED  BY <2>1, <2>2, <2>3, CopyKeepsOff
<1>3. ASSUME NEW u \in Users, NEW row \in Listed!Row, Listed!Upsert(u, row) PROVE CopiesAreOff'
  <2>1. of[u] \in Symbols /\ IsRow(row)
    BY DEF CopiesAreOff, IsRow, Listed!Row
  <2> QED  BY <1>3, <2>1, StoreKeepsOff DEF Listed!Upsert
<1>4. ASSUME NEW u \in Users, Listed!WriteRow(u) PROVE CopiesAreOff'
  <2>1. of[u] \in Symbols /\ IsRow(work[u][of[u]])
    BY DEF CopiesAreOff, Listed!Actors
  <2> QED  BY <1>4, <2>1, StoreKeepsOff DEF Listed!WriteRow
<1>5. ASSUME NEW y \in Syncs, NEW s \in Symbols, Listed!ReadHolding(y, s) PROVE CopiesAreOff'
  <2>1. rows[s].off => ~Listed!Decidable(Listed!Synced(rows[s]))
    BY WrittenRows
  <2> QED  BY <1>5, <2>1, WrittenRows, CopyKeepsOff DEF Listed!ReadHolding, Listed!Actors
<1>6. ASSUME NEW y \in Syncs, NEW s \in Symbols, Listed!WriteHolding(y, s) PROVE CopiesAreOff'
  <2>1. IsRow(work[y][s])
    BY DEF CopiesAreOff, Listed!Actors
  <2> QED  BY <1>6, <2>1, StoreKeepsOff DEF Listed!WriteHolding
<1>7. ASSUME NEW s \in Symbols, Listed!Trade(s) PROVE CopiesAreOff'
  BY <1>1, <1>7 DEF Listed!Trade
<1>8. ASSUME NEW u \in Users, NEW e, Listed!Arrive(u, e) PROVE CopiesAreOff'
  BY <1>1, <1>8 DEF Listed!Arrive
<1>9. ASSUME NEW y \in Syncs, Listed!ListPositions(y) \/ Listed!StartWriting(y) PROVE CopiesAreOff'
  BY <1>1, <1>9 DEF Listed!ListPositions, Listed!StartWriting
<1> QED  BY <1>2, <1>3, <1>4, <1>5, <1>6, <1>7, <1>8, <1>9 DEF Listed!Next

LEMMA ActorsStay == DOMAIN pc = Listed!Actors /\ Listed!Next => DOMAIN pc' = Listed!Actors
BY DEF Listed!Next, Listed!Goto, Listed!Trade, Listed!Arrive, Listed!ReadRow, Listed!Upsert, Listed!WriteRow,
       Listed!ListPositions, Listed!ReadHolding, Listed!StartWriting, Listed!WriteHolding

LEMMA EditsKeepExclusions ==
    CopiesAreOff /\ DOMAIN pc = Listed!Actors /\ Listed!Next => Listed!KeepsExclusions
<1> SUFFICES ASSUME CopiesAreOff, DOMAIN pc = Listed!Actors, Listed!Next, NEW s \in Symbols, rows[s].off, Listed!Decidable(rows'[s])
             PROVE  \/ \E u \in Users : pc[u] = "writing" /\ of[u] = s /\ edit[u] = "upsert" /\ pc'[u] = "done"
                    \/ \E a \in Listed!Actors : s \in stale[a] /\ rows'[s] = work[a][s]
  BY DEF Listed!KeepsExclusions
<1>1. rows' # rows
  BY DEF Listed!Decidable
<1>2. ASSUME NEW t \in Symbols, NEW row, Listed!Store(t, row) PROVE t = s /\ rows'[s] = row
  BY <1>2, Zenon DEF Listed!Store, CopiesAreOff, Listed!Decidable
<1>3. ASSUME NEW u \in Users, NEW row \in Listed!Row, Listed!Upsert(u, row)
      PROVE  pc[u] = "writing" /\ of[u] = s /\ edit[u] = "upsert" /\ pc'[u] = "done"
  BY <1>2, <1>3 DEF Listed!Upsert, Listed!Goto, CopiesAreOff, Listed!Actors
<1>4. ASSUME NEW u \in Users, Listed!WriteRow(u)
      PROVE  \E a \in Listed!Actors : s \in stale[a] /\ rows'[s] = work[a][s]
  <2>1. of[u] \in Symbols /\ u \in Listed!Actors
    BY DEF CopiesAreOff, Listed!Actors
  <2>2. of[u] = s /\ rows'[s] = work[u][s]
    BY <1>2, <1>4, <2>1 DEF Listed!WriteRow
  <2> QED  BY <2>1, <2>2 DEF CopiesAreOff
<1>5. ASSUME NEW y \in Syncs, NEW t \in Symbols, Listed!WriteHolding(y, t)
      PROVE  \E a \in Listed!Actors : s \in stale[a] /\ rows'[s] = work[a][s]
  <2>1. t = s /\ rows'[s] = work[y][s] /\ y \in Listed!Actors
    BY <1>2, <1>5 DEF Listed!WriteHolding, Listed!Actors
  <2> QED  BY <2>1 DEF CopiesAreOff
<1> QED  BY <1>1, <1>3, <1>4, <1>5
         DEF Listed!Next, Listed!Trade, Listed!Arrive, Listed!ReadRow, Listed!ListPositions, Listed!ReadHolding, Listed!StartWriting

(* Universe: an exclusion outlives every synchronisation, whatever edits   *)
(* and imports come between its reads and its writes                       *)
(* (universe/service.py:70-131, sync_holdings.py:7-35).                    *)
THEOREM ExclusionIsAlwaysKept == MCSpec => ExclusionIsKept
<1> DEFINE Inv == part = "universe" => CopiesAreOff /\ DOMAIN pc = Listed!Actors
<1>1. MCInit => Inv
  <2> SUFFICES ASSUME MCInit, part = "universe" PROVE CopiesAreOff /\ DOMAIN pc = Listed!Actors
    OBVIOUS
  <2>1. Listed!Init
    BY DEF MCInit
  <2>2. DOMAIN rows = Symbols /\ \A s \in Symbols : IsRow(rows[s]) /\ rows[s].off = FALSE
    BY <2>1, WrittenRows DEF Listed!Init, IsRow
  <2>3. /\ DOMAIN work = Listed!Actors
        /\ \A a \in Listed!Actors : DOMAIN work[a] = Symbols /\ \A s \in Symbols : work[a][s] = Listed!Absent
        /\ stale \in [Listed!Actors -> SUBSET Symbols] /\ of \in [Users -> Symbols]
    BY <2>1 DEF Listed!Init
  <2>4. DOMAIN pc = Listed!Actors
    BY <2>1 DEF Listed!Init
  <2> QED  BY <2>2, <2>3, <2>4, WrittenRows DEF CopiesAreOff
<1>2. ASSUME Inv, [MCNext]_all PROVE Inv' /\ [part = "universe" => Listed!KeepsExclusions]_all
  <2>1. CASE UniverseStep
    BY <1>2, <2>1, EditsKeepOff, ActorsStay, EditsKeepExclusions DEF UniverseStep
  <2>2. CASE UNCHANGED <<part, universe>>
    <3>1. Inv'
      BY <1>2, <2>2 DEF universe, CopiesAreOff, Listed!Actors
    <3>2. part = "universe" => Listed!KeepsExclusions
      BY <2>2 DEF universe, Listed!KeepsExclusions, Listed!Decidable
    <3> QED  BY <3>1, <3>2
  <2>3. CASE WatchStep
    BY <2>3 DEF WatchStep
  <2> QED  BY <1>2, <2>1, <2>2, <2>3 DEF MCNext, ImportStep, LedgerStep, FifoStep, all, universe
<1> QED  BY <1>1, <1>2, PTL DEF MCSpec, ExclusionIsKept

-----------------------------------------------------------------------------
(* The watchtower: an item that requires a decision has the hint of its    *)
(* kind.                                                                   *)
Statuses == {"watch", "attention_required", "decision_required"}

ReasonFits(r, hint) ==
    /\ r.status \in Statuses /\ r.hint \in {"none", hint}
    /\ r.status = "decision_required" => r.hint = hint

Offered(it) ==
    it.status = "decision_required" =>
        \/ it.kind # "holding" /\ it.role \in Watch!BlockedRoles
        \/ Watch!MayDecide(it, [kind |-> "holding", enabled |-> TRUE, off |-> FALSE])

LEMMA GradesFit ==
    ASSUME NEW hint
    PROVE  /\ \A r \in Watch!Require(hint) : ReasonFits(r, hint)
           /\ \A r \in Watch!Attend \union Watch!Observe : ReasonFits(r, hint)
<1>1. \A r \in Watch!Require(hint) : ReasonFits(r, hint)
  BY DEF Watch!Require, ReasonFits, Statuses
<1>2. \A r \in Watch!Attend : ReasonFits(r, hint)
  BY DEF Watch!Attend, Watch!NoHint, ReasonFits, Statuses
<1>3. \A r \in Watch!Observe : ReasonFits(r, hint)
  BY DEF Watch!Observe, Watch!NoHint, ReasonFits, Statuses
<1> QED  BY <1>1, <1>2, <1>3

LEMMA ReasonsFit ==
    ASSUME NEW kind, NEW role, NEW m
    PROVE  \A r \in Watch!Reasons(kind, role, m) : ReasonFits(r, IF kind = "holding" THEN Watch!Held ELSE Watch!Entry)
<1> DEFINE holding == kind = "holding"
           hint == IF holding THEN Watch!Held ELSE Watch!Entry
           All(S) == \A r \in S : ReasonFits(r, hint)
<1>1. /\ holding => All(Watch!Require(Watch!Held))
      /\ ~holding => All(Watch!Require(Watch!Entry))
      /\ All(Watch!Attend) /\ All(Watch!Observe) /\ All({})
  BY GradesFit
<1> HIDE DEF hint, All, holding
<1>2. All(Watch!ConsecutiveDownDays(holding, m))
  BY <1>1 DEF Watch!ConsecutiveDownDays
<1>3. All(Watch!ConsecutiveUpDays(holding, m))
  BY <1>1 DEF Watch!ConsecutiveUpDays
<1>4. All(Watch!DrawdownFromHigh(holding, m))
  BY <1>1 DEF Watch!DrawdownFromHigh
<1>5. All(Watch!AbnormalReturn(holding, m))
  <2>1. \A S, T : All(S) /\ All(T) => All(S \union T)
    BY DEF All
  <2>2. All(IF Watch!Le(m.r20, -20) THEN Watch!Require(IF holding THEN Watch!Held ELSE Watch!Entry)
            ELSE IF Watch!Ge(m.r20, 30) THEN IF holding /\ Watch!Ge(m.pnl, 100) THEN Watch!Require(Watch!Held) ELSE Watch!Attend
            ELSE {})
    BY <1>1
  <2>3. All(IF Watch!Le(m.r1, -6) \/ Watch!Ge(m.r1, 8) \/ Watch!Le(m.r5, -10) \/ Watch!Ge(m.r5, 15)
            THEN Watch!Attend ELSE {})
    BY <1>1
  <2> QED  BY <2>1, <2>2, <2>3 DEF Watch!AbnormalReturn
<1>6. holding => All(Watch!OfThePosition(m))
  BY <1>1 DEF Watch!OfThePosition
<1>7. ~holding => All(Watch!Pullback(role, m))
  BY <1>1 DEF Watch!Pullback
<1>8. All(Watch!Misaligned(role))
  <2>1. CASE role = "fake_ai_story"
    BY <1>1, <2>1 DEF Watch!Misaligned
  <2>2. CASE role = "non_ai"
    BY <1>1, <2>2 DEF Watch!Misaligned
  <2>3. CASE role \notin {"fake_ai_story", "non_ai"}
    BY <1>1, <2>3 DEF Watch!Misaligned
  <2> QED  BY <2>1, <2>2, <2>3
<1>9. All(Watch!Reasons(kind, role, m))
  BY <1>2, <1>3, <1>4, <1>5, <1>6, <1>7, <1>8 DEF All, Watch!Reasons, holding
<1> QED  BY <1>9 DEF All, hint, holding

LEMMA GravestIsOne ==
    ASSUME NEW reasons, NEW hint, \A r \in reasons : ReasonFits(r, hint), reasons # {}
    PROVE  (CHOOSE r \in reasons : \A q \in reasons : Watch!Rank[q.status] <= Watch!Rank[r.status]) \in reasons
<1>1. Watch!Rank["watch"] = 1 /\ Watch!Rank["attention_required"] = 2 /\ Watch!Rank["decision_required"] = 3
  BY DEF Watch!Rank
<1> DEFINE Top(r) == \A q \in reasons : Watch!Rank[q.status] <= Watch!Rank[r.status]
<1>2. \A r \in reasons : r.status \in Statuses
  BY DEF ReasonFits
<1>3. CASE \E r \in reasons : r.status = "decision_required"
  <2>1. PICK r \in reasons : r.status = "decision_required"
    BY <1>3
  <2>2. Top(r)
    BY <1>1, <1>2, <2>1 DEF Statuses
  <2> QED  BY <2>1, <2>2
<1>4. CASE \A r \in reasons : r.status # "decision_required"
  <2>1. CASE \E r \in reasons : r.status = "attention_required"
    <3>1. PICK r \in reasons : r.status = "attention_required"
      BY <2>1
    <3>2. Top(r)
      BY <1>1, <1>2, <1>4, <3>1 DEF Statuses
    <3> QED  BY <3>1, <3>2
  <2>2. CASE \A r \in reasons : r.status # "attention_required"
    <3>1. PICK r \in reasons : TRUE
      OBVIOUS
    <3>2. Top(r)
      BY <1>1, <1>2, <1>4, <2>2, <3>1 DEF Statuses
    <3> QED  BY <3>1, <3>2
  <2> QED  BY <2>1, <2>2
<1> QED  BY <1>3, <1>4

LEMMA ItemsAreOffered ==
    ASSUME NEW kind \in {"holding", "watchlist", "candidate"}, NEW role, NEW m
    PROVE  Offered(Watch!Item(kind, role, m))
<1> DEFINE reasons == Watch!Reasons(kind, role, m)
           hint == IF kind = "holding" THEN Watch!Held ELSE Watch!Entry
           hints == {r.hint : r \in reasons} \ {Watch!NoHint}
           gravest == IF reasons = {} THEN "normal"
                      ELSE (CHOOSE r \in reasons : \A q \in reasons : Watch!Rank[q.status] <= Watch!Rank[r.status]).status
           it == Watch!Item(kind, role, m)
<1>1. /\ it.kind = kind /\ it.role = role /\ it.status = gravest
      /\ it.hint = IF hints # {} THEN CHOOSE h \in hints : TRUE ELSE Watch!NoHint
  BY DEF Watch!Item
<1>2. \A r \in reasons : ReasonFits(r, hint)
  BY ReasonsFit
<1> HIDE DEF reasons, it
<1> SUFFICES ASSUME it.status = "decision_required", kind = "holding" \/ role \notin Watch!BlockedRoles
             PROVE  Watch!MayDecide(it, [kind |-> "holding", enabled |-> TRUE, off |-> FALSE])
  BY <1>1 DEF Offered, it
<1>3. reasons # {} /\ \E r \in reasons : r.status = "decision_required"
  <2>1. reasons # {}
    BY <1>1
  <2>2. (CHOOSE r \in reasons : \A q \in reasons : Watch!Rank[q.status] <= Watch!Rank[r.status]) \in reasons
    BY <1>2, <2>1, GravestIsOne
  <2> QED  BY <1>1, <2>1, <2>2
<1>4. hints = {hint}
  <2>1. hint # Watch!NoHint
    BY DEF Watch!Held, Watch!Entry, Watch!NoHint
  <2>2. hint \in hints
    BY <1>2, <1>3, <2>1 DEF ReasonFits
  <2>3. \A h \in hints : h = hint
    BY <1>2 DEF ReasonFits, Watch!NoHint
  <2> QED  BY <2>2, <2>3
<1>5. it.hint = hint
  BY <1>1, <1>4
<1>6. Watch!RowAllows([kind |-> "holding", enabled |-> TRUE, off |-> FALSE])
  BY DEF Watch!RowAllows, Watch!Decidable
<1> QED  BY <1>1, <1>5, <1>6 DEF Watch!MayDecide, Watch!Held, Watch!Entry, Watch!NoHint

(* The rows below the watchtower: a row that is stored stays.              *)
IsStored(row) ==
    /\ IsRow(row) /\ row.enabled \in BOOLEAN
    /\ row.kind \in {"holding", "watchlist", "candidate", "excluded"}

RowsStayStored ==
    /\ DOMAIN rows = WatchedSymbols /\ \A s \in WatchedSymbols : rows[s] = Watch!Absent \/ IsStored(rows[s])
    /\ DOMAIN pc = Watch!Actors /\ DOMAIN pending = Syncs /\ DOMAIN edit = WatchUsers
    /\ of \in [WatchUsers -> WatchedSymbols]
    /\ DOMAIN work = Watch!Actors /\ \A a \in Watch!Actors : DOMAIN work[a] = WatchedSymbols
    /\ \A u \in WatchUsers : pc[u] = "reading" => edit[u] \in {"exclude", "disable"}
    /\ \A u \in WatchUsers : pc[u] = "writing" /\ edit[u] # "upsert" => IsStored(work[u][of[u]])
    /\ \A y \in Syncs : \A s \in WatchedSymbols : work[y][s] = Watch!Absent \/ IsStored(work[y][s])
    /\ \A y \in Syncs : pc[y] = "writing" => \A s \in WatchedSymbols \intersect pending[y] : work[y][s] # Watch!Absent

LEMMA StoredWords ==
    /\ ~IsStored(Watch!Absent) /\ IsStored(Watch!Excluded)
    /\ \A row : IsStored(Watch!Synced(row))
    /\ \A row : IsStored(row) => IsStored([row EXCEPT !.enabled = FALSE])
    /\ \A row \in Watch!Row : IsStored(row)
<1>1. ~IsStored(Watch!Absent) /\ IsStored(Watch!Excluded)
  BY DEF IsStored, IsRow, Watch!Absent, Watch!Excluded
<1>2. \A row : IsStored(Watch!Synced(row))
  BY DEF IsStored, IsRow, Watch!Synced
<1>3. \A row : IsStored(row) => IsStored([row EXCEPT !.enabled = FALSE])
  BY DEF IsStored, IsRow
<1>4. \A row \in Watch!Row : IsStored(row)
  BY DEF IsStored, IsRow, Watch!Row
<1> QED  BY <1>1, <1>2, <1>3, <1>4

LEMMA StoringARow ==
    ASSUME RowsStayStored, NEW s \in WatchedSymbols, NEW row, IsStored(row), Watch!Store(s, row)
    PROVE  /\ DOMAIN rows' = WatchedSymbols
           /\ \A t \in WatchedSymbols : rows'[t] = IF t = s THEN row ELSE rows[t]
           /\ \A t \in WatchedSymbols : rows'[t] = Watch!Absent \/ IsStored(rows'[t])
           /\ \A t \in WatchedSymbols : rows[t] # Watch!Absent => rows'[t] # Watch!Absent
<1>1. rows' = [rows EXCEPT ![s] = row]
  BY DEF Watch!Store
<1>2. DOMAIN rows' = WatchedSymbols /\ \A t \in WatchedSymbols : rows'[t] = IF t = s THEN row ELSE rows[t]
  BY <1>1 DEF RowsStayStored
<1> QED  BY <1>2, StoredWords DEF RowsStayStored

LEMMA CopyingARow ==
    ASSUME RowsStayStored, NEW a \in Watch!Actors, NEW s \in WatchedSymbols, NEW row, Watch!Copy(a, s, row)
    PROVE  /\ DOMAIN work' = Watch!Actors /\ \A b \in Watch!Actors : DOMAIN work'[b] = WatchedSymbols
           /\ \A b \in Watch!Actors : \A t \in WatchedSymbols :
                  work'[b][t] = IF b = a /\ t = s THEN row ELSE work[b][t]
BY DEF Watch!Copy, RowsStayStored

LEMMA RowsStay ==
    ASSUME RowsStayStored, Watch!Next
    PROVE  RowsStayStored' /\ \A s \in WatchedSymbols : rows[s] # Watch!Absent => rows'[s] # Watch!Absent
<1> USE DEF Watch!Actors
<1>1. ASSUME NEW s \in WatchedSymbols, Watch!Trade(s) PROVE RowsStayStored' /\ UNCHANGED rows
  BY <1>1 DEF Watch!Trade, RowsStayStored
<1>2. ASSUME NEW u \in WatchUsers, NEW e \in {"upsert", "exclude", "disable"}, Watch!Arrive(u, e)
      PROVE  RowsStayStored' /\ UNCHANGED rows
  <2>1. /\ edit' = [edit EXCEPT ![u] = e]
        /\ pc' = [pc EXCEPT ![u] = IF e = "upsert" THEN "writing" ELSE "reading"]
        /\ UNCHANGED <<rows, of, pending, work>> /\ u \notin Syncs
    BY <1>2, ActorsAssumption DEF Watch!Arrive, Watch!Goto
  <2>2. /\ DOMAIN pc' = Watch!Actors /\ DOMAIN edit' = WatchUsers
        /\ \A a \in Watch!Actors : pc'[a] = IF a # u THEN pc[a] ELSE IF e = "upsert" THEN "writing" ELSE "reading"
        /\ \A v \in WatchUsers : edit'[v] = IF v = u THEN e ELSE edit[v]
    BY <2>1 DEF RowsStayStored
  <2> QED  BY <2>1, <2>2 DEF RowsStayStored
<1>3. ASSUME NEW u \in WatchUsers, Watch!ReadRow(u) PROVE RowsStayStored' /\ UNCHANGED rows
  <2> DEFINE row == rows[of[u]]
             copy == IF edit[u] = "exclude" THEN Watch!Excluded ELSE [row EXCEPT !.enabled = FALSE]
             after == IF edit[u] = "disable" /\ row = Watch!Absent THEN "done" ELSE "writing"
  <2>1. of[u] \in WatchedSymbols /\ u \in Watch!Actors /\ u \notin Syncs
    BY ActorsAssumption DEF RowsStayStored
  <2>2. /\ Watch!Copy(u, of[u], copy) /\ pc[u] = "reading" /\ pc' = [pc EXCEPT ![u] = after]
        /\ UNCHANGED <<rows, edit, of, pending>>
    BY <1>3 DEF Watch!ReadRow, Watch!Goto
  <2>3. after = "writing" => IsStored(copy)
    BY <2>1, <2>2, StoredWords DEF RowsStayStored
  <2>4. after # "reading"
    OBVIOUS
  <2> HIDE DEF copy, after
  <2>5. /\ DOMAIN work' = Watch!Actors /\ \A b \in Watch!Actors : DOMAIN work'[b] = WatchedSymbols
        /\ \A b \in Watch!Actors : \A t \in WatchedSymbols :
               work'[b][t] = IF b = u /\ t = of[u] THEN copy ELSE work[b][t]
    <3>1. PICK s \in WatchedSymbols : s = of[u]
      BY <2>1
    <3>2. Watch!Copy(u, s, copy)
      BY <2>2, <3>1
    <3> QED  BY <2>1, <3>1, <3>2, CopyingARow
  <2>6. /\ DOMAIN pc' = Watch!Actors /\ \A a \in Watch!Actors : pc'[a] = IF a = u THEN after ELSE pc[a]
    BY <2>2 DEF RowsStayStored
  <2>7. \A v \in WatchUsers : pc'[v] = "writing" /\ edit[v] # "upsert" => IsStored(work'[v][of[v]])
    BY <2>1, <2>3, <2>5, <2>6 DEF RowsStayStored
  <2> QED  BY <2>1, <2>2, <2>4, <2>5, <2>6, <2>7 DEF RowsStayStored
<1>4. ASSUME NEW u \in WatchUsers, NEW s \in WatchedSymbols, NEW row, IsStored(row), Watch!Store(s, row),
             pc' = [pc EXCEPT ![u] = "done"], UNCHANGED <<edit, of, pending, work>>
      PROVE  RowsStayStored' /\ \A t \in WatchedSymbols : rows[t] # Watch!Absent => rows'[t] # Watch!Absent
  <2>1. u \notin Syncs
    BY ActorsAssumption
  <2>2. DOMAIN pc' = Watch!Actors /\ \A a \in Watch!Actors : pc'[a] = IF a = u THEN "done" ELSE pc[a]
    BY <1>4 DEF RowsStayStored
  <2>3. /\ DOMAIN rows' = WatchedSymbols
        /\ \A t \in WatchedSymbols : rows'[t] = Watch!Absent \/ IsStored(rows'[t])
        /\ \A t \in WatchedSymbols : rows[t] # Watch!Absent => rows'[t] # Watch!Absent
    BY <1>4, StoringARow
  <2> QED  BY <1>4, <2>1, <2>2, <2>3 DEF RowsStayStored
<1>5. ASSUME NEW u \in WatchUsers, NEW row \in Watch!Row, Watch!Upsert(u, row)
      PROVE  RowsStayStored' /\ \A t \in WatchedSymbols : rows[t] # Watch!Absent => rows'[t] # Watch!Absent
  <2>1. of[u] \in WatchedSymbols /\ IsStored(row)
    BY StoredWords DEF RowsStayStored
  <2> QED  BY <1>4, <1>5, <2>1 DEF Watch!Upsert, Watch!Goto
<1>6. ASSUME NEW u \in WatchUsers, Watch!WriteRow(u)
      PROVE  RowsStayStored' /\ \A t \in WatchedSymbols : rows[t] # Watch!Absent => rows'[t] # Watch!Absent
  <2>1. of[u] \in WatchedSymbols /\ IsStored(work[u][of[u]])
    BY <1>6 DEF RowsStayStored, Watch!WriteRow
  <2> QED  BY <1>4, <1>6, <2>1 DEF Watch!WriteRow, Watch!Goto
<1>7. ASSUME NEW y \in Syncs, Watch!ListPositions(y) PROVE RowsStayStored' /\ UNCHANGED rows
  <2>1. y \notin WatchUsers /\ pc' = [pc EXCEPT ![y] = "reading"] /\ pending' = [pending EXCEPT ![y] = held]
    BY <1>7, ActorsAssumption DEF Watch!ListPositions, Watch!Goto
  <2>2. DOMAIN pc' = Watch!Actors /\ \A a \in Watch!Actors : pc'[a] = IF a = y THEN "reading" ELSE pc[a]
    BY <2>1 DEF RowsStayStored
  <2>3. DOMAIN pending' = Syncs /\ \A z \in Syncs : z # y => pending'[z] = pending[z]
    BY <2>1 DEF RowsStayStored
  <2> QED  BY <1>7, <2>1, <2>2, <2>3 DEF RowsStayStored, Watch!ListPositions
<1>8. ASSUME NEW y \in Syncs, NEW s \in WatchedSymbols, Watch!ReadHolding(y, s) PROVE RowsStayStored' /\ UNCHANGED rows
  <2>1. /\ Watch!Copy(y, s, Watch!Synced(rows[s])) /\ pc[y] = "reading" /\ y \notin WatchUsers
        /\ pending' = [pending EXCEPT ![y] = @ \ {s}] /\ UNCHANGED <<rows, pc, edit, of>>
    BY <1>8, ActorsAssumption DEF Watch!ReadHolding
  <2>2. /\ DOMAIN work' = Watch!Actors /\ \A b \in Watch!Actors : DOMAIN work'[b] = WatchedSymbols
        /\ \A b \in Watch!Actors : \A t \in WatchedSymbols :
               work'[b][t] = IF b = y /\ t = s THEN Watch!Synced(rows[s]) ELSE work[b][t]
    <3>1. PICK made : made = Watch!Synced(rows[s])
      OBVIOUS
    <3>2. work' = [work EXCEPT ![y][s] = made]
      BY <2>1, <3>1 DEF Watch!Copy
    <3> QED  BY <3>1, <3>2 DEF RowsStayStored
  <2>3. DOMAIN pending' = Syncs /\ \A z \in Syncs : pending'[z] \subseteq pending[z]
    BY <2>1 DEF RowsStayStored
  <2> QED  BY <2>1, <2>2, <2>3, StoredWords DEF RowsStayStored
<1>9. ASSUME NEW y \in Syncs, Watch!StartWriting(y) PROVE RowsStayStored' /\ UNCHANGED rows
  <2> DEFINE made == {s \in WatchedSymbols : work[y][s] # Watch!Absent}
  <2>1. y \notin WatchUsers /\ pc' = [pc EXCEPT ![y] = "writing"] /\ pending' = [pending EXCEPT ![y] = made]
    BY <1>9, ActorsAssumption DEF Watch!StartWriting, Watch!Goto
  <2>2. DOMAIN pc' = Watch!Actors /\ \A a \in Watch!Actors : pc'[a] = IF a = y THEN "writing" ELSE pc[a]
    BY <2>1 DEF RowsStayStored
  <2>3. DOMAIN pending' = Syncs /\ \A z \in Syncs : pending'[z] = IF z = y THEN made ELSE pending[z]
    BY <2>1 DEF RowsStayStored
  <2> QED  BY <1>9, <2>1, <2>2, <2>3 DEF RowsStayStored, Watch!StartWriting
<1>10. ASSUME NEW y \in Syncs, NEW s \in WatchedSymbols, Watch!WriteHolding(y, s)
      PROVE  RowsStayStored' /\ \A t \in WatchedSymbols : rows[t] # Watch!Absent => rows'[t] # Watch!Absent
  <2>1. /\ Watch!Store(s, work[y][s]) /\ pc[y] = "writing" /\ s \in pending[y]
        /\ pending' = [pending EXCEPT ![y] = @ \ {s}] /\ UNCHANGED <<pc, edit, of, work>>
    BY <1>10 DEF Watch!WriteHolding
  <2>2. IsStored(work[y][s])
    BY <2>1 DEF RowsStayStored
  <2>3. /\ DOMAIN rows' = WatchedSymbols
        /\ \A t \in WatchedSymbols : rows'[t] = Watch!Absent \/ IsStored(rows'[t])
        /\ \A t \in WatchedSymbols : rows[t] # Watch!Absent => rows'[t] # Watch!Absent
    BY <2>1, <2>2, StoringARow
  <2>4. DOMAIN pending' = Syncs /\ \A z \in Syncs : pending'[z] \subseteq pending[z]
    BY <2>1 DEF RowsStayStored
  <2> QED  BY <2>1, <2>3, <2>4 DEF RowsStayStored
<1> QED  BY <1>1, <1>2, <1>3, <1>5, <1>6, <1>7, <1>8, <1>9, <1>10 DEF Watch!Next

(* The readers: what they have listed, and what they miss.                 *)
KindsBefore(r, n) == {Watch!KindsOf(r)[i] : i \in 1 .. n}
Missed(r) == lapsed[r] \union back[r]

ReadersTyped ==
    /\ DOMAIN where = Watch!Readers /\ DOMAIN lapsed = Watch!Readers /\ DOMAIN back = Watch!Readers
    /\ listed \in [Watch!Readers -> Nat] /\ listed["scan"] <= 3 /\ listed["select"] <= 4
    /\ where["scan"] \in {"idle", "listing", "graded", "writing"}
    /\ where["select"] \in {"idle", "listing", "done"}
    /\ \A r \in Watch!Readers : where[r] = "idle" => listed[r] = 0

ScanFinds ==
    /\ DOMAIN items = WatchedSymbols
    /\ \A s \in WatchedSymbols :
          /\ scanned[s] # Watch!Absent => scanned[s].kind \in KindsBefore("scan", 3) /\ rows[s] # Watch!Absent
          /\ \A i \in {graded[s], items[s], read[s]} : Offered(i) /\ (i # Watch!NoItem => rows[s] # Watch!Absent)
    /\ where["scan"] = "listing" =>
          \A s \in WatchedSymbols :
             /\ s \notin lapsed["scan"] => Watch!Watched(rows[s])
             /\ s \notin Missed("scan") /\ scanned[s] = Watch!Absent => ~Watch!Before("scan", rows[s].kind)
    /\ where["scan"] \in {"graded", "writing"} =>
          \A s \in WatchedSymbols \ Missed("scan") : graded[s] # Watch!NoItem

SelectRefuses ==
    /\ where["select"] = "idle" => \A s \in WatchedSymbols : known[s] = Watch!Absent
    /\ where["select"] # "done" => chosen = {}
    /\ where["select"] = "listing" =>
          \A s \in WatchedSymbols :
             /\ s \notin lapsed["select"] => ~Watch!Decidable(rows[s]) /\ ~Watch!Decidable(known[s])
             /\ s \notin Missed("select") /\ known[s] = Watch!Absent => ~Watch!Before("select", rows[s].kind)
    /\ chosen \subseteq WatchedSymbols /\ (where["select"] = "done" => chosen \subseteq Missed("select"))

WatchInv == RowsStayStored /\ ReadersTyped /\ ScanFinds /\ SelectRefuses

LEMMA ReaderWords ==
    /\ Watch!Readers = {"scan", "select"}
    /\ Len(Watch!KindsOf("scan")) = 3 /\ Len(Watch!KindsOf("select")) = 4
    /\ KindsBefore("scan", 3) = {"holding", "watchlist", "candidate"}
    /\ KindsBefore("select", 4) = {"holding", "watchlist", "candidate", "excluded"}
    /\ \A r : KindsBefore(r, 0) = {}
    /\ \A r : \A n \in Nat : KindsBefore(r, n + 1) = KindsBefore(r, n) \union {Watch!KindsOf(r)[n + 1]}
    /\ \A r, kind : Watch!Before(r, kind) <=> kind \in KindsBefore(r, listed[r])
<1>1. Len(Watch!KindsOf("scan")) = 3 /\ Len(Watch!KindsOf("select")) = 4
  BY DEF Watch!KindsOf, Watch!ScanKinds, Watch!AllKinds
<1>2. KindsBefore("scan", 3) = {"holding", "watchlist", "candidate"}
  <2>1. 1 .. 3 = {1, 2, 3}
    OBVIOUS
  <2>2. KindsBefore("scan", 3) = {Watch!ScanKinds[1], Watch!ScanKinds[2], Watch!ScanKinds[3]}
    BY <2>1 DEF KindsBefore, Watch!KindsOf
  <2> QED  BY <2>2 DEF Watch!ScanKinds
<1>3. KindsBefore("select", 4) = {"holding", "watchlist", "candidate", "excluded"}
  <2>1. 1 .. 4 = {1, 2, 3, 4}
    OBVIOUS
  <2>2. Watch!KindsOf("select") = Watch!AllKinds
    BY DEF Watch!KindsOf
  <2>3. KindsBefore("select", 4) = {Watch!AllKinds[1], Watch!AllKinds[2], Watch!AllKinds[3], Watch!AllKinds[4]}
    BY <2>1, <2>2 DEF KindsBefore
  <2> QED  BY <2>3 DEF Watch!AllKinds
<1>4. \A r : KindsBefore(r, 0) = {}
  BY DEF KindsBefore
<1>5. ASSUME NEW r, NEW n \in Nat
      PROVE  KindsBefore(r, n + 1) = KindsBefore(r, n) \union {Watch!KindsOf(r)[n + 1]}
  <2>1. 1 .. (n + 1) = (1 .. n) \union {n + 1}
    OBVIOUS
  <2> QED  BY <2>1 DEF KindsBefore
<1>6. \A r, kind : Watch!Before(r, kind) <=> kind \in KindsBefore(r, listed[r])
  BY DEF Watch!Before, KindsBefore
<1> QED  BY <1>1, <1>2, <1>3, <1>4, <1>5, <1>6 DEF Watch!Readers

LEMMA NoItemWords == Offered(Watch!NoItem) /\ Watch!NoItem.status # "decision_required"
BY DEF Offered, Watch!NoItem

(* The universe moves below the readers.                                   *)
LEMMA UniverseKeepsWatch == WatchInv /\ Watch!UniverseStep => WatchInv'
<1> SUFFICES ASSUME WatchInv, Watch!UniverseStep PROVE WatchInv'
  OBVIOUS
<1>1. RowsStayStored' /\ \A s \in WatchedSymbols : rows[s] # Watch!Absent => rows'[s] # Watch!Absent
  BY RowsStay DEF WatchInv, Watch!UniverseStep
<1>2. UNCHANGED <<where, listed, scanned, graded, run, items, read, known, chosen>>
  BY DEF Watch!UniverseStep
<1>3. /\ DOMAIN lapsed' = Watch!Readers /\ DOMAIN back' = Watch!Readers
      /\ \A r \in Watch!Readers :
            /\ where[r] # "listing" => lapsed'[r] = lapsed[r] /\ back'[r] = back[r]
            /\ where[r] = "listing" =>
                  /\ lapsed[r] \subseteq lapsed'[r] /\ back[r] \subseteq back'[r]
                  /\ \A s \in WatchedSymbols :
                        /\ Watch!Lapse(r, rows'[s]) => s \in lapsed'[r]
                        /\ rows'[s] # rows[s] /\ ~Watch!Before(r, rows[s].kind) /\ Watch!Before(r, rows'[s].kind)
                              => s \in back'[r]
  BY DEF Watch!UniverseStep, Watch!Readers
<1>4. ReadersTyped'
  BY <1>2, <1>3 DEF WatchInv, ReadersTyped, Watch!Readers
<1>5. \A r, kind : Watch!Before(r, kind)' <=> Watch!Before(r, kind)
  BY <1>2 DEF Watch!Before
<1>6. ScanFinds'
  <2>1. ASSUME where["scan"] = "listing", NEW s \in WatchedSymbols
        PROVE  /\ s \notin lapsed'["scan"] => Watch!Watched(rows'[s])
               /\ s \notin Missed("scan")' /\ scanned[s] = Watch!Absent => ~Watch!Before("scan", rows'[s].kind)
    BY <1>3, <2>1, ReaderWords DEF WatchInv, ScanFinds, Missed, Watch!Lapse
  <2>2. ASSUME where["scan"] \in {"graded", "writing"}, NEW s \in WatchedSymbols, s \notin Missed("scan")'
        PROVE  graded[s] # Watch!NoItem
    BY <1>3, <2>2, ReaderWords DEF WatchInv, ScanFinds, Missed
  <2> QED  BY <1>1, <1>2, <1>5, <2>1, <2>2 DEF WatchInv, ScanFinds
<1>7. SelectRefuses'
  <2>1. ASSUME where["select"] = "listing", NEW s \in WatchedSymbols
        PROVE  /\ s \notin lapsed'["select"] => ~Watch!Decidable(rows'[s]) /\ ~Watch!Decidable(known[s])
               /\ s \notin Missed("select")' /\ known[s] = Watch!Absent => ~Watch!Before("select", rows'[s].kind)
    BY <1>3, <2>1, ReaderWords DEF WatchInv, SelectRefuses, Missed, Watch!Lapse
  <2>2. where["select"] = "done" => chosen \subseteq Missed("select")'
    BY <1>3, ReaderWords DEF WatchInv, SelectRefuses, Missed
  <2> QED  BY <1>2, <1>5, <2>1, <2>2 DEF WatchInv, SelectRefuses
<1> QED  BY <1>1, <1>4, <1>6, <1>7 DEF WatchInv

LEMMA UniverseIsSame == RowsStayStored /\ Watch!SameUniverse => RowsStayStored'
BY DEF RowsStayStored, Watch!SameUniverse, Watch!vars, Watch!Actors

(* A reader begins, and lists one kind.                                    *)
LEMMA Beginning ==
    ASSUME WatchInv, NEW r \in Watch!Readers, where[r] = "idle", Watch!StartListing(r), Watch!SameUniverse,
           UNCHANGED <<listed, back>>
    PROVE  /\ RowsStayStored' /\ ReadersTyped' /\ rows' = rows
           /\ where'[r] = "listing" /\ \A q \in Watch!Readers \ {r} : where'[q] = where[q] /\ lapsed'[q] = lapsed[q]
           /\ \A s \in WatchedSymbols : s \notin lapsed'[r] => ~Watch!Lapse(r, rows[s])
           /\ \A kind : ~Watch!Before(r, kind)'
<1>1. where' = [where EXCEPT ![r] = "listing"] /\ lapsed' = [lapsed EXCEPT ![r] = {s \in WatchedSymbols : Watch!Lapse(r, rows[s])}]
  BY DEF Watch!StartListing, Watch!To
<1>2. ReadersTyped'
  BY <1>1, ReaderWords DEF WatchInv, ReadersTyped, Watch!Readers
<1>3. listed'[r] = 0
  BY DEF WatchInv, ReadersTyped
<1>4. \A kind : ~Watch!Before(r, kind)'
  BY <1>3 DEF Watch!Before
<1> QED  BY <1>1, <1>2, <1>4, UniverseIsSame DEF WatchInv, ReadersTyped, Watch!SameUniverse, Watch!vars

LEMMA Listing ==
    ASSUME WatchInv, NEW r \in Watch!Readers, Watch!ListKind(r), Watch!SameUniverse,
           UNCHANGED <<where, lapsed, back>>
    PROVE  /\ RowsStayStored' /\ ReadersTyped' /\ rows' = rows
           /\ where[r] = "listing" /\ \A q \in Watch!Readers \ {r} : listed'[q] = listed[q]
           /\ \A q \in Watch!Readers \ {r} : \A kind : Watch!Before(q, kind)' <=> Watch!Before(q, kind)
           /\ \A kind : Watch!Before(r, kind)' <=> Watch!Before(r, kind) \/ kind = Watch!NextKind(r)
           /\ r = "scan" => Watch!NextKind("scan") \in KindsBefore("scan", 3)
           /\ r = "select" => Watch!NextKind("select") \in KindsBefore("select", 4)
<1>1. listed[r] \in Nat /\ listed[r] < Len(Watch!KindsOf(r)) /\ listed' = [listed EXCEPT ![r] = @ + 1]
  BY DEF WatchInv, ReadersTyped, Watch!ListKind
<1>2. where[r] = "listing"
  BY DEF Watch!ListKind
<1>a. r \in {"scan", "select"} /\ (r = "scan" => listed[r] < 3) /\ (r = "select" => listed[r] < 4)
  <2>1. CASE r = "scan"
    BY <1>1, <2>1, ReaderWords, Zenon
  <2>2. CASE r = "select"
    BY <1>1, <2>2, ReaderWords, Zenon
  <2> QED  BY <2>1, <2>2, ReaderWords
<1>3. listed' \in [Watch!Readers -> Nat] /\ listed'[r] = listed[r] + 1 /\ \A q \in Watch!Readers \ {r} : listed'[q] = listed[q]
  BY <1>1 DEF WatchInv, ReadersTyped
<1>4. ReadersTyped'
  <2>1. listed'["scan"] <= 3 /\ listed'["select"] <= 4
    BY <1>1, <1>3, <1>a DEF WatchInv, ReadersTyped, Watch!Readers
  <2> QED  BY <1>2, <1>3, <2>1 DEF WatchInv, ReadersTyped
<1>5. \A q, kind : Watch!Before(q, kind)' <=> kind \in KindsBefore(q, listed'[q])
  BY DEF Watch!Before, KindsBefore
<1>6. \A kind : Watch!Before(r, kind)' <=> Watch!Before(r, kind) \/ kind = Watch!NextKind(r)
  BY <1>1, <1>3, <1>5, ReaderWords DEF Watch!NextKind
<1>7. \A q \in Watch!Readers \ {r} : \A kind : Watch!Before(q, kind)' <=> Watch!Before(q, kind)
  BY <1>3, <1>5, ReaderWords
<1>8. ASSUME r = "scan" PROVE Watch!NextKind("scan") \in KindsBefore("scan", 3)
  <2>1. listed["scan"] + 1 \in 1 .. 3
    BY <1>1, <1>8, <1>a
  <2> QED  BY <2>1 DEF KindsBefore, Watch!NextKind
<1>9. ASSUME r = "select" PROVE Watch!NextKind("select") \in KindsBefore("select", 4)
  <2>1. listed["select"] + 1 \in 1 .. 4
    BY <1>1, <1>9, <1>a
  <2> QED  BY <2>1 DEF KindsBefore, Watch!NextKind
<1> QED  BY <1>2, <1>3, <1>4, <1>6, <1>7, <1>8, <1>9, UniverseIsSame DEF WatchInv, Watch!SameUniverse, Watch!vars

LEMMA ScanKeepsWatch == WatchInv /\ Watch!Scan => WatchInv'
<1> SUFFICES ASSUME WatchInv, Watch!Scan PROVE WatchInv'
  OBVIOUS
<1>0. where["scan"] = "idle" /\ UNCHANGED <<listed, scanned, graded, run, items, read, known, chosen, back>>
  BY DEF Watch!Scan
<1>1. /\ RowsStayStored' /\ ReadersTyped' /\ rows' = rows
      /\ where'["scan"] = "listing" /\ where'["select"] = where["select"] /\ lapsed'["select"] = lapsed["select"]
      /\ \A s \in WatchedSymbols : s \notin lapsed'["scan"] => ~Watch!Lapse("scan", rows[s])
      /\ \A kind : ~Watch!Before("scan", kind)'
  BY Beginning, ReaderWords DEF Watch!Scan
<1>2. ScanFinds'
  BY <1>0, <1>1 DEF WatchInv, ScanFinds, Watch!Lapse
<1>3. \A kind : Watch!Before("select", kind)' <=> Watch!Before("select", kind)
  BY <1>0 DEF Watch!Before
<1>4. SelectRefuses'
  BY <1>0, <1>1, <1>3 DEF WatchInv, SelectRefuses, Missed
<1> QED  BY <1>1, <1>2, <1>4 DEF WatchInv

LEMMA ScanKindKeepsWatch == WatchInv /\ Watch!ScanKind => WatchInv'
<1> SUFFICES ASSUME WatchInv, Watch!ScanKind PROVE WatchInv'
  OBVIOUS
<1>0. /\ scanned' = Watch!WithKind(scanned, Watch!NextKind("scan"), {TRUE})
      /\ UNCHANGED <<where, graded, run, items, read, known, chosen, lapsed, back>>
  BY DEF Watch!ScanKind
<1>1. /\ RowsStayStored' /\ ReadersTyped' /\ rows' = rows
      /\ where["scan"] = "listing" /\ listed'["select"] = listed["select"]
      /\ \A kind : Watch!Before("select", kind)' <=> Watch!Before("select", kind)
      /\ \A kind : Watch!Before("scan", kind)' <=> Watch!Before("scan", kind) \/ kind = Watch!NextKind("scan")
      /\ Watch!NextKind("scan") \in KindsBefore("scan", 3)
  BY Listing, ReaderWords DEF Watch!ScanKind
<1>2. \A s \in WatchedSymbols :
          scanned'[s] = IF rows[s].kind = Watch!NextKind("scan") /\ rows[s].enabled = TRUE THEN rows[s] ELSE scanned[s]
  BY <1>0 DEF Watch!WithKind
<1>3. Watch!NextKind("scan") # "absent"
  BY <1>1, ReaderWords
<1>4. \A s \in WatchedSymbols : rows[s].kind = Watch!NextKind("scan") => rows[s] # Watch!Absent
  BY <1>3 DEF Watch!Absent
<1>5. ASSUME NEW s \in WatchedSymbols
      PROVE  scanned'[s] # Watch!Absent => scanned'[s].kind \in KindsBefore("scan", 3) /\ rows[s] # Watch!Absent
  BY <1>1, <1>2, <1>4 DEF WatchInv, ScanFinds
<1>6. ASSUME NEW s \in WatchedSymbols, s \notin Missed("scan"), scanned'[s] = Watch!Absent
      PROVE  ~Watch!Before("scan", rows[s].kind)'
  <2>1. Watch!Watched(rows[s])
    BY <1>1, <1>6 DEF WatchInv, ScanFinds, Missed
  <2>2. rows[s].kind # Watch!NextKind("scan")
    BY <1>2, <1>4, <1>6, <2>1 DEF Watch!Watched
  <2>3. scanned[s] = Watch!Absent
    BY <1>2, <1>6, <2>2
  <2> QED  BY <1>1, <1>6, <2>2, <2>3 DEF WatchInv, ScanFinds
<1>7. ScanFinds'
  BY <1>0, <1>1, <1>5, <1>6 DEF WatchInv, ScanFinds, Missed
<1>8. SelectRefuses'
  BY <1>0, <1>1 DEF WatchInv, SelectRefuses, Missed
<1> QED  BY <1>1, <1>7, <1>8 DEF WatchInv

LEMMA GradeKeepsWatch == WatchInv /\ Watch!Grade => WatchInv'
<1> SUFFICES ASSUME WatchInv, Watch!Grade PROVE WatchInv'
  OBVIOUS
<1>0. /\ where["scan"] = "listing" /\ listed["scan"] = 3
      /\ where' = [where EXCEPT !["scan"] = "graded"]
      /\ Watch!SameUniverse /\ UNCHANGED <<listed, scanned, run, items, read, known, chosen, lapsed, back>>
  BY DEF Watch!Grade, Watch!To, Watch!ScanKinds
<1>1. \A s \in WatchedSymbols : IF scanned[s] = Watch!Absent THEN graded'[s] = Watch!NoItem
                                ELSE graded'[s] \in Watch!Items(scanned[s].kind, s \in held)
  BY DEF Watch!Grade
<1>2. where'["scan"] = "graded" /\ where'["select"] = where["select"] /\ rows' = rows
  BY <1>0 DEF WatchInv, ReadersTyped, Watch!Readers, Watch!SameUniverse, Watch!vars
<1>3. RowsStayStored' /\ ReadersTyped'
  BY <1>0, UniverseIsSame DEF WatchInv, ReadersTyped, Watch!Readers
<1>4. ASSUME NEW s \in WatchedSymbols, scanned[s] # Watch!Absent
      PROVE  Offered(graded'[s]) /\ graded'[s] # Watch!NoItem /\ rows[s] # Watch!Absent
  <2>1. scanned[s].kind \in {"holding", "watchlist", "candidate"} /\ rows[s] # Watch!Absent
    BY <1>4, ReaderWords DEF WatchInv, ScanFinds
  <2>2. PICK role, m : graded'[s] = Watch!Item(scanned[s].kind, role, m)
    BY <1>1, <1>4 DEF Watch!Items
  <2>3. graded'[s].kind # "none"
    BY <2>1, <2>2 DEF Watch!Item
  <2>4. graded'[s] # Watch!NoItem
    BY <2>3 DEF Watch!NoItem
  <2> QED  BY <2>1, <2>2, <2>4, ItemsAreOffered
<1>5. ASSUME NEW s \in WatchedSymbols, s \notin Missed("scan") PROVE scanned[s] # Watch!Absent
  <2>1. Watch!Watched(rows[s])
    BY <1>0, <1>5 DEF WatchInv, ScanFinds, Missed
  <2>2. Watch!Before("scan", rows[s].kind)
    BY <1>0, <2>1, ReaderWords DEF Watch!Watched
  <2> QED  BY <1>0, <1>5, <2>2 DEF WatchInv, ScanFinds
<1>6. ScanFinds'
  BY <1>0, <1>1, <1>2, <1>4, <1>5, NoItemWords DEF WatchInv, ScanFinds, Missed
<1>7. \A kind : Watch!Before("select", kind)' <=> Watch!Before("select", kind)
  BY <1>0 DEF Watch!Before
<1>8. SelectRefuses'
  BY <1>0, <1>2, <1>7 DEF WatchInv, SelectRefuses, Missed
<1> QED  BY <1>3, <1>6, <1>8 DEF WatchInv

LEMMA CreateKeepsWatch ==
    WatchInv /\ (Watch!CreateRun \/ \E s \in WatchedSymbols : Watch!CreateItem(s)) => WatchInv'
<1>1. ASSUME WatchInv, Watch!CreateRun PROVE WatchInv'
  <2>0. /\ where["scan"] = "graded" /\ where' = [where EXCEPT !["scan"] = "writing"]
        /\ Watch!SameUniverse /\ UNCHANGED <<listed, scanned, graded, items, read, known, chosen, lapsed, back>>
    BY <1>1 DEF Watch!CreateRun, Watch!To
  <2>1. where'["scan"] = "writing" /\ where'["select"] = where["select"] /\ rows' = rows
    BY <1>1, <2>0 DEF WatchInv, ReadersTyped, Watch!Readers, Watch!SameUniverse, Watch!vars
  <2>2. RowsStayStored' /\ ReadersTyped'
    BY <1>1, <2>0, UniverseIsSame DEF WatchInv, ReadersTyped, Watch!Readers
  <2>3. \A kind : Watch!Before("select", kind)' <=> Watch!Before("select", kind)
    BY <2>0 DEF Watch!Before
  <2>4. ScanFinds' /\ SelectRefuses'
    BY <1>1, <2>0, <2>1, <2>3 DEF WatchInv, ScanFinds, SelectRefuses, Missed
  <2> QED  BY <2>2, <2>4 DEF WatchInv
<1>2. ASSUME WatchInv, NEW s \in WatchedSymbols, Watch!CreateItem(s) PROVE WatchInv'
  <2>0. /\ where["scan"] = "writing" /\ items' = [items EXCEPT ![s] = graded[s]]
        /\ Watch!SameUniverse /\ UNCHANGED <<where, listed, scanned, graded, run, read, known, chosen, lapsed, back>>
    BY <1>2 DEF Watch!CreateItem
  <2>1. rows' = rows
    BY <2>0 DEF Watch!SameUniverse, Watch!vars
  <2>2. RowsStayStored' /\ ReadersTyped'
    BY <1>2, <2>0, UniverseIsSame DEF WatchInv, ReadersTyped, Watch!Readers
  <2>3. DOMAIN items' = WatchedSymbols /\ \A t \in WatchedSymbols : items'[t] \in {items[t], graded[t]}
    BY <1>2, <2>0 DEF WatchInv, ScanFinds
  <2>4. \A r, kind : Watch!Before(r, kind)' <=> Watch!Before(r, kind)
    BY <2>0 DEF Watch!Before
  <2>5. ScanFinds'
    BY <1>2, <2>0, <2>1, <2>3, <2>4 DEF WatchInv, ScanFinds, Missed
  <2>6. SelectRefuses'
    BY <1>2, <2>0, <2>1, <2>4 DEF WatchInv, SelectRefuses, Missed
  <2> QED  BY <2>2, <2>5, <2>6 DEF WatchInv
<1> QED  BY <1>1, <1>2

LEMMA SelectFromKeepsWatch == WatchInv /\ Watch!SelectFrom => WatchInv'
<1> SUFFICES ASSUME WatchInv, Watch!SelectFrom PROVE WatchInv'
  OBVIOUS
<1>0. where["select"] = "idle" /\ read' = items /\ UNCHANGED <<listed, scanned, graded, run, items, known, chosen, back>>
  BY DEF Watch!SelectFrom
<1>1. /\ RowsStayStored' /\ ReadersTyped' /\ rows' = rows
      /\ where'["select"] = "listing" /\ where'["scan"] = where["scan"] /\ lapsed'["scan"] = lapsed["scan"]
      /\ \A s \in WatchedSymbols : s \notin lapsed'["select"] => ~Watch!Lapse("select", rows[s])
      /\ \A kind : ~Watch!Before("select", kind)'
  BY Beginning, ReaderWords DEF Watch!SelectFrom
<1>2. \A kind : Watch!Before("scan", kind)' <=> Watch!Before("scan", kind)
  BY <1>0 DEF Watch!Before
<1>3. ScanFinds'
  BY <1>0, <1>1, <1>2 DEF WatchInv, ScanFinds, Missed
<1>4. ~Watch!Decidable(Watch!Absent)
  BY DEF Watch!Decidable, Watch!Absent
<1>5. SelectRefuses'
  BY <1>0, <1>1, <1>4 DEF WatchInv, SelectRefuses, Watch!Lapse
<1> QED  BY <1>1, <1>3, <1>5 DEF WatchInv

LEMMA SelectKindKeepsWatch == WatchInv /\ Watch!SelectKind => WatchInv'
<1> SUFFICES ASSUME WatchInv, Watch!SelectKind PROVE WatchInv'
  OBVIOUS
<1>0. /\ known' = Watch!WithKind(known, Watch!NextKind("select"), BOOLEAN)
      /\ UNCHANGED <<where, scanned, graded, run, items, read, chosen, lapsed, back>>
  BY DEF Watch!SelectKind
<1>1. /\ RowsStayStored' /\ ReadersTyped' /\ rows' = rows
      /\ where["select"] = "listing"
      /\ \A kind : Watch!Before("scan", kind)' <=> Watch!Before("scan", kind)
      /\ \A kind : Watch!Before("select", kind)' <=> Watch!Before("select", kind) \/ kind = Watch!NextKind("select")
      /\ Watch!NextKind("select") \in KindsBefore("select", 4)
  BY Listing, ReaderWords DEF Watch!SelectKind
<1>2. ASSUME NEW s \in WatchedSymbols
      PROVE  \/ rows[s].kind = Watch!NextKind("select") /\ known'[s] = rows[s] /\ rows[s] # Watch!Absent
             \/ rows[s].kind # Watch!NextKind("select") /\ known'[s] = known[s]
  <2>1. known'[s] = IF rows[s].kind = Watch!NextKind("select") /\ rows[s].enabled \in BOOLEAN
                    THEN rows[s] ELSE known[s]
    BY <1>0 DEF Watch!WithKind
  <2>2. Watch!NextKind("select") # "absent"
    BY <1>1, ReaderWords
  <2>3. rows[s].kind = Watch!NextKind("select") => rows[s] # Watch!Absent
    BY <2>2 DEF Watch!Absent
  <2>4. rows[s] # Watch!Absent => rows[s].enabled \in BOOLEAN
    BY DEF WatchInv, RowsStayStored, IsStored
  <2> QED  BY <2>1, <2>3, <2>4
<1>3. ScanFinds'
  BY <1>0, <1>1 DEF WatchInv, ScanFinds, Missed
<1>4. ASSUME NEW s \in WatchedSymbols
      PROVE  /\ s \notin lapsed["select"] => ~Watch!Decidable(rows[s]) /\ ~Watch!Decidable(known'[s])
             /\ s \notin Missed("select") /\ known'[s] = Watch!Absent => ~Watch!Before("select", rows[s].kind)'
  <2>1. /\ s \notin lapsed["select"] => ~Watch!Decidable(rows[s]) /\ ~Watch!Decidable(known[s])
        /\ s \notin Missed("select") /\ known[s] = Watch!Absent => ~Watch!Before("select", rows[s].kind)
    BY <1>1 DEF WatchInv, SelectRefuses
  <2>2. known'[s] = rows[s] \/ known'[s] = known[s]
    BY <1>2
  <2>3. known'[s] = Watch!Absent => known[s] = Watch!Absent /\ rows[s].kind # Watch!NextKind("select")
    BY <1>2
  <2>4. rows'[s].kind = rows[s].kind
    BY <1>1
  <2> QED  BY <1>1, <2>1, <2>2, <2>3, <2>4
<1>5. SelectRefuses'
  BY <1>0, <1>1, <1>4 DEF WatchInv, SelectRefuses, Missed
<1> QED  BY <1>1, <1>3, <1>5 DEF WatchInv

LEMMA SelectKeepsWatch == ASSUME NEW recent, WatchInv, Watch!Select(recent) PROVE WatchInv'
<1>0. /\ where["select"] = "listing" /\ listed["select"] = 4
      /\ where' = [where EXCEPT !["select"] = "done"]
      /\ chosen' = {s \in WatchedSymbols : Watch!MayDecide(read[s], known[s])} \ recent
      /\ Watch!SameUniverse /\ UNCHANGED <<listed, scanned, graded, run, items, read, known, lapsed, back>>
  BY DEF Watch!Select, Watch!To, Watch!AllKinds
<1>1. where'["select"] = "done" /\ where'["scan"] = where["scan"] /\ rows' = rows
  BY <1>0 DEF WatchInv, ReadersTyped, Watch!Readers, Watch!SameUniverse, Watch!vars
<1>2. RowsStayStored' /\ ReadersTyped'
  BY <1>0, UniverseIsSame DEF WatchInv, ReadersTyped, Watch!Readers
<1>3. \A kind : Watch!Before("scan", kind)' <=> Watch!Before("scan", kind)
  BY <1>0 DEF Watch!Before
<1>4. ScanFinds'
  BY <1>0, <1>1, <1>3 DEF WatchInv, ScanFinds, Missed
<1>5. ASSUME NEW s \in WatchedSymbols, Watch!MayDecide(read[s], known[s]) PROVE s \in Missed("select")
  <2>1. read[s] # Watch!NoItem
    BY <1>5, NoItemWords DEF Watch!MayDecide
  <2>2. IsStored(rows[s])
    BY <2>1 DEF WatchInv, ScanFinds, RowsStayStored
  <2>3. Watch!Before("select", rows[s].kind)
    BY <1>0, <2>2, ReaderWords DEF IsStored
  <2>4. known[s] = Watch!Absent \/ Watch!Decidable(known[s])
    BY <1>5 DEF Watch!MayDecide, Watch!RowAllows
  <2> QED  BY <1>0, <2>3, <2>4 DEF WatchInv, SelectRefuses, Missed
<1>6. chosen' \subseteq WatchedSymbols /\ chosen' \subseteq Missed("select")
  BY <1>0, <1>5
<1>7. SelectRefuses'
  BY <1>0, <1>1, <1>6 DEF WatchInv, SelectRefuses, Missed
<1> QED  BY <1>2, <1>4, <1>7 DEF WatchInv

LEMMA WatchBegins == Watch!Init /\ Watch!WatchInit => WatchInv
<1> SUFFICES ASSUME Watch!Init, Watch!WatchInit PROVE WatchInv
  OBVIOUS
<1>1. RowsStayStored
  <2>1. DOMAIN rows = WatchedSymbols /\ \A s \in WatchedSymbols : rows[s] = Watch!Absent \/ IsStored(rows[s])
    <3>1. IsStored([kind |-> "watchlist", enabled |-> TRUE, off |-> FALSE])
      BY DEF IsStored, IsRow
    <3>2. rows \in [WatchedSymbols -> {Watch!Absent, [kind |-> "watchlist", enabled |-> TRUE, off |-> FALSE]}]
      BY DEF Watch!Init
    <3> QED  BY <3>1, <3>2
  <2>2. DOMAIN pc = Watch!Actors /\ \A a \in Watch!Actors : pc[a] = "idle"
    BY DEF Watch!Init
  <2>3. /\ DOMAIN work = Watch!Actors /\ \A a \in Watch!Actors : DOMAIN work[a] = WatchedSymbols
        /\ \A a \in Watch!Actors : \A s \in WatchedSymbols : work[a][s] = Watch!Absent
    BY DEF Watch!Init
  <2>4. DOMAIN pending = Syncs /\ DOMAIN edit = WatchUsers /\ of \in [WatchUsers -> WatchedSymbols]
    BY DEF Watch!Init
  <2> QED  BY <2>1, <2>2, <2>3, <2>4 DEF RowsStayStored, Watch!Actors
<1>2. ReadersTyped
  BY DEF Watch!WatchInit, ReadersTyped, Watch!Readers
<1>3. where["scan"] = "idle" /\ where["select"] = "idle"
  BY DEF Watch!WatchInit, Watch!Readers
<1>4. ScanFinds
  BY <1>3, NoItemWords DEF Watch!WatchInit, ScanFinds
<1>5. SelectRefuses
  BY <1>3 DEF Watch!WatchInit, SelectRefuses
<1> QED  BY <1>1, <1>2, <1>4, <1>5 DEF WatchInv

Watching == part = "watch" => WatchInv

LEMMA WatchIsKept == MCSpec => []Watching
<1>1. MCInit => Watching
  BY WatchBegins DEF MCInit, Watching
<1>2. ASSUME Watching, [MCNext]_all PROVE Watching'
  <2>1. CASE WatchStep
    <3>1. WatchInv /\ Watch!WatchNext
      BY <1>2, <2>1 DEF Watching, WatchStep
    <3>2. WatchInv'
      BY <3>1, UniverseKeepsWatch, ScanKeepsWatch, ScanKindKeepsWatch, GradeKeepsWatch, CreateKeepsWatch,
         SelectFromKeepsWatch, SelectKindKeepsWatch, SelectKeepsWatch DEF Watch!WatchNext
    <3> QED  BY <3>2 DEF Watching
  <2>2. CASE ImportStep \/ UniverseStep \/ LedgerStep \/ FifoStep
    BY <2>2 DEF ImportStep, UniverseStep, LedgerStep, FifoStep, Watching
  <2>3. CASE UNCHANGED all
    <3>1. UNCHANGED <<part, rows, held, pc, edit, of, pending, work, stale>>
      BY <2>3 DEF all, universe
    <3>2. UNCHANGED <<where, listed, scanned, graded, run, items, read, known, chosen, lapsed, back>>
      BY <2>3 DEF all, watch
    <3> QED  BY <1>2, <3>1, <3>2 DEF Watching, WatchInv, RowsStayStored, ReadersTyped, ScanFinds, SelectRefuses, Missed,
                                     Watch!Before, Watch!Actors
  <2> QED  BY <1>2, <2>1, <2>2, <2>3 DEF MCNext
<1> QED  BY <1>1, <1>2, PTL DEF MCSpec

(* Watchtower: only symbols that move between two lists are overlooked, or *)
(* taken against their row (watchtower/service.py:134-143,                 *)
(* decision_orchestrator/service.py:66-68, trigger_selector.py:96-106).    *)
THEOREM OnlyMovedAreEverMissed == MCSpec => []OnlyMovedAreMissed
<1>1. Watching => OnlyMovedAreMissed
  <2> SUFFICES ASSUME Watching, part = "watch" PROVE Watch!OnlyMovedAreMissed
    BY DEF OnlyMovedAreMissed
  <2>1. where["scan"] \notin {"idle", "listing"} =>
            \A s \in WatchedSymbols \ (lapsed["scan"] \union back["scan"]) : graded[s] # Watch!NoItem
    BY DEF Watching, WatchInv, ReadersTyped, ScanFinds, Missed
  <2>2. \A s \in chosen : s \in lapsed["select"] \union back["select"]
    BY DEF Watching, WatchInv, SelectRefuses, Missed
  <2> QED  BY <2>1, <2>2 DEF Watch!OnlyMovedAreMissed
<1> QED  BY <1>1, WatchIsKept, PTL

(* Watchtower: what the rules require, the selector does not refuse for    *)
(* the kind or the hint of the item (trigger_rules.py,                     *)
(* trigger_selector.py:90-122).                                            *)
THEOREM RequiredIsAlwaysOffered == MCSpec => []RequiredIsOffered
<1>1. Watching => RequiredIsOffered
  <2> SUFFICES ASSUME Watching, part = "watch" PROVE Watch!RequiredIsOffered
    BY DEF RequiredIsOffered
  <2>1. \A s \in WatchedSymbols : Offered(read[s])
    BY DEF Watching, WatchInv, ScanFinds
  <2> QED  BY <2>1 DEF Watch!RequiredIsOffered, Offered
<1> QED  BY <1>1, WatchIsKept, PTL

-----------------------------------------------------------------------------
(* The cost basis: e numbers the ends of the lots ls.                      *)
EndsOf(ls, e) ==
    /\ DOMAIN e = 0 .. Len(ls) /\ \A j \in 0 .. Len(ls) : e[j] \in Int
    /\ \A j \in 1 .. Len(ls) : e[j] = e[j - 1] + Basis!Abs(ls[j].quantity)

(* A set of numbers up to n has a least element.                           *)
LEMMA LeastNumber ==
    ASSUME NEW T, T \subseteq Nat, T # {}
    PROVE  \E k \in T : \A j \in T : k <= j
<1>1. PICK k \in T : \A j \in T : ~ (<<j, k>> \in OpToRel(<, Nat))
    BY NatLessThanWellFounded, WFMin
<1>2. \A j \in T : ~ (j < k)
    BY <1>1 DEF OpToRel
<1> QED  BY <1>2

LotType == [quantity : Int, price : Int]

(* The recursive definition of UpTo has a solution.                        *)
LEMMA UpToDefined ==
    ASSUME NEW ls \in Seq(LotType)
    PROVE  \E e : e = [j \in 0 .. Len(ls) |-> IF j = 0 THEN 0 ELSE e[j - 1] + Basis!Abs(ls[j].quantity)]
<1> DEFINE Solves(e, n) == e = [j \in 0 .. n |-> IF j = 0 THEN 0 ELSE e[j - 1] + Basis!Abs(ls[j].quantity)]
           Bad == {n \in 0 .. Len(ls) : ~ \E e : Solves(e, n)}
<1>1. Bad = {}
  <2> SUFFICES ASSUME Bad # {} PROVE FALSE
    OBVIOUS
  <2>0. Len(ls) \in Nat /\ Bad \subseteq Nat
    OBVIOUS
  <2>1. PICK n \in Bad : \A m \in Bad : n <= m
    <3> HIDE DEF Bad
    <3> QED  BY <2>0, LeastNumber
  <2>2. n # 0
    <3> DEFINE z == [j \in {0} |-> 0]
    <3>1. z = [j \in 0 .. 0 |-> IF j = 0 THEN 0 ELSE z[j - 1] + Basis!Abs(ls[j].quantity)]
      <4>1. 0 .. 0 = {0}
        OBVIOUS
      <4> QED  BY <4>1
    <3>2. Solves(z, 0)
      BY <3>1
    <3> QED  BY <3>2
  <2>3. n - 1 \in 0 .. Len(ls) /\ n - 1 \notin Bad
    <3>1. n \in 0 .. Len(ls)
      OBVIOUS
    <3>2. n - 1 \in 0 .. Len(ls) /\ ~ (n <= n - 1)
      BY <2>0, <2>2, <3>1
    <3> HIDE DEF Bad
    <3> QED  BY <2>1, <3>2
  <2>4. PICK g : Solves(g, n - 1)
    BY <2>3
  <2> DEFINE h == [j \in 0 .. n |-> IF j = n THEN g[n - 1] + Basis!Abs(ls[n].quantity) ELSE g[j]]
  <2>5. \A j \in 0 .. n - 1 : h[j] = g[j]
    OBVIOUS
  <2>6. \A j \in 0 .. n : h[j] = IF j = 0 THEN 0 ELSE h[j - 1] + Basis!Abs(ls[j].quantity)
    <3> SUFFICES ASSUME NEW j \in 0 .. n PROVE h[j] = IF j = 0 THEN 0 ELSE h[j - 1] + Basis!Abs(ls[j].quantity)
      OBVIOUS
    <3>1. CASE j = n
      BY <3>1, <2>2, <2>5
    <3>2. CASE j # n
      <4>1. j \in 0 .. n - 1
        BY <3>2
      <4>2. g[j] = IF j = 0 THEN 0 ELSE g[j - 1] + Basis!Abs(ls[j].quantity)
        BY <2>4, <4>1
      <4> HIDE DEF h
      <4> QED  BY <2>5, <4>1, <4>2
    <3> QED  BY <3>1, <3>2
  <2>7. Solves(h, n)
    <3> DEFINE r == [j \in 0 .. n |-> IF j = 0 THEN 0 ELSE h[j - 1] + Basis!Abs(ls[j].quantity)]
    <3>1. h = r
      BY <2>6
    <3> QED  BY <3>1
  <2> QED  BY <2>1, <2>7
<1>2. Len(ls) \in 0 .. Len(ls)
  OBVIOUS
<1> QED  BY <1>1, <1>2

(* So UpTo numbers the ends of the lots.                                   *)
LEMMA UpToEnds ==
    ASSUME NEW ls \in Seq(LotType)
    PROVE  /\ EndsOf(ls, Basis!UpTo(ls)) /\ Basis!UpTo(ls)[0] = 0
           /\ \A j \in 0 .. Len(ls) : Basis!UpTo(ls)[j] \in Nat
<1> DEFINE u == Basis!UpTo(ls)
<1>1. u = [j \in 0 .. Len(ls) |-> IF j = 0 THEN 0 ELSE u[j - 1] + Basis!Abs(ls[j].quantity)]
  BY UpToDefined DEF Basis!UpTo
<1>2. Len(ls) \in Nat /\ \A j \in 1 .. Len(ls) : ls[j].quantity \in Int
  <2> HIDE DEF u
  <2>1. Len(ls) \in Nat /\ \A j \in 1 .. Len(ls) : ls[j] \in LotType
    OBVIOUS
  <2> QED  BY <2>1 DEF LotType
<1>3. DOMAIN u = 0 .. Len(ls) /\ u[0] = 0
  <2> HIDE DEF u
  <2> QED  BY <1>1, <1>2
<1>4. \A j \in 1 .. Len(ls) : u[j] = u[j - 1] + Basis!Abs(ls[j].quantity)
  <2> HIDE DEF u
  <2> QED  BY <1>1, <1>2
<1> DEFINE Bad == {j \in 0 .. Len(ls) : u[j] \notin Nat}
<1>5. Bad = {}
  <2> HIDE DEF u
  <2> SUFFICES ASSUME Bad # {} PROVE FALSE
    OBVIOUS
  <2>0. Bad \subseteq Nat
    BY <1>2
  <2>1. PICK n \in Bad : \A m \in Bad : n <= m
    <3> HIDE DEF Bad
    <3> QED  BY <2>0, LeastNumber
  <2>2. n \in 1 .. Len(ls)
    BY <1>2, <1>3
  <2>3. u[n - 1] \in Nat
    BY <1>2, <2>1, <2>2
  <2>4. Basis!Abs(ls[n].quantity) \in Nat
    BY <1>2, <2>2 DEF Basis!Abs
  <2> QED  BY <1>4, <2>2, <2>3, <2>4
<1> HIDE DEF u
<1>6. EndsOf(ls, u) /\ u[0] = 0 /\ \A j \in 0 .. Len(ls) : u[j] \in Nat
  BY <1>3, <1>4, <1>5 DEF EndsOf
<1> QED  BY <1>6 DEF u

(* Whatever numbers the ends of the lots from 0 is UpTo.                   *)
LEMMA EndsAreUpTo ==
    ASSUME NEW ls \in Seq(LotType), NEW e, EndsOf(ls, e), e[0] = 0
    PROVE  \A j \in 0 .. Len(ls) : e[j] = Basis!UpTo(ls)[j]
<1> DEFINE u == Basis!UpTo(ls)
           Bad == {j \in 0 .. Len(ls) : e[j] # u[j]}
<1>1. EndsOf(ls, u) /\ u[0] = 0 /\ Len(ls) \in Nat
  BY UpToEnds
<1> HIDE DEF u
<1>2. Bad = {}
  <2> SUFFICES ASSUME Bad # {} PROVE FALSE
    OBVIOUS
  <2>0. Bad \subseteq Nat
    BY <1>1
  <2>1. PICK n \in Bad : \A m \in Bad : n <= m
    <3> HIDE DEF Bad
    <3> QED  BY <2>0, LeastNumber
  <2>2. n \in 1 .. Len(ls)
    BY <1>1
  <2>3. e[n - 1] = u[n - 1]
    BY <1>1, <2>1, <2>2
  <2> QED  BY <1>1, <2>2, <2>3 DEF EndsOf
<1> QED  BY <1>2 DEF u

(* What a lot is made of.                                                  *)
ShareType == [sign : {-1, 1}, price : Int]

Piece(lot) == [sign |-> Basis!Sign(lot.quantity), price |-> lot.price]

(* The shares sh are those of the lots ls, but for the m last.             *)
Fits(ls, sh, e, m) ==
    /\ EndsOf(ls, e)
    /\ \A j \in 0 .. Len(ls) : j # Len(ls) => e[j] <= Len(sh)
    /\ e[Len(ls)] = Len(sh) + m
    /\ \A j \in 1 .. Len(ls), i \in 1 .. Len(sh) : e[j - 1] < i /\ i <= e[j] => sh[i] = Piece(ls[j])

(* The oldest lot is closed whole: the holding has its shares yet to close. *)
LEMMA LotIsClosed ==
    ASSUME NEW ls \in Seq(LotType), NEW sh \in Seq(ShareType), NEW e, ls # <<>>, Fits(ls, sh, e, 0), e[0] = 0
    PROVE  LET e2 == [j \in 0 .. Len(ls) - 1 |-> e[j + 1]]
           IN  /\ Fits(Tail(ls), sh, e2, 0) /\ e2[0] = Basis!Abs(ls[1].quantity) /\ e2[0] <= Len(sh)
               /\ \A i \in 1 .. Len(sh) : i <= e2[0] => sh[i] = Piece(ls[1])
<1> DEFINE e2 == [j \in 0 .. Len(ls) - 1 |-> e[j + 1]]
           ls2 == Tail(ls)
<1>1. ls2 \in Seq(LotType) /\ Len(ls2) = Len(ls) - 1 /\ Len(ls) \in Nat \ {0} /\ \A j \in 1 .. Len(ls) - 1 : ls2[j] = ls[j + 1]
  OBVIOUS
<1>2. \A j \in 0 .. Len(ls) - 1 : e2[j] = e[j + 1]
  OBVIOUS
<1>3. DOMAIN e2 = 0 .. Len(ls) - 1
  OBVIOUS
<1>4. Len(sh) \in Nat
  OBVIOUS
<1> HIDE DEF e2, ls2
<1>5. e2[0] = Basis!Abs(ls[1].quantity)
  <2>1. ls[1] \in LotType
    OBVIOUS
  <2>2. Basis!Abs(ls[1].quantity) \in Int
    BY <2>1 DEF LotType, Basis!Abs
  <2>3. 1 \in 1 .. Len(ls) /\ e2[0] = e[1]
    BY <1>1, <1>2
  <2>4. e[1] = e[1 - 1] + Basis!Abs(ls[1].quantity)
    BY <2>3 DEF Fits, EndsOf
  <2> QED  BY <2>2, <2>3, <2>4
<1>6. EndsOf(ls2, e2)
  <2>1. \A j \in 0 .. Len(ls2) : e2[j] \in Int
    BY <1>1, <1>2 DEF Fits, EndsOf
  <2>2. ASSUME NEW j \in 1 .. Len(ls2) PROVE e2[j] = e2[j - 1] + Basis!Abs(ls2[j].quantity)
    <3>1. j + 1 \in 1 .. Len(ls) /\ (j + 1) - 1 = j /\ ls2[j] = ls[j + 1] /\ e2[j] = e[j + 1] /\ e2[j - 1] = e[j]
      BY <1>1, <1>2
    <3> QED  BY <3>1 DEF Fits, EndsOf
  <2> QED  BY <1>1, <1>3, <2>1, <2>2 DEF EndsOf
<1>7. \A j \in 0 .. Len(ls2) : e2[j] <= Len(sh)
  <2> SUFFICES ASSUME NEW j \in 0 .. Len(ls2) PROVE e2[j] <= Len(sh)
    OBVIOUS
  <2>1. e2[j] = e[j + 1] /\ j + 1 \in 0 .. Len(ls)
    BY <1>1, <1>2
  <2>2. CASE j + 1 = Len(ls)
    BY <1>4, <2>1, <2>2 DEF Fits
  <2>3. CASE j + 1 # Len(ls)
    BY <2>1, <2>3 DEF Fits
  <2> QED  BY <2>2, <2>3
<1>8. e2[Len(ls2)] = Len(sh) + 0
  BY <1>1, <1>2 DEF Fits
<1>9. ASSUME NEW j \in 1 .. Len(ls2), NEW i \in 1 .. Len(sh), e2[j - 1] < i, i <= e2[j] PROVE sh[i] = Piece(ls2[j])
  <2>1. j + 1 \in 1 .. Len(ls) /\ e[j] < i /\ i <= e[j + 1] /\ (j + 1) - 1 = j /\ ls2[j] = ls[j + 1]
    BY <1>1, <1>2, <1>9
  <2> QED  BY <2>1 DEF Fits
<1>10. \A i \in 1 .. Len(sh) : i <= e2[0] => sh[i] = Piece(ls[1])
  BY <1>1, <1>2 DEF Fits
<1>11. Fits(ls2, sh, e2, 0)
  BY <1>6, <1>7, <1>8, <1>9 DEF Fits
<1>12. e2[0] <= Len(sh)
  BY <1>1, <1>7
<1> QED  BY <1>5, <1>10, <1>11, <1>12 DEF e2, ls2

(* It is closed in part: n of its shares are yet to be closed.             *)
LEMMA LotIsReduced ==
    ASSUME NEW ls \in Seq(LotType), NEW sh \in Seq(ShareType), NEW e, ls # <<>>, Fits(ls, sh, e, 0), e[0] = 0,
           NEW n \in Nat, 0 < n, n < Basis!Abs(ls[1].quantity), NEW ls2 \in Seq(LotType), Len(ls2) = Len(ls),
           \A j \in 2 .. Len(ls) : ls2[j] = ls[j],
           Piece(ls2[1]) = Piece(ls[1]), Basis!Abs(ls2[1].quantity) = Basis!Abs(ls[1].quantity) - n
    PROVE  LET e2 == [e EXCEPT ![0] = n]
           IN  /\ Fits(ls2, sh, e2, 0) /\ e2[0] = n /\ n <= Len(sh)
               /\ \A i \in 1 .. Len(sh) : i <= n => sh[i] = Piece(ls[1])
<1> DEFINE e2 == [e EXCEPT ![0] = n]
<1>1. Len(ls) \in Nat \ {0} /\ Len(sh) \in Nat /\ ls[1].quantity \in Int
  <2>1. Len(ls) \in Nat \ {0} /\ Len(sh) \in Nat /\ ls[1] \in LotType
    OBVIOUS
  <2> QED  BY <2>1 DEF LotType
<1>2. DOMAIN e = 0 .. Len(ls)
  BY DEF Fits, EndsOf
<1>3. DOMAIN e2 = 0 .. Len(ls) /\ e2[0] = n /\ \A j \in 1 .. Len(ls) : e2[j] = e[j]
  BY <1>1, <1>2
<1> HIDE DEF e2
<1>4. e[1] = Basis!Abs(ls[1].quantity) /\ Basis!Abs(ls[1].quantity) \in Int
  BY <1>1 DEF Fits, EndsOf, Basis!Abs
<1>5. \A j \in 1 .. Len(ls) : e2[j] = e2[j - 1] + Basis!Abs(ls2[j].quantity)
  <2> SUFFICES ASSUME NEW j \in 1 .. Len(ls) PROVE e2[j] = e2[j - 1] + Basis!Abs(ls2[j].quantity)
    OBVIOUS
  <2>1. CASE j = 1
    BY <2>1, <1>1, <1>3, <1>4
  <2>2. CASE j # 1
    BY <2>2, <1>1, <1>3 DEF Fits, EndsOf
  <2> QED  BY <2>1, <2>2
<1>6. EndsOf(ls2, e2)
  BY <1>1, <1>3, <1>5 DEF Fits, EndsOf
<1>7. e[1] <= Len(sh) /\ e2[Len(ls2)] = Len(sh) + 0
  BY <1>1, <1>3 DEF Fits
<1>8. \A j \in 0 .. Len(ls2) : j # Len(ls2) => e2[j] <= Len(sh)
  BY <1>1, <1>3, <1>4, <1>7 DEF Fits, EndsOf
<1>9. ASSUME NEW j \in 1 .. Len(ls2), NEW i \in 1 .. Len(sh), e2[j - 1] < i, i <= e2[j] PROVE sh[i] = Piece(ls2[j])
  <2>1. CASE j = 1
    BY <2>1, <1>1, <1>3, <1>9 DEF Fits
  <2>2. CASE j # 1
    <3>1. j - 1 \in 1 .. Len(ls) /\ j \in 1 .. Len(ls) /\ e[j - 1] < i /\ i <= e[j]
      BY <1>1, <1>3, <1>9, <2>2
    <3>2. sh[i] = Piece(ls[j])
      BY <3>1 DEF Fits
    <3> QED  BY <2>2, <3>1, <3>2
  <2> QED  BY <2>1, <2>2
<1>10. \A i \in 1 .. Len(sh) : i <= n => sh[i] = Piece(ls[1])
  BY <1>1, <1>4 DEF Fits
<1>11. Fits(ls2, sh, e2, 0)
  BY <1>6, <1>7, <1>8, <1>9 DEF Fits
<1>12. n <= Len(sh)
  BY <1>1, <1>4, <1>7
<1> QED  BY <1>3, <1>10, <1>11, <1>12 DEF e2

(* The oldest share is closed: there is one share less to close.           *)
LEMMA ShareIsClosed ==
    ASSUME NEW ls \in Seq(LotType), NEW sh \in Seq(ShareType), NEW e, sh # <<>>, Fits(ls, sh, e, 0)
    PROVE  LET e2 == [j \in 0 .. Len(ls) |-> e[j] - 1]
           IN  Fits(ls, Tail(sh), e2, 0) /\ e2[0] = e[0] - 1
<1> DEFINE e2 == [j \in 0 .. Len(ls) |-> e[j] - 1]
           sh2 == Tail(sh)
<1>1. Len(ls) \in Nat /\ Len(sh) \in Nat \ {0}
  OBVIOUS
<1>2. DOMAIN e2 = 0 .. Len(ls) /\ \A j \in 0 .. Len(ls) : e2[j] = e[j] - 1
  OBVIOUS
<1>3. Len(sh2) = Len(sh) - 1 /\ \A i \in 1 .. Len(sh) - 1 : sh2[i] = sh[i + 1]
  OBVIOUS
<1> HIDE DEF e2, sh2
<1>4. EndsOf(ls, e2)
  <2>1. \A j \in 0 .. Len(ls) : e2[j] \in Int
    BY <1>2 DEF Fits, EndsOf
  <2>2. ASSUME NEW j \in 1 .. Len(ls) PROVE e2[j] = e2[j - 1] + Basis!Abs(ls[j].quantity)
    <3>1. j \in 0 .. Len(ls) /\ j - 1 \in 0 .. Len(ls)
      BY <1>1
    <3>2. ls[j] \in LotType /\ ls[j].quantity \in Int
      <4>1. ls[j] \in LotType
        OBVIOUS
      <4> QED  BY <4>1 DEF LotType
    <3>3. Basis!Abs(ls[j].quantity) \in Int /\ e[j] = e[j - 1] + Basis!Abs(ls[j].quantity) /\ e[j - 1] \in Int
      BY <3>1, <3>2 DEF Fits, EndsOf, Basis!Abs
    <3> QED  BY <1>2, <3>1, <3>3
  <2> QED  BY <1>2, <2>1, <2>2 DEF EndsOf
<1>5. (\A j \in 0 .. Len(ls) : j # Len(ls) => e2[j] <= Len(sh2)) /\ e2[Len(ls)] = Len(sh2) + 0
  <2>1. \A j \in 0 .. Len(ls) : e[j] \in Int
    BY DEF Fits, EndsOf
  <2>2. \A j \in 0 .. Len(ls) : j # Len(ls) => e[j] <= Len(sh)
    BY DEF Fits
  <2>3. e[Len(ls)] = Len(sh)
    BY <1>1 DEF Fits
  <2>4. ASSUME NEW j \in 0 .. Len(ls), j # Len(ls) PROVE e2[j] <= Len(sh2)
    <3>1. e2[j] = e[j] - 1 /\ e[j] \in Int /\ e[j] <= Len(sh)
      BY <1>2, <2>1, <2>2, <2>4
    <3> QED  BY <1>1, <1>3, <3>1
  <2>5. e2[Len(ls)] = e[Len(ls)] - 1
    BY <1>1, <1>2
  <2> QED  BY <1>1, <1>3, <2>3, <2>4, <2>5
<1>6. ASSUME NEW j \in 1 .. Len(ls), NEW i \in 1 .. Len(sh2), e2[j - 1] < i, i <= e2[j] PROVE sh2[i] = Piece(ls[j])
  <2>1. i + 1 \in 1 .. Len(sh) /\ sh2[i] = sh[i + 1] /\ j \in 0 .. Len(ls) /\ j - 1 \in 0 .. Len(ls)
    BY <1>1, <1>3
  <2>3. e[j - 1] \in Int /\ e[j] \in Int /\ e2[j - 1] = e[j - 1] - 1 /\ e2[j] = e[j] - 1
    BY <1>2, <2>1 DEF Fits, EndsOf
  <2>2. e[j - 1] < i + 1 /\ i + 1 <= e[j]
    BY <1>6, <2>3
  <2> QED  BY <2>1, <2>2 DEF Fits
<1>7. Fits(ls, sh2, e2, 0)
  BY <1>4, <1>5, <1>6 DEF Fits
<1>8. e2[0] = e[0] - 1
  BY <1>1, <1>2
<1> QED  BY <1>7, <1>8 DEF e2, sh2

(* A lot is opened: its shares are yet to be taken.                        *)
LEMMA LotIsOpened ==
    ASSUME NEW ls \in Seq(LotType), NEW sh \in Seq(ShareType), NEW e, Fits(ls, sh, e, 0), NEW lot \in LotType
    PROVE  LET e2 == [j \in 0 .. Len(ls) + 1 |-> IF j = Len(ls) + 1 THEN e[Len(ls)] + Basis!Abs(lot.quantity) ELSE e[j]]
           IN  Fits(Append(ls, lot), sh, e2, Basis!Abs(lot.quantity)) /\ e2[0] = e[0]
<1> DEFINE e2 == [j \in 0 .. Len(ls) + 1 |-> IF j = Len(ls) + 1 THEN e[Len(ls)] + Basis!Abs(lot.quantity) ELSE e[j]]
           ls2 == Append(ls, lot)
<1>1. Len(ls) \in Nat /\ Len(sh) \in Nat /\ lot.quantity \in Int
  BY DEF LotType
<1>2. /\ DOMAIN e2 = 0 .. Len(ls) + 1 /\ \A j \in 0 .. Len(ls) : e2[j] = e[j]
      /\ e2[Len(ls) + 1] = e[Len(ls)] + Basis!Abs(lot.quantity)
  BY <1>1
<1>3. Len(ls2) = Len(ls) + 1 /\ ls2[Len(ls) + 1] = lot /\ \A j \in 1 .. Len(ls) : ls2[j] = ls[j]
  BY <1>1
<1>4. Basis!Abs(lot.quantity) \in Int
  BY <1>1 DEF Basis!Abs
<1> HIDE DEF e2, ls2
<1>5. \A j \in 0 .. Len(ls) : e[j] \in Int /\ e[j] <= Len(sh)
  BY <1>1 DEF Fits, EndsOf
<1>6. EndsOf(ls2, e2)
  <2>1. \A j \in 0 .. Len(ls) + 1 : e2[j] \in Int
    BY <1>1, <1>2, <1>4, <1>5
  <2>2. ASSUME NEW j \in 1 .. Len(ls) + 1 PROVE e2[j] = e2[j - 1] + Basis!Abs(ls2[j].quantity)
    <3>1. CASE j = Len(ls) + 1
      BY <3>1, <1>1, <1>2, <1>3
    <3>2. CASE j # Len(ls) + 1
      BY <3>2, <1>1, <1>2, <1>3 DEF Fits, EndsOf
    <3> QED  BY <3>1, <3>2
  <2> QED  BY <1>2, <1>3, <2>1, <2>2 DEF EndsOf
<1>7. \A j \in 0 .. Len(ls2) : j # Len(ls2) => e2[j] <= Len(sh)
  BY <1>1, <1>2, <1>3, <1>5
<1>8. e2[Len(ls2)] = Len(sh) + Basis!Abs(lot.quantity)
  BY <1>1, <1>2, <1>3, <1>4 DEF Fits
<1>9. ASSUME NEW j \in 1 .. Len(ls2), NEW i \in 1 .. Len(sh), e2[j - 1] < i, i <= e2[j] PROVE sh[i] = Piece(ls2[j])
  <2>1. j # Len(ls) + 1
    BY <1>1, <1>2, <1>9 DEF Fits
  <2>2. j \in 1 .. Len(ls) /\ e[j - 1] < i /\ i <= e[j] /\ ls2[j] = ls[j]
    BY <1>1, <1>2, <1>3, <1>9, <2>1
  <2> QED  BY <2>2 DEF Fits
<1>10. Fits(ls2, sh, e2, Basis!Abs(lot.quantity))
  BY <1>6, <1>7, <1>8, <1>9 DEF Fits
<1> QED  BY <1>1, <1>2, <1>10 DEF e2, ls2

(* A share is taken into the newest lot: there is one less to take.        *)
LEMMA ShareIsHeld ==
    ASSUME NEW ls \in Seq(LotType), NEW sh \in Seq(ShareType), NEW e, NEW m \in Nat, 0 < m, ls # <<>>,
           Fits(ls, sh, e, m)
    PROVE  Fits(ls, Append(sh, Piece(ls[Len(ls)])), e, m - 1)
<1> DEFINE sh2 == Append(sh, Piece(ls[Len(ls)]))
<1>1. Len(ls) \in Nat \ {0} /\ Len(sh) \in Nat
  OBVIOUS
<1>2. Len(sh2) = Len(sh) + 1 /\ sh2[Len(sh) + 1] = Piece(ls[Len(ls)]) /\ \A i \in 1 .. Len(sh) : sh2[i] = sh[i]
  BY <1>1
<1> HIDE DEF sh2
<1>3. \A j \in 0 .. Len(ls) : j # Len(ls) => e[j] <= Len(sh2)
  BY <1>1, <1>2 DEF Fits, EndsOf
<1>4. ASSUME NEW j \in 1 .. Len(ls), NEW i \in 1 .. Len(sh2), e[j - 1] < i, i <= e[j] PROVE sh2[i] = Piece(ls[j])
  <2>1. CASE i = Len(sh) + 1
    <3>1. j = Len(ls)
      BY <1>1, <1>4, <2>1 DEF Fits, EndsOf
    <3> QED  BY <1>2, <2>1, <3>1
  <2>2. CASE i # Len(sh) + 1
    <3>1. i \in 1 .. Len(sh)
      BY <1>1, <1>2, <2>2
    <3> QED  BY <1>2, <1>4, <3>1 DEF Fits
  <2> QED  BY <2>1, <2>2
<1> QED  BY <1>1, <1>2, <1>3, <1>4 DEF Fits, sh2

(* What is held of one sign, the long one for a stock.                     *)
OfSign(z) ==
    /\ z \in {-1, 1} /\ (option \/ z = 1)
    /\ \A j \in 1 .. Len(lots) : lots[j].quantity # 0 /\ Basis!Sign(lots[j].quantity) = z
    /\ \A i \in 1 .. Len(shares) : shares[i].sign = z

FifoTyped ==
    /\ lots \in Seq(LotType) /\ shares \in Seq(ShareType) /\ option \in BOOLEAN
    /\ realized \in Int /\ gain \in Int /\ remaining \in Int /\ owed \in Int /\ price \in Int

(* The holding has come as far as the program.                             *)
Level ==
    /\ owed = remaining /\ realized = gain
    /\ \E z \in {-1, 1} : OfSign(z)
    /\ \E e : Fits(lots, shares, e, 0) /\ e[0] = 0

(* It has m shares yet to close, of lots that were bought at a price p.    *)
Closing(m) ==
    /\ 0 < m /\ m <= Len(shares) /\ owed # 0 /\ OfSign(-Basis!Sign(owed))
    /\ owed = remaining + m * Basis!Sign(owed) /\ (remaining = 0 \/ Basis!Sign(remaining) = Basis!Sign(owed))
    /\ \E e : Fits(lots, shares, e, 0) /\ e[0] = m
    /\ \E p \in Int :
          /\ \A i \in 1 .. Len(shares) : i <= m => shares[i].price = p
          /\ realized = gain + m * (-Basis!Sign(owed) * (price - p))

(* It has shares yet to take of a lot that was opened.                     *)
Opening ==
    /\ owed # 0 /\ remaining = 0 /\ realized = gain /\ (option \/ owed > 0) /\ OfSign(Basis!Sign(owed))
    /\ lots # <<>> /\ Piece(lots[Len(lots)]) = [sign |-> Basis!Sign(owed), price |-> price]
    /\ \E e : Fits(lots, shares, e, Basis!Abs(owed)) /\ e[0] = 0

(* It has nothing, and is told to sell.                                    *)
Refusing == owed < 0 /\ remaining = 0 /\ realized = gain /\ ~option /\ lots = <<>> /\ shares = <<>>

FifoInv == odd \/ (FifoTyped /\ (Level \/ (\E m \in Nat : Closing(m)) \/ Opening \/ Refusing))

(* The actions of the cost basis, one by one.                              *)
LEMMA SignedWhole ==
    ASSUME FifoTyped, NEW t \in Basis!Record
    PROVE  Basis!Signed(t) \in Int /\ t.price \in Int
<1>1. t.quantity \in Int /\ t.price \in Int
  BY FifoAssumption DEF Basis!Record
<1>2. t.quantity * Multiplier \in Int /\ t.quantity * 1 \in Int
  BY <1>1, FifoAssumption
<1> QED  BY <1>1, <1>2 DEF Basis!Signed, Basis!Abs

LEMMA TakeKeepsFifo ==
    ASSUME FifoInv, NEW t \in Basis!Record, NEW double \in BOOLEAN, Basis!Take(t, double)
    PROVE  FifoInv'
<1> SUFFICES ASSUME ~odd' PROVE FifoInv'
  BY DEF FifoInv
<1>1. ~odd /\ ~double /\ ~(t.price <= 0)
  BY DEF Basis!Take
<1>2. FifoTyped /\ Level
  BY <1>1 DEF FifoInv, Closing, Opening, Refusing, Basis!Take
<1>3. UNCHANGED <<option, lots, realized, shares, gain>> /\ price' = t.price
  BY DEF Basis!Take
<1>4. remaining' = owed' /\ (owed' = 0 \/ owed' = Basis!Signed(t))
  BY <1>1 DEF Basis!Take
<1>5. FifoTyped'
  BY <1>2, <1>3, <1>4, SignedWhole DEF FifoTyped
<1>6. Level'
  <2>1. \E z \in {-1, 1} : OfSign(z)'
    BY <1>2, <1>3 DEF Level, OfSign
  <2>2. (\E e : Fits(lots, shares, e, 0) /\ e[0] = 0)'
    BY <1>2, <1>3 DEF Level
  <2>3. (owed = remaining /\ realized = gain)'
    BY <1>2, <1>3, <1>4 DEF Level
  <2> QED  BY <2>1, <2>2, <2>3 DEF Level
<1> QED  BY <1>5, <1>6 DEF FifoInv

(* A program step begins when the holding is level.                        *)
LEMMA LevelAtAStep ==
    ASSUME FifoInv, ~odd, remaining # 0, owed = remaining
    PROVE  FifoTyped /\ Level
<1>1. ~Opening /\ ~Refusing
  BY DEF Opening, Refusing
<1>2. ASSUME NEW m \in Nat, Closing(m), FifoTyped PROVE FALSE
  <2>1. owed = owed + m * Basis!Sign(owed) /\ m > 0
    BY <1>2 DEF Closing
  <2>2. m * Basis!Sign(owed) \in {m, -m}
    BY DEF Basis!Sign
  <2> QED  BY <1>2, <2>1, <2>2 DEF FifoTyped
<1> QED  BY <1>1, <1>2 DEF FifoInv

LEMMA CloseKeepsFifo ==
    ASSUME FifoInv, Basis!Close
    PROVE  FifoInv'
<1> SUFFICES ASSUME ~odd' PROVE FifoInv'
  BY DEF FifoInv
<1>a. PICK lot : lot = lots[1]
  OBVIOUS
<1>b. PICK n : n = Basis!Least(Basis!Abs(remaining), Basis!Abs(lot.quantity))
  OBVIOUS
<1>c. PICK s : s = Basis!Sign(owed)
  OBVIOUS
<1>1. ~odd /\ remaining # 0 /\ owed = remaining /\ lots # <<>> /\ Basis!Sign(lot.quantity) # Basis!Sign(remaining)
  BY <1>a DEF Basis!Close, Basis!Closes, Basis!Oldest, Basis!record
<1>2. FifoTyped /\ Level
  BY <1>1, LevelAtAStep
<1>3. UNCHANGED <<owed, shares, gain, option, price>>
  BY DEF Basis!Close, Basis!holding, Basis!record
<1>4. /\ realized' = realized + n * Basis!Sign(lot.quantity) * (price - lot.price)
      /\ remaining' = remaining - n * Basis!Sign(remaining)
      /\ lots' = IF n = Basis!Abs(lot.quantity) THEN Basis!RemoveAt(lots, 1)
                 ELSE [lots EXCEPT ![1].quantity = @ - n * Basis!Sign(@)]
  BY <1>a, <1>b DEF Basis!Close, Basis!Oldest
<1>5. Len(lots) \in Nat \ {0} /\ lot \in LotType /\ lot.quantity \in Int /\ lot.price \in Int
  <2>1. Len(lots) \in Nat \ {0} /\ lot \in LotType
    BY <1>a, <1>1, <1>2 DEF FifoTyped
  <2> QED  BY <2>1 DEF LotType
<1>6. PICK z \in {-1, 1} : OfSign(z)
  BY <1>2 DEF Level
<1>7. lot.quantity # 0 /\ Basis!Sign(lot.quantity) = z /\ s = -z /\ Basis!Sign(remaining) = s /\ s \in {-1, 1}
  BY <1>a, <1>c, <1>1, <1>5, <1>6 DEF OfSign, Basis!Sign
<1>8. n \in Nat /\ 0 < n /\ n <= Basis!Abs(remaining) /\ n <= Basis!Abs(lot.quantity)
  BY <1>b, <1>1, <1>2, <1>5, <1>7 DEF FifoTyped, Basis!Least, Basis!Abs
<1>9. PICK e : Fits(lots, shares, e, 0) /\ e[0] = 0
  BY <1>2 DEF Level
<1>10. remaining' \in Int /\ owed = remaining' + n * s /\ (remaining' = 0 \/ Basis!Sign(remaining') = s)
  BY <1>1, <1>2, <1>4, <1>7, <1>8 DEF FifoTyped, Basis!Sign, Basis!Abs
<1>11. realized' = gain + n * (z * (price - lot.price)) /\ realized' \in Int
  <2>1. realized = gain /\ realized \in Int /\ price \in Int
    BY <1>2 DEF Level, FifoTyped
  <2>2. z * (price - lot.price) \in Int /\ n * z * (price - lot.price) = n * (z * (price - lot.price))
    BY <1>5, <1>6, <1>8, <2>1
  <2>3. n * (z * (price - lot.price)) \in Int
    BY <1>8, <2>2
  <2> QED  BY <1>4, <1>7, <2>1, <2>2, <2>3
<1>12. /\ lots' \in Seq(LotType)
       /\ \A j \in 1 .. Len(lots') : lots'[j].quantity # 0 /\ Basis!Sign(lots'[j].quantity) = z
       /\ \E f : Fits(lots', shares, f, 0) /\ f[0] = n
       /\ n <= Len(shares) /\ \A i \in 1 .. Len(shares) : i <= n => shares[i] = Piece(lot)
  <2>1. CASE n = Basis!Abs(lot.quantity)
    <3>1. lots' = Tail(lots)
      <4>1. lots \in Seq(LotType) /\ lots # <<>>
        BY <1>1, <1>2 DEF FifoTyped
      <4>2. Basis!RemoveAt(lots, 1) = Tail(lots)
        BY <4>1 DEF Basis!RemoveAt
      <4> QED  BY <1>4, <2>1, <4>2
    <3>2. /\ Tail(lots) \in Seq(LotType) /\ Len(Tail(lots)) = Len(lots) - 1
          /\ \A j \in 1 .. Len(lots) - 1 : Tail(lots)[j] = lots[j + 1]
      BY <1>1, <1>2 DEF FifoTyped
    <3>3. \A j \in 1 .. Len(lots) - 1 : j + 1 \in 1 .. Len(lots)
      BY <1>5
    <3>4. LET f == [j \in 0 .. Len(lots) - 1 |-> e[j + 1]]
          IN  /\ Fits(Tail(lots), shares, f, 0) /\ f[0] = Basis!Abs(lot.quantity) /\ f[0] <= Len(shares)
              /\ \A i \in 1 .. Len(shares) : i <= f[0] => shares[i] = Piece(lot)
      BY <1>a, <1>1, <1>2, <1>9, LotIsClosed DEF FifoTyped
    <3>5. \A j \in 1 .. Len(Tail(lots)) : Tail(lots)[j].quantity # 0 /\ Basis!Sign(Tail(lots)[j].quantity) = z
      BY <1>6, <3>2, <3>3 DEF OfSign
    <3> QED  BY <2>1, <3>1, <3>2, <3>4, <3>5
  <2>2. CASE n # Basis!Abs(lot.quantity)
    <3> DEFINE rest == [lot EXCEPT !.quantity = @ - n * Basis!Sign(@)]
               ls2 == [lots EXCEPT ![1] = rest]
    <3>1. lots' = ls2
      BY <1>a, <1>4, <2>2
    <3>2. n < Basis!Abs(lot.quantity)
      BY <1>5, <1>8, <2>2 DEF Basis!Abs
    <3>3. rest = [quantity |-> lot.quantity - n * z, price |-> lot.price]
      BY <1>5, <1>7 DEF LotType
    <3>4. lot.quantity - n * z \in Int /\ lot.quantity - n * z # 0 /\ Basis!Sign(lot.quantity - n * z) = z
          /\ Basis!Abs(lot.quantity - n * z) = Basis!Abs(lot.quantity) - n
      BY <1>5, <1>6, <1>7, <1>8, <3>2 DEF Basis!Abs, Basis!Sign
    <3>5. /\ rest \in LotType /\ Piece(rest) = Piece(lot) /\ Basis!Abs(rest.quantity) = Basis!Abs(lot.quantity) - n
          /\ rest.quantity # 0 /\ Basis!Sign(rest.quantity) = z
      BY <1>5, <1>7, <3>3, <3>4 DEF LotType, Piece
    <3> HIDE DEF rest
    <3>6. ls2 \in Seq(LotType) /\ Len(ls2) = Len(lots) /\ ls2[1] = rest /\ \A j \in 2 .. Len(lots) : ls2[j] = lots[j]
      BY <1>2, <1>5, <3>5 DEF FifoTyped
    <3> HIDE DEF ls2
    <3>7. LET f == [e EXCEPT ![0] = n]
          IN  /\ Fits(ls2, shares, f, 0) /\ f[0] = n /\ n <= Len(shares)
              /\ \A i \in 1 .. Len(shares) : i <= n => shares[i] = Piece(lot)
      <4>1. lots \in Seq(LotType) /\ shares \in Seq(ShareType)
        BY <1>2 DEF FifoTyped
      <4>2. lots # <<>> /\ n < Basis!Abs(lots[1].quantity) /\ Piece(ls2[1]) = Piece(lots[1])
            /\ Basis!Abs(ls2[1].quantity) = Basis!Abs(lots[1].quantity) - n
        BY <1>a, <1>1, <3>2, <3>5, <3>6
      <4> QED  BY <1>a, <1>8, <1>9, <3>6, <4>1, <4>2, LotIsReduced
    <3>8. ASSUME NEW j \in 1 .. Len(ls2) PROVE ls2[j].quantity # 0 /\ Basis!Sign(ls2[j].quantity) = z
      <4>1. CASE j = 1
        BY <3>5, <3>6, <4>1
      <4>2. CASE j # 1
        BY <1>5, <1>6, <3>6, <4>2 DEF OfSign
      <4> QED  BY <4>1, <4>2
    <3> QED  BY <3>1, <3>6, <3>7, <3>8
  <2> QED  BY <2>1, <2>2
<1>13. FifoTyped'
  BY <1>2, <1>3, <1>10, <1>11, <1>12 DEF FifoTyped
<1>14. OfSign(-s)'
  <2>1. -s = z /\ (option \/ z = 1) /\ \A i \in 1 .. Len(shares) : shares[i].sign = z
    BY <1>6, <1>7 DEF OfSign
  <2> QED  BY <1>3, <1>12, <2>1 DEF OfSign
<1>15. \A i \in 1 .. Len(shares) : i <= n => shares[i].price = lot.price
  BY <1>12 DEF Piece
<1>16. Closing(n)'
  <2>1. Basis!Sign(owed') = s /\ owed' # 0 /\ owed' = remaining' + n * s
    BY <1>c, <1>1, <1>3, <1>10
  <2>2. -s = z
    BY <1>6, <1>7
  <2>6. realized' = gain' + n * (-s * (price' - lot.price))
    <3>1. z * (price - lot.price) = -s * (price - lot.price)
      <4>1. price - lot.price \in Int
        BY <1>2, <1>5 DEF FifoTyped
      <4> QED  BY <1>7, <4>1
    <3> QED  BY <1>3, <1>11, <3>1
  <2>3. \E p \in Int :
            /\ \A i \in 1 .. Len(shares') : i <= n => shares'[i].price = p
            /\ realized' = gain' + n * (-s * (price' - p))
    BY <1>3, <1>5, <1>15, <2>6
  <2>4. \E f : Fits(lots, shares, f, 0)' /\ f[0] = n
    BY <1>3, <1>12
  <2>5. 0 < n /\ n <= Len(shares')
    BY <1>3, <1>8, <1>12
  <2> QED
    BY <1>10, <1>14, <2>1, <2>3, <2>4, <2>5 DEF Closing
<1> QED  BY <1>8, <1>13, <1>16 DEF FifoInv

LEMMA OpenKeepsFifo ==
    ASSUME FifoInv, Basis!Open
    PROVE  FifoInv'
<1> SUFFICES ASSUME ~odd' PROVE FifoInv'
  BY DEF FifoInv
<1>c. PICK s : s = Basis!Sign(owed)
  OBVIOUS
<1>1. ~odd /\ remaining # 0 /\ owed = remaining /\ remaining' = 0
      /\ (lots = <<>> \/ Basis!Sign(lots[1].quantity) = s)
  BY <1>c DEF Basis!Open, Basis!Closes, Basis!Oldest, Basis!record
<1>2. FifoTyped /\ Level
  BY <1>1, LevelAtAStep
<1>3. UNCHANGED <<owed, shares, gain, realized, option, price>>
  BY DEF Basis!Open, Basis!holding, Basis!record
<1>4. s \in {-1, 1} /\ Basis!Sign(remaining) = s /\ Basis!Abs(remaining) = Basis!Abs(owed)
  BY <1>c, <1>1 DEF Basis!Sign
<1>5. PICK z \in {-1, 1} : OfSign(z)
  BY <1>2 DEF Level
<1>6. PICK e : Fits(lots, shares, e, 0) /\ e[0] = 0
  BY <1>2 DEF Level
<1>7. Len(lots) \in Nat /\ Len(shares) \in Nat
  BY <1>2 DEF FifoTyped
<1>8. lots = <<>> => shares = <<>>
  BY <1>2, <1>6, <1>7 DEF Fits, FifoTyped
<1>9. CASE option \/ remaining > 0
  <2> DEFINE lot == [quantity |-> remaining, price |-> price]
             ls2 == Append(lots, lot)
  <2>1. lots' = ls2
    BY <1>9 DEF Basis!Open
  <2>2. lot \in LotType /\ lot.quantity = remaining /\ lot.price = price /\ lots \in Seq(LotType) /\ shares \in Seq(ShareType)
    BY <1>2 DEF LotType, FifoTyped
  <2>3. LET f == [j \in 0 .. Len(lots) + 1 |-> IF j = Len(lots) + 1 THEN e[Len(lots)] + Basis!Abs(lot.quantity) ELSE e[j]]
        IN  Fits(ls2, shares, f, Basis!Abs(lot.quantity)) /\ f[0] = e[0]
    BY <1>6, <2>2, LotIsOpened
  <2>4. \E f : Fits(ls2, shares, f, Basis!Abs(owed)) /\ f[0] = 0
    BY <1>1, <1>6, <2>2, <2>3
  <2> HIDE DEF lot
  <2>5. ls2 \in Seq(LotType) /\ Len(ls2) = Len(lots) + 1 /\ ls2[Len(lots) + 1] = lot /\ \A j \in 1 .. Len(lots) : ls2[j] = lots[j]
    BY <1>7, <2>2
  <2> HIDE DEF ls2
  <2>6. lots # <<>> => z = s
    BY <1>1, <1>5, <1>7, <2>2 DEF OfSign
  <2>7. \A j \in 1 .. Len(ls2) : ls2[j].quantity # 0 /\ Basis!Sign(ls2[j].quantity) = s
    <3> SUFFICES ASSUME NEW j \in 1 .. Len(ls2) PROVE ls2[j].quantity # 0 /\ Basis!Sign(ls2[j].quantity) = s
      OBVIOUS
    <3>1. CASE j = Len(lots) + 1
      BY <1>1, <1>4, <2>2, <2>5, <3>1
    <3>2. CASE j # Len(lots) + 1
      <4>1. j \in 1 .. Len(lots) /\ lots # <<>>
        BY <1>7, <2>2, <2>5, <3>2
      <4> QED  BY <1>5, <2>5, <2>6, <4>1 DEF OfSign
    <3> QED  BY <3>1, <3>2
  <2>8. \A i \in 1 .. Len(shares) : shares[i].sign = s
    <3>1. CASE lots = <<>>
      BY <1>8, <3>1
    <3>2. CASE lots # <<>>
      BY <1>5, <2>6, <3>2 DEF OfSign
    <3> QED  BY <3>1, <3>2
  <2>9. option \/ s = 1
    <3>1. owed \in Int
      BY <1>2 DEF FifoTyped
    <3> QED  BY <1>1, <1>9, <1>c, <3>1 DEF Basis!Sign
  <2>10. OfSign(s)'
    BY <1>3, <1>4, <2>1, <2>7, <2>8, <2>9 DEF OfSign
  <2>11. Piece(lot) = [sign |-> s, price |-> price]
    BY <1>4, <2>2 DEF Piece
  <2>12. ls2 # <<>> /\ Piece(ls2[Len(ls2)]) = [sign |-> s, price |-> price]
    BY <1>7, <2>5, <2>11
  <2>13. Opening'
    <3>1. owed' # 0 /\ remaining' = 0 /\ realized' = gain' /\ (option' \/ owed' > 0) /\ Basis!Sign(owed') = s
      BY <1>1, <1>2, <1>3, <1>9, <1>c DEF Level
    <3>2. lots' # <<>> /\ Piece(lots'[Len(lots')]) = [sign |-> s, price |-> price']
      BY <1>3, <2>1, <2>12
    <3>3. \E f : Fits(lots, shares, f, Basis!Abs(owed))' /\ f[0] = 0
      BY <1>3, <2>1, <2>4
    <3> QED  BY <2>10, <3>1, <3>2, <3>3 DEF Opening
  <2>14. FifoTyped'
    BY <1>1, <1>2, <1>3, <2>1, <2>5 DEF FifoTyped
  <2> QED  BY <2>13, <2>14 DEF FifoInv
<1>10. CASE ~(option \/ remaining > 0)
  <2>1. lots' = lots /\ s = -1 /\ owed < 0 /\ ~option
    BY <1>1, <1>2, <1>c, <1>10 DEF Basis!Open, FifoTyped, Basis!Sign
  <2>2. lots = <<>>
    <3> SUFFICES ASSUME lots # <<>> PROVE FALSE
      OBVIOUS
    <3>1. 1 \in 1 .. Len(lots)
      BY <1>2, <1>7 DEF FifoTyped
    <3> QED  BY <1>1, <1>5, <2>1, <3>1 DEF OfSign
  <2>3. Refusing'
    BY <1>1, <1>2, <1>3, <1>8, <2>1, <2>2 DEF Refusing, Level
  <2>4. FifoTyped'
    BY <1>1, <1>2, <1>3, <2>1 DEF FifoTyped
  <2> QED  BY <2>3, <2>4 DEF FifoInv
<1> QED  BY <1>9, <1>10

LEMMA ShareKeepsFifo ==
    ASSUME FifoInv, Basis!TradeShare
    PROVE  FifoInv'
<1> SUFFICES ASSUME ~odd' PROVE FifoInv'
  BY DEF FifoInv
<1>c. PICK s : s = Basis!Sign(owed)
  OBVIOUS
<1>1. ~odd /\ owed # remaining /\ owed' = owed - s
  BY <1>c DEF Basis!TradeShare, Basis!record
<1>2. UNCHANGED <<lots, realized, remaining, option, price>>
  BY DEF Basis!TradeShare, Basis!loop, Basis!record
<1>3. IF shares # <<>> /\ Head(shares).sign # s
      THEN shares' = Tail(shares) /\ gain' = gain + Head(shares).sign * (price - Head(shares).price)
      ELSE /\ shares' = IF option \/ owed > 0 THEN Append(shares, [sign |-> s, price |-> price]) ELSE shares
           /\ gain' = gain
  BY <1>c DEF Basis!TradeShare
<1>4. FifoTyped /\ ((\E m \in Nat : Closing(m)) \/ Opening \/ Refusing)
  BY <1>1 DEF FifoInv, Level
<1>5. s \in {-1, 1} /\ lots \in Seq(LotType) /\ shares \in Seq(ShareType) /\ Len(shares) \in Nat
  BY <1>c, <1>4 DEF Basis!Sign, FifoTyped
<1>6. ASSUME NEW m \in Nat, Closing(m) PROVE FifoInv'
  <2>1. 0 < m /\ m <= Len(shares) /\ OfSign(-s) /\ owed = remaining + m * s /\ (remaining = 0 \/ Basis!Sign(remaining) = s)
    BY <1>c, <1>6 DEF Closing
  <2>2. PICK e : Fits(lots, shares, e, 0) /\ e[0] = m
    BY <1>6 DEF Closing
  <2>3. PICK p \in Int :
            /\ \A i \in 1 .. Len(shares) : i <= m => shares[i].price = p
            /\ realized = gain + m * (-s * (price - p))
    BY <1>c, <1>6 DEF Closing
  <2>4. shares # <<>> /\ 1 \in 1 .. Len(shares) /\ Head(shares) = shares[1]
    BY <1>5, <2>1
  <2>5. Head(shares).sign = -s /\ Head(shares).price = p
    BY <2>1, <2>3, <2>4 DEF OfSign
  <2>6. shares' = Tail(shares) /\ gain' = gain + (-s) * (price - p)
    BY <1>3, <1>5, <2>4, <2>5
  <2>7. /\ shares' \in Seq(ShareType) /\ Len(shares') = Len(shares) - 1
        /\ \A i \in 1 .. Len(shares) - 1 : i + 1 \in 1 .. Len(shares) /\ shares'[i] = shares[i + 1]
    BY <1>5, <2>4, <2>6
  <2>8. price \in Int /\ gain \in Int /\ owed \in Int /\ remaining \in Int /\ realized \in Int
    BY <1>4 DEF FifoTyped
  <2>9. PICK d \in Int : d = -s * (price - p)
    BY <1>5, <2>8
  <2>10. gain' \in Int /\ realized = gain' + (m - 1) * d
    <3>1. gain' = gain + d /\ realized = gain + m * d
      <4>1. (-s) * (price - p) = -s * (price - p)
        BY <1>5, <2>8
      <4> QED  BY <2>3, <2>6, <2>9, <4>1
    <3>2. (m - 1) * d = m * d - d /\ m * d \in Int /\ (m - 1) * d \in Int
      OBVIOUS
    <3> QED  BY <2>8, <3>1, <3>2
  <2>11. FifoTyped'
    BY <1>1, <1>2, <1>4, <1>5, <2>7, <2>8, <2>10 DEF FifoTyped
  <2>12. LET f == [j \in 0 .. Len(lots) |-> e[j] - 1] IN Fits(lots, Tail(shares), f, 0) /\ f[0] = e[0] - 1
    BY <1>5, <2>2, <2>4, ShareIsClosed
  <2>13. \E f : Fits(lots, shares, f, 0)' /\ f[0] = m - 1
    BY <1>2, <2>2, <2>6, <2>12
  <2>14. OfSign(-s)'
    BY <1>2, <2>1, <2>7 DEF OfSign
  <2>15. owed' = remaining' + (m - 1) * s
    <3>1. (m - 1) * s = m * s - s /\ m * s \in Int
      BY <1>5
    <3> QED  BY <1>1, <1>2, <1>5, <2>1, <2>8, <3>1
  <2>16. CASE m = 1
    <3>1. Level'
      <4>1. owed' = remaining' /\ realized' = gain'
        <5>1. (m - 1) * s = 0 /\ (m - 1) * d = 0
          BY <1>5, <2>16
        <5>2. owed' = remaining' + 0 /\ realized = gain' + 0
          BY <2>10, <2>15, <5>1
        <5>3. remaining' = remaining /\ realized' = realized
          BY <1>2
        <5>4. gain' \in Int
          BY <2>10
        <5>5. owed' = remaining'
          BY <2>8, <5>2, <5>3
        <5>6. realized' = gain'
          <6>1. gain' + 0 = gain'
            <7>1. \A g \in Int : g + 0 = g
              OBVIOUS
            <7> QED  BY <5>4, <7>1, Zenon
          <6> QED  BY <5>2, <5>3, <6>1, Zenon
        <5> QED  BY <5>5, <5>6
      <4>2. -s \in {-1, 1}
        BY <1>5
      <4> QED  BY <2>13, <2>14, <2>16, <4>1, <4>2 DEF Level
    <3> QED  BY <2>11, <3>1 DEF FifoInv
  <2>17. CASE m # 1
    <3>1. m - 1 \in Nat /\ 0 < m - 1 /\ m - 1 <= Len(shares')
      BY <1>5, <2>1, <2>7, <2>17
    <3>2. owed' # 0 /\ Basis!Sign(owed') = s
      <4>1. owed' = remaining + (m - 1) \/ owed' = remaining - (m - 1)
        BY <1>2, <1>5, <2>8, <2>15, <3>1
      <4>2. s = 1 => owed' = remaining + (m - 1)
        BY <1>2, <2>8, <2>15, <3>1
      <4>3. s = -1 => owed' = remaining - (m - 1)
        BY <1>2, <2>8, <2>15, <3>1
      <4> QED  BY <1>5, <2>1, <2>8, <3>1, <4>2, <4>3 DEF Basis!Sign
    <3>3. \A i \in 1 .. Len(shares') : i <= m - 1 => shares'[i].price = p
      BY <1>5, <2>3, <2>7
    <3>4. realized' = gain' + (m - 1) * (-s * (price' - p))
      BY <1>2, <2>9, <2>10
    <3>5. Closing(m - 1)'
      BY <1>2, <2>1, <2>13, <2>14, <2>15, <3>1, <3>2, <3>3, <3>4 DEF Closing
    <3> QED  BY <2>11, <3>1, <3>5 DEF FifoInv
  <2> QED  BY <2>16, <2>17
<1>7. CASE Opening
  <2>1. owed # 0 /\ remaining = 0 /\ realized = gain /\ (option \/ owed > 0) /\ OfSign(s) /\ owed \in Int
    BY <1>4, <1>7, <1>c DEF Opening, FifoTyped
  <2>2. lots # <<>> /\ Piece(lots[Len(lots)]) = [sign |-> s, price |-> price]
    BY <1>7, <1>c DEF Opening
  <2>3. PICK e : Fits(lots, shares, e, Basis!Abs(owed)) /\ e[0] = 0
    BY <1>7 DEF Opening
  <2> DEFINE piece == [sign |-> s, price |-> price]
  <2>4. ~(shares # <<>> /\ Head(shares).sign # s)
    BY <1>5, <2>1 DEF OfSign
  <2>5. shares' = Append(shares, piece) /\ gain' = gain
    BY <1>3, <2>1, <2>4
  <2>6. piece \in ShareType /\ piece.sign = s
    BY <1>4, <1>5 DEF FifoTyped, ShareType
  <2>7. Basis!Abs(owed) \in Nat /\ 0 < Basis!Abs(owed) /\ Basis!Abs(owed') = Basis!Abs(owed) - 1
    BY <1>1, <1>c, <2>1 DEF Basis!Abs, Basis!Sign
  <2>8. Fits(lots, Append(shares, piece), e, Basis!Abs(owed) - 1)
    BY <1>5, <2>2, <2>3, <2>7, ShareIsHeld
  <2> HIDE DEF piece
  <2>9. /\ shares' \in Seq(ShareType) /\ Len(shares') = Len(shares) + 1 /\ shares'[Len(shares) + 1] = piece
        /\ \A i \in 1 .. Len(shares) : shares'[i] = shares[i]
    BY <1>5, <2>5, <2>6
  <2>10. \A i \in 1 .. Len(shares') : shares'[i].sign = s
    <3> SUFFICES ASSUME NEW i \in 1 .. Len(shares') PROVE shares'[i].sign = s
      OBVIOUS
    <3>1. CASE i = Len(shares) + 1
      BY <2>6, <2>9, <3>1
    <3>2. CASE i # Len(shares) + 1
      BY <1>5, <2>1, <2>9, <3>2 DEF OfSign
    <3> QED  BY <3>1, <3>2
  <2>11. OfSign(s)'
    BY <1>2, <2>1, <2>10 DEF OfSign
  <2>12. FifoTyped'
    BY <1>1, <1>2, <1>4, <1>5, <2>5, <2>9 DEF FifoTyped
  <2>13. \E f : Fits(lots, shares, f, Basis!Abs(owed))' /\ f[0] = 0
    BY <1>2, <2>3, <2>5, <2>7, <2>8
  <2>14. CASE owed' = 0
    <3>1. Basis!Abs(owed') = 0
      BY <2>14 DEF Basis!Abs
    <3>2. Level'
      BY <1>2, <1>5, <2>1, <2>5, <2>11, <2>13, <2>14, <3>1 DEF Level
    <3> QED  BY <2>12, <3>2 DEF FifoInv
  <2>15. CASE owed' # 0
    <3>1. Basis!Sign(owed') = s /\ (option' \/ owed' > 0)
      BY <1>1, <1>2, <1>c, <2>1, <2>15 DEF Basis!Sign
    <3>2. Opening'
      BY <1>2, <2>1, <2>2, <2>5, <2>11, <2>13, <2>15, <3>1 DEF Opening
    <3> QED  BY <2>12, <3>2 DEF FifoInv
  <2> QED  BY <2>14, <2>15
<1>8. CASE Refusing
  <2>1. shares' = shares /\ gain' = gain /\ owed < 0 /\ remaining = 0 /\ realized = gain /\ ~option /\ lots = <<>> /\ shares = <<>>
    BY <1>3, <1>4, <1>8 DEF Refusing, FifoTyped
  <2>2. FifoTyped'
    BY <1>1, <1>2, <1>4, <1>5, <2>1 DEF FifoTyped
  <2>3. s = -1 /\ owed \in Int
    BY <1>4, <1>c, <2>1 DEF Basis!Sign, FifoTyped
  <2>4. CASE owed' = 0
    <3> DEFINE e == [j \in 0 .. 0 |-> 0]
    <3>1. Fits(<<>>, <<>>, e, 0) /\ e[0] = 0
      BY DEF Fits, EndsOf
    <3>2. OfSign(1)'
      BY <1>2, <2>1 DEF OfSign
    <3>3. Level'
      BY <1>2, <2>1, <2>4, <3>1, <3>2 DEF Level
    <3> QED  BY <2>2, <3>3 DEF FifoInv
  <2>5. CASE owed' # 0
    <3>1. Refusing'
      BY <1>1, <1>2, <2>1, <2>3, <2>5 DEF Refusing
    <3> QED  BY <2>2, <3>1 DEF FifoInv
  <2> QED  BY <2>4, <2>5
<1> QED  BY <1>4, <1>6, <1>7, <1>8

Costing == part = "fifo" => FifoInv

(* The invariant holds at the start, and while other parts of the run move. *)
LEMMA FifoBegins == Basis!Init => FifoInv
<1> SUFFICES ASSUME Basis!Init PROVE FifoInv
  OBVIOUS
<1> DEFINE e == [j \in 0 .. 0 |-> 0]
<1>1. lots = <<>> /\ shares = <<>> /\ owed = 0 /\ remaining = 0 /\ realized = 0 /\ gain = 0 /\ price = 0 /\ option \in BOOLEAN
  BY DEF Basis!Init
<1>2. Fits(<<>>, <<>>, e, 0) /\ e[0] = 0
  BY DEF Fits, EndsOf
<1>3. OfSign(1)
  BY <1>1 DEF OfSign
<1>4. Level
  BY <1>1, <1>2, <1>3 DEF Level
<1> QED  BY <1>1, <1>4 DEF FifoInv, FifoTyped

LEMMA FifoIsKept == MCSpec => []Costing
<1>1. MCInit => Costing
  BY FifoBegins DEF MCInit, Costing
<1>2. ASSUME Costing, [MCNext]_all PROVE Costing'
  <2>1. CASE FifoStep
    <3>1. FifoInv /\ Basis!Next
      BY <1>2, <2>1 DEF Costing, FifoStep
    <3>2. FifoInv'
      BY <3>1, TakeKeepsFifo, CloseKeepsFifo, OpenKeepsFifo, ShareKeepsFifo DEF Basis!Next
    <3> QED  BY <3>2 DEF Costing
  <2>2. CASE ImportStep \/ UniverseStep \/ WatchStep \/ LedgerStep
    BY <2>2 DEF ImportStep, UniverseStep, WatchStep, LedgerStep, Costing
  <2>3. CASE UNCHANGED all
    <3>1. UNCHANGED <<part, option, lots, realized, remaining, price, owed, shares, gain, odd>>
      BY <2>3 DEF all, fifo
    <3> QED  BY <1>2, <3>1 DEF Costing, FifoInv, FifoTyped, Level, Closing, Opening, Refusing, OfSign
  <2> QED  BY <1>2, <2>1, <2>2, <2>3 DEF MCNext
<1> QED  BY <1>1, <1>2, PTL DEF MCSpec

(* Fifo: between two trades the lots are the shares that are held, oldest  *)
(* first, and the realized result is what the closed shares earned,        *)
(* however many trades close, split, open or turn positions                *)
(* (fifo.py:48-111).                                                       *)
THEOREM LotsAreAlwaysTheHolding == MCSpec => []LotsAreTheHolding
<1>1. Costing => LotsAreTheHolding
  <2> SUFFICES ASSUME FifoInv, remaining = 0, owed = 0, ~odd
               PROVE  /\ realized = gain
                      /\ Len(shares) = Basis!UpTo(lots)[Len(lots)]
                      /\ \A j \in 1 .. Len(lots) : \A i \in Basis!UpTo(lots)[j - 1] + 1 .. Basis!UpTo(lots)[j] :
                            shares[i] = [sign |-> Basis!Sign(lots[j].quantity), price |-> lots[j].price]
    BY DEF LotsAreTheHolding, Basis!LotsAreTheHolding, Costing
  <2>1. FifoTyped /\ Level
    BY DEF FifoInv, Closing, Opening, Refusing
  <2>2. PICK e : Fits(lots, shares, e, 0) /\ e[0] = 0
    BY <2>1 DEF Level
  <2>3. lots \in Seq(LotType) /\ Len(lots) \in Nat /\ Len(shares) \in Nat /\ realized = gain
    BY <2>1 DEF FifoTyped, Level
  <2>4. \A j \in 0 .. Len(lots) : e[j] = Basis!UpTo(lots)[j]
    BY <2>2, <2>3, EndsAreUpTo DEF Fits
  <2>5. Len(shares) = Basis!UpTo(lots)[Len(lots)]
    BY <2>2, <2>3, <2>4 DEF Fits
  <2>6. \A j \in 0 .. Len(lots) : e[j] \in Nat /\ e[j] <= Len(shares)
    BY <2>2, <2>3, <2>4, UpToEnds DEF Fits
  <2>7. ASSUME NEW j \in 1 .. Len(lots), NEW i \in Basis!UpTo(lots)[j - 1] + 1 .. Basis!UpTo(lots)[j]
        PROVE  shares[i] = Piece(lots[j])
    <3>1. j \in 0 .. Len(lots) /\ j - 1 \in 0 .. Len(lots)
      BY <2>3
    <3>2. e[j - 1] \in Nat /\ e[j] \in Nat /\ e[j] <= Len(shares) /\ i \in e[j - 1] + 1 .. e[j]
      BY <2>4, <2>6, <2>7, <3>1
    <3>3. i \in 1 .. Len(shares) /\ e[j - 1] < i /\ i <= e[j]
      BY <2>3, <3>2
    <3> QED  BY <2>2, <3>3 DEF Fits
  <2> QED  BY <2>3, <2>5, <2>7 DEF Piece
<1> QED  BY <1>1, FifoIsKept, PTL

-----------------------------------------------------------------------------
(* The ledger: the days of a statement can be put in order.                *)
LEMMA SortedExists ==
    ASSUME NEW S \in SUBSET Nat, IsFiniteSet(S)
    PROVE  \E q \in [1 .. Cardinality(S) -> S] : \A i, j \in DOMAIN q : i < j => q[i] < q[j]
<1> DEFINE Sorts(q, R) == q \in [1 .. Cardinality(R) -> R] /\ \A i, j \in DOMAIN q : i < j => q[i] < q[j]
           Bad == {n \in Nat : \E R \in SUBSET Nat : IsFiniteSet(R) /\ Cardinality(R) = n /\ ~ \E q : Sorts(q, R)}
<1>1. Bad = {}
  <2> SUFFICES ASSUME Bad # {} PROVE FALSE
    OBVIOUS
  <2>1. PICK n \in Bad : \A m \in Bad : n <= m
    <3> HIDE DEF Bad
    <3>1. Bad \subseteq Nat
      BY DEF Bad
    <3> QED  BY <3>1, LeastNumber
  <2>2. PICK R \in SUBSET Nat : IsFiniteSet(R) /\ Cardinality(R) = n /\ ~ \E q : Sorts(q, R)
    OBVIOUS
  <2>3. R # {}
    <3> SUFFICES ASSUME R = {} PROVE FALSE
      OBVIOUS
    <3>1. Cardinality(R) = 0
      BY FS_EmptySet
    <3>2. Sorts(<<>>, R)
      BY <3>1
    <3> QED  BY <2>2, <3>2
  <2>4. PICK k \in R : \A j \in R : k <= j
    BY <2>3, LeastNumber
  <2>5. IsFiniteSet(R \ {k}) /\ Cardinality(R \ {k}) = n - 1
    BY <2>2, FS_RemoveElement
  <2>6. n \in Nat /\ n - 1 \in Nat
    BY <2>2, <2>5, FS_CardinalityType
  <2>7. n - 1 \notin Bad
    <3> HIDE DEF Bad
    <3> QED  BY <2>1, <2>6
  <2>8. PICK q : Sorts(q, R \ {k})
    BY <2>5, <2>6, <2>7
  <2> DEFINE p == [i \in 1 .. n |-> IF i = 1 THEN k ELSE q[i - 1]]
  <2>9. \A i \in 1 .. n : i # 1 => i - 1 \in 1 .. n - 1 /\ q[i - 1] \in R /\ k < q[i - 1]
    <3> SUFFICES ASSUME NEW i \in 1 .. n, i # 1 PROVE i - 1 \in 1 .. n - 1 /\ q[i - 1] \in R /\ k < q[i - 1]
      OBVIOUS
    <3>1. i - 1 \in 1 .. n - 1
      BY <2>6
    <3>2. q[i - 1] \in R \ {k}
      BY <2>5, <2>8, <3>1
    <3>3. k \in Nat /\ q[i - 1] \in Nat /\ k <= q[i - 1] /\ k # q[i - 1]
      BY <2>4, <3>2
    <3> QED  BY <3>1, <3>2, <3>3
  <2>10. p \in [1 .. n -> R]
    BY <2>9
  <2>11. ASSUME NEW i \in 1 .. n, NEW j \in 1 .. n, i < j PROVE p[i] < p[j]
    <3>1. j # 1 /\ p[j] = q[j - 1] /\ j - 1 \in 1 .. n - 1
      BY <2>6, <2>11
    <3>2. CASE i = 1
      BY <2>9, <3>1, <3>2
    <3>3. CASE i # 1
      <4>1. i - 1 \in 1 .. n - 1 /\ p[i] = q[i - 1] /\ i - 1 < j - 1
        BY <2>6, <2>11, <3>3
      <4>2. DOMAIN q = 1 .. n - 1
        BY <2>5, <2>8
      <4> QED  BY <2>8, <3>1, <4>1, <4>2
    <3> QED  BY <3>2, <3>3
  <2>12. Sorts(p, R)
    <3>1. DOMAIN p = 1 .. n
      OBVIOUS
    <3> HIDE DEF p
    <3> QED  BY <2>2, <2>10, <2>11, <3>1
  <2> QED  BY <2>2, <2>12
<1>2. Cardinality(S) \in Nat /\ Cardinality(S) \notin Bad
  BY <1>1, FS_CardinalityType
<1> QED  BY <1>2

(* Cardinality in the instance is that of the library.                      *)
LEMMA BooksCount == ASSUME NEW S PROVE Books!Cardinality(S) = Cardinality(S)
  BY DEF Books!Cardinality, Cardinality

(* The chosen order of days is one.                                         *)
LEMMA OrderedIsThere ==
    ASSUME NEW S \in SUBSET Nat, IsFiniteSet(S)
    PROVE  Books!Ordered(S) \in [1 .. Cardinality(S) -> S]
<1> DEFINE Sorts(q) == \A i, j \in DOMAIN q : i < j => q[i] < q[j]
           c == CHOOSE q \in [1 .. Cardinality(S) -> S] : Sorts(q)
<1>1. \E q \in [1 .. Cardinality(S) -> S] : Sorts(q)
  BY SortedExists
<1>2. c \in [1 .. Cardinality(S) -> S]
  <2> HIDE DEF Sorts
  <2> QED  BY <1>1
<1>3. c = Books!Ordered(S)
  BY BooksCount DEF Books!Ordered
<1> QED  BY <1>2, <1>3

(* A row of account_snapshots.                                              *)
SnapRow == [equity : Nat, estimate : BOOLEAN, options : Nat, ending : Nat, parts : Nat, inferred : BOOLEAN]

(* What a statement s of file f may write.                                 *)
WriteSet(s, f) ==
    {[table |-> "snapshots", day |-> s.day, row |-> r] : r \in Books!Snapshot(s, f)}
    \union {[table |-> "snapshots", day |-> d, row |-> Books!Summary(f)] : d \in s.covers \ {s.day}}
    \union {[table |-> "positions", day |-> s.day, row |-> f]}
    \union {[table |-> "trades", row |-> t] : t \in Books!TradesIn(s)}
    \union {[table |-> "flows", row |-> v] : v \in Books!FlowsIn(s)}

(* A statement has at most one row for its own day.                         *)
LEMMA RowsOfSnapshots ==
    ASSUME NEW s \in Books!Statement, NEW f \in Nat
    PROVE  /\ Books!Snapshot(s, f) \subseteq SnapRow /\ Books!Summary(f) \in SnapRow
           /\ \A r, q \in Books!Snapshot(s, f) : r = q
<1>1. s.csv \in BOOLEAN /\ s.holds \in BOOLEAN
  BY DEF Books!Statement
<1>2. Books!Summary(f) \in SnapRow
  BY DEF Books!Summary, Books!NoRow, SnapRow
<1>3. Books!Snapshot(s, f) \subseteq SnapRow
  <2> DEFINE valued == [Books!NoRow EXCEPT !.equity = f, !.ending = f]
  <2>1. \A n, m \in {0, f} : [Books!NoRow EXCEPT !.equity = f, !.options = f, !.ending = n, !.parts = m] \in SnapRow
    <3> TAKE n, m \in {0, f}
    <3>1. n \in Nat /\ m \in Nat
      OBVIOUS
    <3> QED  BY <3>1 DEF Books!NoRow, SnapRow
  <2>2. \A b \in BOOLEAN : [valued EXCEPT !.parts = f, !.inferred = b] \in SnapRow
    BY DEF Books!NoRow, SnapRow
  <2>3. valued \in SnapRow /\ [Books!NoRow EXCEPT !.equity = f, !.estimate = TRUE] \in SnapRow
    BY DEF Books!NoRow, SnapRow
  <2> SUFFICES ASSUME NEW r \in Books!Snapshot(s, f) PROVE r \in SnapRow
    OBVIOUS
  <2>4. PICK n \in {0, f}, m \in {0, f}, b \in BOOLEAN :
            r \in {[Books!NoRow EXCEPT !.equity = f, !.options = f, !.ending = n, !.parts = m],
                  [valued EXCEPT !.parts = f, !.inferred = b], valued,
                  [Books!NoRow EXCEPT !.equity = f, !.estimate = TRUE]}
    BY <1>1 DEF Books!Snapshot
  <2> QED  BY <2>1, <2>2, <2>3, <2>4
<1>4. \A r, q \in Books!Snapshot(s, f) : r = q
  BY <1>1 DEF Books!Snapshot
<1> QED  BY <1>2, <1>3, <1>4

(* What _write_results writes of a statement is of these writes.            *)
LEMMA TransactionsAreWrites ==
    ASSUME NEW s \in Books!Statement, IsFiniteSet(s.covers), NEW f \in Nat
    PROVE  Books!TransactionsOf(s, f) \in Seq(WriteSet(s, f))
<1> DEFINE W == WriteSet(s, f)
           others == s.covers \ {s.day}
           ordered == Books!Ordered(others)
           w1 == IF Books!Snapshot(s, f) = {} THEN <<>>
                 ELSE <<[table |-> "snapshots", day |-> s.day, row |-> CHOOSE r \in Books!Snapshot(s, f) : TRUE]>>
           w2 == IF s.holds THEN <<[table |-> "positions", day |-> s.day, row |-> f]>> ELSE <<>>
           w3 == [i \in DOMAIN s.trades |-> [table |-> "trades", row |-> s.trades[i]]]
           w4 == [i \in DOMAIN s.flows |-> [table |-> "flows", row |-> s.flows[i]]]
           w5 == [i \in DOMAIN ordered |-> [table |-> "snapshots", day |-> ordered[i], row |-> Books!Summary(f)]]
<1>1. Books!TransactionsOf(s, f) = w1 \o w2 \o w3 \o w4 \o w5
  BY DEF Books!TransactionsOf
<1>2. w1 \in Seq(W)
  <2>1. CASE Books!Snapshot(s, f) = {}
    BY <2>1
  <2>2. CASE Books!Snapshot(s, f) # {}
    <3> DEFINE r == CHOOSE r \in Books!Snapshot(s, f) : TRUE
               x == [table |-> "snapshots", day |-> s.day, row |-> r]
    <3>1. r \in Books!Snapshot(s, f)
      BY <2>2
    <3> HIDE DEF r
    <3>2. x \in W
      BY <3>1 DEF WriteSet
    <3>3. w1 = <<x>>
      BY <2>2 DEF r
    <3> HIDE DEF x, W, w1
    <3> QED  BY <3>2, <3>3
  <2> QED  BY <2>1, <2>2
<1>3. w2 \in Seq(W)
  <2> DEFINE x == [table |-> "positions", day |-> s.day, row |-> f]
  <2>1. x \in W
    BY DEF WriteSet
  <2>2. w2 = <<x>> \/ w2 = <<>>
    OBVIOUS
  <2> HIDE DEF x, W, w2
  <2>3. CASE w2 = <<x>>
    BY <2>1, <2>3
  <2>4. CASE w2 = <<>>
    BY <2>4
  <2> QED  BY <2>2, <2>3, <2>4
<1>4. w3 \in Seq(W)
  <2>1. s.trades \in Seq([day : Nat, id : Nat, fill : STRING, form : {"trade", "confirm"}, foreign : BOOLEAN])
    BY DEF Books!Statement
  <2>2. DOMAIN s.trades = 1 .. Len(s.trades) /\ Len(s.trades) \in Nat
    BY <2>1
  <2>3. \A i \in DOMAIN s.trades : w3[i] \in W
    <3> SUFFICES ASSUME NEW i \in DOMAIN s.trades PROVE w3[i] \in W
      OBVIOUS
    <3>1. s.trades[i] \in Books!TradesIn(s)
      BY DEF Books!TradesIn
    <3> QED  BY <3>1 DEF WriteSet
  <2>4. w3 \in [1 .. Len(s.trades) -> W]
    <3> HIDE DEF W
    <3> QED  BY <2>2, <2>3
  <2> HIDE DEF W, w3
  <2> QED  BY <2>2, <2>4
<1>5. w4 \in Seq(W)
  <2>1. s.flows \in Seq([id : Nat, flow : STRING])
    BY DEF Books!Statement
  <2>2. DOMAIN s.flows = 1 .. Len(s.flows) /\ Len(s.flows) \in Nat
    BY <2>1
  <2>3. \A i \in DOMAIN s.flows : w4[i] \in W
    <3> SUFFICES ASSUME NEW i \in DOMAIN s.flows PROVE w4[i] \in W
      OBVIOUS
    <3>1. s.flows[i] \in Books!FlowsIn(s)
      BY DEF Books!FlowsIn
    <3> QED  BY <3>1 DEF WriteSet
  <2>4. w4 \in [1 .. Len(s.flows) -> W]
    <3> HIDE DEF W
    <3> QED  BY <2>2, <2>3
  <2> HIDE DEF W, w4
  <2> QED  BY <2>2, <2>4
<1>6. w5 \in Seq(W)
  <2>1. s.covers \in SUBSET Nat
    BY DEF Books!Statement
  <2>2. others \in SUBSET Nat /\ IsFiniteSet(others)
    BY <2>1, FS_RemoveElement
  <2>3. Cardinality(others) \in Nat
    BY <2>2, FS_CardinalityType
  <2>5. ordered \in [1 .. Cardinality(others) -> others]
    <3> HIDE DEF others
    <3> QED  BY <2>2, OrderedIsThere
  <2> HIDE DEF ordered
  <2>6. \A i \in 1 .. Cardinality(others) : w5[i] \in W
    BY <2>5 DEF WriteSet
  <2>7. w5 \in [1 .. Cardinality(others) -> W]
    <3> HIDE DEF W, others
    <3> QED  BY <2>5, <2>6
  <2> HIDE DEF W, w5, others
  <2> QED  BY <2>3, <2>7
<1> HIDE DEF w1, w2, w3, w4, w5, W
<1>7. w1 \o w2 \in Seq(W)
  BY <1>2, <1>3
<1>8. w1 \o w2 \o w3 \in Seq(W)
  BY <1>4, <1>7
<1>9. w1 \o w2 \o w3 \o w4 \in Seq(W)
  BY <1>5, <1>8
<1>10. w1 \o w2 \o w3 \o w4 \o w5 \in Seq(W)
  BY <1>6, <1>9
<1> QED  BY <1>1, <1>10 DEF W

(* The kinds of writes that archive a has.                                 *)
AnyWrite(a) == UNION {WriteSet(a[f], f) : f \in DOMAIN a}
SnapWrite(a, w) == w.table = "snapshots" /\ w.day \in Books!DaysOf(a) /\ w.row \in SnapRow
PosWrite(a, w) == w.table = "positions" /\ w.day \in Books!DaysOf(a) /\ w.row \in Nat
TradeWrite(a, w) == w.table = "trades" /\ \E f \in DOMAIN a : w.row \in Books!TradesIn(a[f])
FlowWrite(a, w) == w.table = "flows" /\ \E f \in DOMAIN a : w.row \in Books!FlowsIn(a[f])

(* Rows of one file are not at odds: it has one row for a day.             *)
OneRowADay(E) ==
    \A v, w \in E : v.table = w.table /\ v.table \in {"snapshots", "positions"} /\ v.day = w.day => v.row = w.row

(* Every write is of one of these kinds.                                    *)
LEMMA WritesAreTyped ==
    ASSUME NEW a, Books!IsArchive(a), NEW w \in AnyWrite(a)
    PROVE  SnapWrite(a, w) \/ PosWrite(a, w) \/ TradeWrite(a, w) \/ FlowWrite(a, w)
<1>1. PICK f \in DOMAIN a : w \in WriteSet(a[f], f)
  BY DEF AnyWrite
<1>2. f \in Nat /\ a[f] \in Books!Statement
  BY DEF Books!IsArchive
<1> DEFINE s == a[f]
<1>3. \A d \in {s.day} \union s.covers : d \in Books!DaysOf(a)
  BY DEF Books!DaysOf
<1> HIDE DEF s
<1>4. CASE w \in {[table |-> "snapshots", day |-> s.day, row |-> r] : r \in Books!Snapshot(s, f)}
  BY <1>2, <1>3, <1>4, RowsOfSnapshots DEF SnapWrite, s
<1>5. CASE w \in {[table |-> "snapshots", day |-> d, row |-> Books!Summary(f)] : d \in s.covers \ {s.day}}
  BY <1>2, <1>3, <1>5, RowsOfSnapshots DEF SnapWrite, s
<1>6. CASE w = [table |-> "positions", day |-> s.day, row |-> f]
  BY <1>2, <1>3, <1>6 DEF PosWrite
<1>7. CASE w \in {[table |-> "trades", row |-> t] : t \in Books!TradesIn(s)}
  BY <1>7 DEF TradeWrite, s
<1>8. CASE w \in {[table |-> "flows", row |-> v] : v \in Books!FlowsIn(s)}
  BY <1>8 DEF FlowWrite, s
<1> QED  BY <1>1, <1>4, <1>5, <1>6, <1>7, <1>8 DEF WriteSet, s

(* So are those of a statement.                                             *)
LEMMA FilesAgree ==
    ASSUME NEW s \in Books!Statement, NEW f \in Nat
    PROVE  OneRowADay(WriteSet(s, f))
<1> SUFFICES ASSUME NEW v \in WriteSet(s, f), NEW w \in WriteSet(s, f), v.table = w.table,
                    v.table \in {"snapshots", "positions"}, v.day = w.day
             PROVE  v.row = w.row
  BY DEF OneRowADay
<1> DEFINE First(x) == x \in {[table |-> "snapshots", day |-> s.day, row |-> r] : r \in Books!Snapshot(s, f)}
           Other(x) == x \in {[table |-> "snapshots", day |-> d, row |-> Books!Summary(f)] : d \in s.covers \ {s.day}}
           Held(x) == x = [table |-> "positions", day |-> s.day, row |-> f]
<1>1. \A x \in WriteSet(s, f) : x.table \in {"snapshots", "positions"} => First(x) \/ Other(x) \/ Held(x)
  BY DEF WriteSet
<1>2. First(v) /\ First(w) => v.row = w.row
  BY RowsOfSnapshots
<1>3. ~(First(v) /\ Other(w)) /\ ~(Other(v) /\ First(w))
  OBVIOUS
<1>4. Other(v) /\ Other(w) => v.row = w.row
  OBVIOUS
<1>5. Held(v) /\ Held(w) => v.row = w.row
  OBVIOUS
<1>6. \A x : (First(x) \/ Other(x) => x.table = "snapshots") /\ (Held(x) => x.table = "positions")
  OBVIOUS
<1>7. (First(v) \/ Other(v) \/ Held(v)) /\ (First(w) \/ Other(w) \/ Held(w))
  BY <1>1
<1> HIDE DEF First, Other, Held
<1> QED  BY <1>2, <1>3, <1>4, <1>5, <1>6, <1>7

(* Rows x and y of a day are alike but for what the writes V may set, and  *)
(* x has what the writes E have set.                                       *)
RowFits(x, y, d, V, E) ==
    /\ \/ x.equity = y.equity /\ x.estimate = y.estimate /\ x.options = y.options
       \/ \E w \in V : w.table = "snapshots" /\ w.day = d
    /\ x.ending = y.ending \/ \E w \in V : w.table = "snapshots" /\ w.day = d /\ w.row.ending # 0
    /\ \/ x.parts = y.parts /\ x.inferred = y.inferred
       \/ \E w \in V : w.table = "snapshots" /\ w.day = d /\ w.row.parts # 0
    /\ \A w \in E : w.table = "snapshots" /\ w.day = d =>
          /\ x.equity = w.row.equity /\ x.estimate = w.row.estimate /\ x.options = w.row.options
          /\ w.row.ending # 0 => x.ending = w.row.ending
          /\ w.row.parts # 0 => x.parts = w.row.parts /\ x.inferred = w.row.inferred

(* So with the positions of a day, of which n and m are the writers.        *)
HeldFits(n, m, d, V, E) ==
    /\ n = m \/ \E w \in V : w.table = "positions" /\ w.day = d
    /\ \A w \in E : w.table = "positions" /\ w.day = d => n = w.row

(* So with trades R and Q: by their keys, since one of two versions is      *)
(* kept.                                                                    *)
HasKey(R, t) == \E r \in R : r.day = t.day /\ r.id = t.id

TradesFit(R, Q, V, E) ==
    /\ \A q \in Q : HasKey(R, q)
    /\ \A r \in R : HasKey(Q, r) \/ \E w \in V : w.table = "trades" /\ w.row.day = r.day /\ w.row.id = r.id
    /\ \A w \in E : w.table = "trades" => HasKey(R, w.row)

Elements(sq) == {sq[i] : i \in DOMAIN sq}

(* And with flows p and q: by what they list, not how often.                *)
FlowsFit(p, q, V, E) ==
    /\ Elements(q) \subseteq Elements(p)
    /\ \A v \in Elements(p) : v \in Elements(q) \/ \E w \in V : w.table = "flows" /\ w.row = v
    /\ \A w \in E : w.table = "flows" => w.row \in Elements(p)

(* The tables t and c are alike but for the writes V, and t has E.         *)
TablesFit(a, t, c, V, E) ==
    /\ \A d \in Books!DaysOf(a) : RowFits(t.snapshots[d], c.snapshots[d], d, V, E)
    /\ \A d \in Books!DaysOf(a) : HeldFits(t.positions[d], c.positions[d], d, V, E)
    /\ TradesFit(t.trades, c.trades, V, E)
    /\ FlowsFit(t.flows, c.flows, V, E)

(* What the tables hold of an archive: its rows, and a flow that has an id  *)
(* once.                                                                    *)
StoredTrade(t) == [day |-> t.day, id |-> t.id, fill |-> t.fill, inBase |-> Books!InBase(t)]
TradesOf(a) == UNION {Books!TradesIn(a[f]) : f \in DOMAIN a}
FlowsOf(a) == UNION {Books!FlowsIn(a[f]) : f \in DOMAIN a}

StoredOnce(p) == \A i, j \in DOMAIN p : p[i].id = p[j].id /\ p[i].id # 0 => i = j

TablesTyped(a, t) ==
    /\ t \in [snapshots : [Books!DaysOf(a) -> SnapRow], positions : [Books!DaysOf(a) -> Nat],
              trades : SUBSET {StoredTrade(u) : u \in TradesOf(a)}, flows : Seq(FlowsOf(a))]
    /\ StoredOnce(t.flows)

(* Tables begin so.                                                         *)
LEMMA EmptyIsTyped == ASSUME NEW a PROVE TablesTyped(a, Books!EmptyTables(a))
<1>1. Books!NoRow \in SnapRow
  BY DEF Books!NoRow, SnapRow
<1> QED  BY <1>1 DEF TablesTyped, StoredOnce, Books!EmptyTables

(* A write changes one table.                                              *)
LEMMA UpsertedIsRow ==
    ASSUME NEW x \in SnapRow, NEW r \in SnapRow
    PROVE  LET y == Books!Upserted(x, r)
           IN  /\ y \in SnapRow
               /\ y.equity = r.equity /\ y.estimate = r.estimate /\ y.options = r.options
               /\ y.ending = IF r.ending # 0 THEN r.ending ELSE x.ending
               /\ y.parts = IF r.parts # 0 THEN r.parts ELSE x.parts
               /\ y.inferred = IF r.parts # 0 THEN r.inferred ELSE x.inferred
<1> DEFINE y == Books!Upserted(x, r)
<1>1. /\ y.equity = r.equity /\ y.estimate = r.estimate /\ y.options = r.options
      /\ y.ending = IF r.ending # 0 THEN r.ending ELSE x.ending
      /\ y.parts = IF r.parts # 0 THEN r.parts ELSE x.parts
  BY DEF Books!Upserted, SnapRow
<1>2. y.inferred = IF r.parts # 0 THEN r.inferred ELSE x.inferred
  BY DEF Books!Upserted, SnapRow
<1>3. y \in SnapRow
  BY DEF Books!Upserted, SnapRow
<1> QED  BY <1>1, <1>2, <1>3

(* What a write of each kind does to the tables.                            *)
LEMMA AfterSnapshot ==
    ASSUME NEW a, NEW t, TablesTyped(a, t), NEW w, SnapWrite(a, w), NEW u, u = Books!After(t, w)
    PROVE  /\ u.positions = t.positions /\ u.trades = t.trades /\ u.flows = t.flows
           /\ u.snapshots \in [Books!DaysOf(a) -> SnapRow]
           /\ u.snapshots[w.day] = Books!Upserted(t.snapshots[w.day], w.row)
           /\ \A d \in Books!DaysOf(a) : d # w.day => u.snapshots[d] = t.snapshots[d]
           /\ u = [snapshots |-> u.snapshots, positions |-> u.positions, trades |-> u.trades, flows |-> u.flows]
<1>1. t.snapshots \in [Books!DaysOf(a) -> SnapRow] /\ w.day \in Books!DaysOf(a) /\ w.row \in SnapRow
  BY DEF TablesTyped, SnapWrite
<1>2. u = [t EXCEPT !.snapshots[w.day] = Books!Upserted(t.snapshots[w.day], w.row)]
  BY DEF Books!After, SnapWrite
<1>3. Books!Upserted(t.snapshots[w.day], w.row) \in SnapRow
  BY <1>1, UpsertedIsRow
<1>4. /\ u.positions = t.positions /\ u.trades = t.trades /\ u.flows = t.flows
      /\ u.snapshots = [t.snapshots EXCEPT ![w.day] = Books!Upserted(t.snapshots[w.day], w.row)]
      /\ u = [snapshots |-> u.snapshots, positions |-> u.positions, trades |-> u.trades, flows |-> u.flows]
  BY <1>2 DEF TablesTyped
<1> QED  BY <1>1, <1>3, <1>4

LEMMA AfterPosition ==
    ASSUME NEW a, NEW t, TablesTyped(a, t), NEW w, PosWrite(a, w), NEW u, u = Books!After(t, w)
    PROVE  /\ u.snapshots = t.snapshots /\ u.trades = t.trades /\ u.flows = t.flows
           /\ u.positions \in [Books!DaysOf(a) -> Nat]
           /\ u.positions[w.day] = w.row
           /\ \A d \in Books!DaysOf(a) : d # w.day => u.positions[d] = t.positions[d]
           /\ u = [snapshots |-> u.snapshots, positions |-> u.positions, trades |-> u.trades, flows |-> u.flows]
<1>1. t.positions \in [Books!DaysOf(a) -> Nat] /\ w.day \in Books!DaysOf(a) /\ w.row \in Nat
  BY DEF TablesTyped, PosWrite
<1>2. u = [t EXCEPT !.positions[w.day] = w.row]
  BY DEF Books!After, PosWrite
<1>3. /\ u.snapshots = t.snapshots /\ u.trades = t.trades /\ u.flows = t.flows
      /\ u.positions = [t.positions EXCEPT ![w.day] = w.row]
      /\ u = [snapshots |-> u.snapshots, positions |-> u.positions, trades |-> u.trades, flows |-> u.flows]
  BY <1>2 DEF TablesTyped
<1> QED  BY <1>1, <1>3

LEMMA AfterTrade ==
    ASSUME NEW a, NEW t, TablesTyped(a, t), NEW w, TradeWrite(a, w), NEW u, u = Books!After(t, w)
    PROVE  /\ u.snapshots = t.snapshots /\ u.positions = t.positions /\ u.flows = t.flows
           /\ u.trades = Books!InsertedTrade(t.trades, w.row)
           /\ u = [snapshots |-> u.snapshots, positions |-> u.positions, trades |-> u.trades, flows |-> u.flows]
  BY DEF Books!After, TablesTyped, TradeWrite

LEMMA AfterFlow ==
    ASSUME NEW a, NEW t, TablesTyped(a, t), NEW w, FlowWrite(a, w), NEW u, u = Books!After(t, w)
    PROVE  /\ u.snapshots = t.snapshots /\ u.positions = t.positions /\ u.trades = t.trades
           /\ u.flows = Books!InsertedFlow(t.flows, w.row)
           /\ u = [snapshots |-> u.snapshots, positions |-> u.positions, trades |-> u.trades, flows |-> u.flows]
  BY DEF Books!After, TablesTyped, FlowWrite

(* A flow is inserted, or it is there.                                     *)
Gains(p, q, v) == \A x : x \in Elements(p) <=> x \in Elements(q) \/ x = v

(* INSERT OR IGNORE leaves a flow in the table, and once if it has an id.   *)
LEMMA FlowIsInserted ==
    ASSUME NEW a, Books!IsArchive(a), NEW t, TablesTyped(a, t), NEW v \in FlowsOf(a),
           NEW p, p = Books!InsertedFlow(t.flows, v)
    PROVE  /\ p \in Seq(FlowsOf(a)) /\ StoredOnce(p)
           /\ Gains(p, t.flows, v)
<1> DEFINE q == t.flows
           F == FlowsOf(a)
<1>1. q \in Seq(F) /\ StoredOnce(q)
  BY DEF TablesTyped
<1> HIDE DEF q, F
<1>2. CASE v.id # 0 /\ \E i \in DOMAIN q : q[i].id = v.id
  <2>1. p = q
    BY <1>2 DEF Books!InsertedFlow, q
  <2>2. PICK i \in DOMAIN q : q[i].id = v.id
    BY <1>2
  <2>3. q[i] \in F
    BY <1>1
  <2>4. q[i] = v
    BY <1>2, <2>2, <2>3 DEF F, FlowsOf, Books!IsArchive
  <2>5. Elements(p) = Elements(q) \union {v}
    BY <2>1, <2>4 DEF Elements
  <2> QED  BY <1>1, <2>1, <2>5 DEF q, F, Gains
<1>3. CASE ~ (v.id # 0 /\ \E i \in DOMAIN q : q[i].id = v.id)
  <2>1. p = Append(q, v)
    BY <1>3 DEF Books!InsertedFlow, q
  <2>2. v \in F
    BY DEF F
  <2>3. p \in Seq(F) /\ Len(p) = Len(q) + 1 /\ p[Len(q) + 1] = v /\ Len(q) \in Nat
    BY <1>1, <2>1, <2>2
  <2>4. DOMAIN q = 1 .. Len(q) /\ DOMAIN p = 1 .. Len(q) + 1 /\ \A i \in 1 .. Len(q) : p[i] = q[i]
    BY <1>1, <2>1, <2>2, <2>3
  <2>5. Elements(p) = Elements(q) \union {v}
    <3>1. ASSUME NEW i \in DOMAIN p PROVE p[i] \in Elements(q) \union {v}
      BY <2>3, <2>4 DEF Elements
    <3>2. ASSUME NEW i \in DOMAIN q PROVE q[i] \in Elements(p)
      <4>1. i \in DOMAIN p /\ p[i] = q[i]
        BY <2>3, <2>4
      <4> QED  BY <4>1 DEF Elements
    <3>3. v \in Elements(p)
      <4>1. Len(q) + 1 \in DOMAIN p
        BY <2>3, <2>4
      <4> QED  BY <2>3, <4>1 DEF Elements
    <3> QED  BY <3>1, <3>2, <3>3 DEF Elements
  <2>6. ASSUME NEW i \in DOMAIN p, NEW j \in DOMAIN p, p[i].id = p[j].id, p[i].id # 0 PROVE i = j
    <3>1. CASE i \in DOMAIN q /\ j \in DOMAIN q
      BY <1>1, <2>4, <2>6, <3>1 DEF StoredOnce
    <3>2. CASE i \notin DOMAIN q /\ j \notin DOMAIN q
      BY <2>3, <2>4, <3>2
    <3>3. CASE i \in DOMAIN q /\ j \notin DOMAIN q
      BY <1>3, <2>3, <2>4, <2>6, <3>3
    <3>4. CASE i \notin DOMAIN q /\ j \in DOMAIN q
      BY <1>3, <2>3, <2>4, <2>6, <3>4
    <3> QED  BY <3>1, <3>2, <3>3, <3>4
  <2> QED  BY <2>3, <2>5, <2>6 DEF q, F, StoredOnce, Gains
<1> QED  BY <1>2, <1>3

(* So is a trade, or one with its key.                                     *)
LEMMA TradeIsInserted ==
    ASSUME NEW R, NEW u
    PROVE  LET N == Books!InsertedTrade(R, u)
           IN  /\ R \subseteq N /\ N \subseteq R \union {StoredTrade(u)} /\ HasKey(N, u)
               /\ \A r \in N : r \in R \/ (r.day = u.day /\ r.id = u.id)
<1> DEFINE x == StoredTrade(u)
           N == Books!InsertedTrade(R, u)
<1>1. x.day = u.day /\ x.id = u.id
  BY DEF StoredTrade
<1>2. N = IF HasKey(R, u) THEN R ELSE R \union {x}
  BY DEF Books!InsertedTrade, StoredTrade, HasKey
<1> HIDE DEF N, x
<1>3. HasKey(N, u) /\ \A r \in N : r \in R \/ (r.day = u.day /\ r.id = u.id)
  BY <1>1, <1>2 DEF HasKey
<1> QED  BY <1>2, <1>3 DEF N, x

(* No write breaks the type of the tables.                                  *)
LEMMA WriteKeepsType ==
    ASSUME NEW a, Books!IsArchive(a), NEW t, TablesTyped(a, t), NEW w \in AnyWrite(a)
    PROVE  TablesTyped(a, Books!After(t, w))
<1>u. PICK u : u = Books!After(t, w)
  OBVIOUS
<1> SUFFICES TablesTyped(a, u)
  BY <1>u
<1> DEFINE Days2 == Books!DaysOf(a)
           T2 == {StoredTrade(x) : x \in TradesOf(a)}
           F == FlowsOf(a)
<1>1. /\ t.snapshots \in [Days2 -> SnapRow] /\ t.positions \in [Days2 -> Nat] /\ t.trades \in SUBSET T2
      /\ t.flows \in Seq(F) /\ StoredOnce(t.flows)
  BY DEF TablesTyped
<1> HIDE DEF Days2, T2, F
<1>2. CASE SnapWrite(a, w)
  <2>3. u.snapshots \in [Days2 -> SnapRow]
    BY <1>u, <1>2, AfterSnapshot DEF Days2
  <2>4. u.positions = t.positions /\ u.trades = t.trades /\ u.flows = t.flows
        /\ u = [snapshots |-> u.snapshots, positions |-> u.positions, trades |-> u.trades, flows |-> u.flows]
    BY <1>u, <1>2, AfterSnapshot
  <2> QED  BY <1>1, <2>3, <2>4 DEF TablesTyped, Days2, T2, F
<1>3. CASE PosWrite(a, w)
  <2>1. u.positions \in [Days2 -> Nat]
    BY <1>u, <1>3, AfterPosition DEF Days2
  <2>2. u.snapshots = t.snapshots /\ u.trades = t.trades /\ u.flows = t.flows
        /\ u = [snapshots |-> u.snapshots, positions |-> u.positions, trades |-> u.trades, flows |-> u.flows]
    BY <1>u, <1>3, AfterPosition
  <2> QED  BY <1>1, <2>1, <2>2 DEF TablesTyped, Days2, T2, F
<1>4. CASE TradeWrite(a, w)
  <2>1. StoredTrade(w.row) \in T2
    BY <1>4 DEF TradeWrite, T2, TradesOf
  <2>2. u.trades \in SUBSET T2
    BY <1>u, <1>1, <1>4, <2>1, AfterTrade, TradeIsInserted
  <2>3. u.snapshots = t.snapshots /\ u.positions = t.positions /\ u.flows = t.flows
        /\ u = [snapshots |-> u.snapshots, positions |-> u.positions, trades |-> u.trades, flows |-> u.flows]
    BY <1>u, <1>4, AfterTrade
  <2> QED  BY <1>1, <2>2, <2>3 DEF TablesTyped, Days2, T2, F
<1>5. CASE FlowWrite(a, w)
  <2>1. w.row \in F
    BY <1>5 DEF FlowWrite, F, FlowsOf
  <2>2. u.flows = Books!InsertedFlow(t.flows, w.row)
    BY <1>u, <1>5, AfterFlow
  <2>3. u.flows \in Seq(F) /\ StoredOnce(u.flows)
    BY <2>1, <2>2, FlowIsInserted DEF F
  <2>4. u.snapshots = t.snapshots /\ u.positions = t.positions /\ u.trades = t.trades
        /\ u = [snapshots |-> u.snapshots, positions |-> u.positions, trades |-> u.trades, flows |-> u.flows]
    BY <1>u, <1>5, AfterFlow
  <2> QED  BY <1>1, <2>3, <2>4 DEF TablesTyped, Days2, T2, F
<1> QED  BY <1>2, <1>3, <1>4, <1>5, WritesAreTyped

(* What a write does to the tables it does not write to.                   *)
LEMMA OtherTablesFit ==
    ASSUME NEW a, NEW t, NEW u, NEW c, NEW V, NEW E, NEW w, TablesFit(a, t, c, V, E)
    PROVE  /\ w.table # "snapshots" /\ u.snapshots = t.snapshots =>
                  \A d \in Books!DaysOf(a) : RowFits(u.snapshots[d], c.snapshots[d], d, V, E \union {w})
           /\ w.table # "positions" /\ u.positions = t.positions =>
                  \A d \in Books!DaysOf(a) : HeldFits(u.positions[d], c.positions[d], d, V, E \union {w})
           /\ w.table # "trades" /\ u.trades = t.trades => TradesFit(u.trades, c.trades, V, E \union {w})
           /\ w.table # "flows" /\ u.flows = t.flows => FlowsFit(u.flows, c.flows, V, E \union {w})
<1>1. ASSUME w.table # "snapshots", u.snapshots = t.snapshots, NEW d \in Books!DaysOf(a)
      PROVE  RowFits(u.snapshots[d], c.snapshots[d], d, V, E \union {w})
  <2>1. RowFits(u.snapshots[d], c.snapshots[d], d, V, E)
    BY <1>1 DEF TablesFit
  <2> QED  BY <1>1, <2>1 DEF RowFits
<1>2. ASSUME w.table # "positions", u.positions = t.positions, NEW d \in Books!DaysOf(a)
      PROVE  HeldFits(u.positions[d], c.positions[d], d, V, E \union {w})
  <2>1. HeldFits(u.positions[d], c.positions[d], d, V, E)
    BY <1>2 DEF TablesFit
  <2> QED  BY <1>2, <2>1 DEF HeldFits
<1>3. ASSUME w.table # "trades", u.trades = t.trades PROVE TradesFit(u.trades, c.trades, V, E \union {w})
  <2>1. TradesFit(u.trades, c.trades, V, E)
    BY <1>3 DEF TablesFit
  <2> QED  BY <1>3, <2>1 DEF TradesFit
<1>4. ASSUME w.table # "flows", u.flows = t.flows PROVE FlowsFit(u.flows, c.flows, V, E \union {w})
  <2>1. FlowsFit(u.flows, c.flows, V, E)
    BY <1>4 DEF TablesFit
  <2> QED  BY <1>4, <2>1 DEF FlowsFit
<1> QED  BY <1>1, <1>2, <1>3, <1>4

(* A write of V is in effect once it is written, with those of its file    *)
(* that were before.                                                       *)
LEMMA WriteFits ==
    ASSUME NEW a, Books!IsArchive(a), NEW t, TablesTyped(a, t), NEW c, NEW V, NEW E, NEW w \in V,
           w \in AnyWrite(a), OneRowADay(E \union {w}), TablesFit(a, t, c, V, E)
    PROVE  TablesFit(a, Books!After(t, w), c, V, E \union {w})
<1>u. PICK u : u = Books!After(t, w)
  OBVIOUS
<1> SUFFICES TablesFit(a, u, c, V, E \union {w})
  BY <1>u
<1>1. CASE SnapWrite(a, w)
  <2>1. /\ u.positions = t.positions /\ u.trades = t.trades /\ u.flows = t.flows
        /\ u.snapshots[w.day] = Books!Upserted(t.snapshots[w.day], w.row)
        /\ \A d \in Books!DaysOf(a) : d # w.day => u.snapshots[d] = t.snapshots[d]
    BY <1>u, <1>1, AfterSnapshot
  <2>2. w.table = "snapshots" /\ w.day \in Books!DaysOf(a) /\ w.row \in SnapRow /\ t.snapshots[w.day] \in SnapRow
    BY <1>1 DEF SnapWrite, TablesTyped
  <2>3. ASSUME NEW d \in Books!DaysOf(a), d # w.day
        PROVE  RowFits(u.snapshots[d], c.snapshots[d], d, V, E \union {w})
    <3>1. RowFits(u.snapshots[d], c.snapshots[d], d, V, E)
      BY <2>1, <2>3 DEF TablesFit
    <3> QED  BY <2>3, <3>1 DEF RowFits
  <2>4. RowFits(u.snapshots[w.day], c.snapshots[w.day], w.day, V, E \union {w})
    <3> DEFINE d == w.day
               x == t.snapshots[d]
               y == c.snapshots[d]
               z == u.snapshots[d]
               r == w.row
    <3>1. RowFits(x, y, d, V, E)
      BY <2>2 DEF TablesFit
    <3>2. /\ z.equity = r.equity /\ z.estimate = r.estimate /\ z.options = r.options
          /\ z.ending = IF r.ending # 0 THEN r.ending ELSE x.ending
          /\ z.parts = IF r.parts # 0 THEN r.parts ELSE x.parts
          /\ z.inferred = IF r.parts # 0 THEN r.inferred ELSE x.inferred
      BY <2>1, <2>2, UpsertedIsRow
    <3>3. \A v \in E : v.table = "snapshots" /\ v.day = d => v.row = r
      BY <2>2 DEF OneRowADay
    <3> HIDE DEF x, y, z, r
    <3>4. w.table = "snapshots" /\ w.day = d /\ w.row = r
      BY <2>2 DEF r
    <3> HIDE DEF d
    <3>5. z.ending = y.ending \/ \E v \in V : v.table = "snapshots" /\ v.day = d /\ v.row.ending # 0
      BY <3>1, <3>2, <3>4 DEF RowFits
    <3>6. \/ z.parts = y.parts /\ z.inferred = y.inferred
          \/ \E v \in V : v.table = "snapshots" /\ v.day = d /\ v.row.parts # 0
      BY <3>1, <3>2, <3>4 DEF RowFits
    <3>7. ASSUME NEW v \in E \union {w}, v.table = "snapshots", v.day = d PROVE v.row = r
      BY <3>3, <3>4, <3>7
    <3>8. RowFits(z, y, d, V, E \union {w})
      BY <3>2, <3>4, <3>5, <3>6, <3>7 DEF RowFits
    <3> QED  BY <3>8 DEF d, y, z
  <2>5. \A d \in Books!DaysOf(a) : RowFits(u.snapshots[d], c.snapshots[d], d, V, E \union {w})
    BY <2>3, <2>4
  <2> QED  BY <2>1, <2>2, <2>5, OtherTablesFit DEF TablesFit
<1>2. CASE PosWrite(a, w)
  <2>1. /\ u.snapshots = t.snapshots /\ u.trades = t.trades /\ u.flows = t.flows
        /\ u.positions[w.day] = w.row
        /\ \A d \in Books!DaysOf(a) : d # w.day => u.positions[d] = t.positions[d]
    BY <1>u, <1>2, AfterPosition
  <2>2. w.table = "positions" /\ w.day \in Books!DaysOf(a)
    BY <1>2 DEF PosWrite
  <2>3. ASSUME NEW d \in Books!DaysOf(a), d # w.day
        PROVE  HeldFits(u.positions[d], c.positions[d], d, V, E \union {w})
    <3>1. HeldFits(u.positions[d], c.positions[d], d, V, E)
      BY <2>1, <2>3 DEF TablesFit
    <3> QED  BY <2>3, <3>1 DEF HeldFits
  <2>4. \A v \in E \union {w} : v.table = "positions" /\ v.day = w.day => v.row = w.row
    BY <2>2 DEF OneRowADay
  <2>5. HeldFits(u.positions[w.day], c.positions[w.day], w.day, V, E \union {w})
    BY <2>1, <2>2, <2>4 DEF HeldFits
  <2>6. \A d \in Books!DaysOf(a) : HeldFits(u.positions[d], c.positions[d], d, V, E \union {w})
    BY <2>3, <2>5
  <2> QED  BY <2>1, <2>2, <2>6, OtherTablesFit DEF TablesFit
<1>3. CASE TradeWrite(a, w)
  <2>1. /\ u.snapshots = t.snapshots /\ u.positions = t.positions /\ u.flows = t.flows
        /\ u.trades = Books!InsertedTrade(t.trades, w.row)
    BY <1>u, <1>3, AfterTrade
  <2>2. w.table = "trades"
    BY <1>3 DEF TradeWrite
  <2>3. TradesFit(t.trades, c.trades, V, E)
    BY DEF TablesFit
  <2>4. /\ t.trades \subseteq u.trades /\ HasKey(u.trades, w.row)
        /\ \A r \in u.trades : r \in t.trades \/ (r.day = w.row.day /\ r.id = w.row.id)
    BY <2>1, TradeIsInserted
  <2>5. TradesFit(u.trades, c.trades, V, E \union {w})
    BY <2>2, <2>3, <2>4 DEF TradesFit, HasKey
  <2> QED  BY <2>1, <2>2, <2>5, OtherTablesFit DEF TablesFit
<1>4. CASE FlowWrite(a, w)
  <2>1. /\ u.snapshots = t.snapshots /\ u.positions = t.positions /\ u.trades = t.trades
        /\ u.flows = Books!InsertedFlow(t.flows, w.row)
    BY <1>u, <1>4, AfterFlow
  <2>2. w.table = "flows" /\ w.row \in FlowsOf(a)
    BY <1>4 DEF FlowWrite, FlowsOf
  <2>3. FlowsFit(t.flows, c.flows, V, E)
    BY DEF TablesFit
  <2>4. /\ u.flows \in Seq(FlowsOf(a)) /\ StoredOnce(u.flows)
        /\ Gains(u.flows, t.flows, w.row)
    BY <2>1, <2>2, FlowIsInserted
  <2>5. FlowsFit(u.flows, c.flows, V, E \union {w})
    BY <2>2, <2>3, <2>4 DEF FlowsFit, Gains
  <2> QED  BY <2>1, <2>2, <2>5, OtherTablesFit DEF TablesFit
<1> QED  BY <1>1, <1>2, <1>3, <1>4, WritesAreTyped

(* When all writes A of a file are in effect in t, it fits the tables b    *)
(* into which they have been written at once, but for the other writes.    *)
LEMMA FileIsIn ==
    ASSUME NEW a, NEW t, NEW b, NEW c, NEW V, NEW A, NEW V2, V \subseteq V2 \union A,
           TablesFit(a, t, c, V, A), TablesFit(a, b, c, A, A)
    PROVE  TablesFit(a, t, b, V2, {})
<1>1. ASSUME NEW d \in Books!DaysOf(a) PROVE RowFits(t.snapshots[d], b.snapshots[d], d, V2, {})
  <2> DEFINE x == t.snapshots[d]
             y == b.snapshots[d]
             z == c.snapshots[d]
  <2>1. RowFits(x, z, d, V, A) /\ RowFits(y, z, d, A, A)
    BY DEF TablesFit
  <2> HIDE DEF x, y, z
  <2>2. \/ x.equity = y.equity /\ x.estimate = y.estimate /\ x.options = y.options
        \/ \E w \in V2 : w.table = "snapshots" /\ w.day = d
    BY <2>1 DEF RowFits
  <2>3. x.ending = y.ending \/ \E w \in V2 : w.table = "snapshots" /\ w.day = d /\ w.row.ending # 0
    BY <2>1 DEF RowFits
  <2>4. \/ x.parts = y.parts /\ x.inferred = y.inferred
        \/ \E w \in V2 : w.table = "snapshots" /\ w.day = d /\ w.row.parts # 0
    BY <2>1 DEF RowFits
  <2>5. RowFits(x, y, d, V2, {})
    BY <2>2, <2>3, <2>4 DEF RowFits
  <2> QED  BY <2>5 DEF x, y
<1>2. ASSUME NEW d \in Books!DaysOf(a) PROVE HeldFits(t.positions[d], b.positions[d], d, V2, {})
  <2>1. HeldFits(t.positions[d], c.positions[d], d, V, A) /\ HeldFits(b.positions[d], c.positions[d], d, A, A)
    BY DEF TablesFit
  <2> QED  BY <2>1 DEF HeldFits
<1>3. TradesFit(t.trades, b.trades, V2, {})
  <2>1. TradesFit(t.trades, c.trades, V, A) /\ TradesFit(b.trades, c.trades, A, A)
    BY DEF TablesFit
  <2>2. ASSUME NEW q \in b.trades PROVE HasKey(t.trades, q)
    BY <2>1 DEF TradesFit, HasKey
  <2>3. ASSUME NEW r \in t.trades
        PROVE  HasKey(b.trades, r) \/ \E w \in V2 : w.table = "trades" /\ w.row.day = r.day /\ w.row.id = r.id
    BY <2>1 DEF TradesFit, HasKey
  <2> QED  BY <2>2, <2>3 DEF TradesFit
<1>4. FlowsFit(t.flows, b.flows, V2, {})
  <2>1. FlowsFit(t.flows, c.flows, V, A) /\ FlowsFit(b.flows, c.flows, A, A)
    BY DEF TablesFit
  <2> QED  BY <2>1 DEF FlowsFit
<1> QED  BY <1>1, <1>2, <1>3, <1>4 DEF TablesFit

(* Tables fit themselves, and with more writes still.                      *)
LEMMA TablesFitThemselves ==
    ASSUME NEW a, NEW t, NEW V
    PROVE  TablesFit(a, t, t, V, {})
  BY DEF TablesFit, RowFits, HeldFits, TradesFit, HasKey, FlowsFit

(* More writes excuse more, and fewer are asked for.                        *)
LEMMA FitsMore ==
    ASSUME NEW a, NEW t, NEW c, NEW V, NEW V2, V \subseteq V2, NEW E, NEW E2, E2 \subseteq E, TablesFit(a, t, c, V, E)
    PROVE  TablesFit(a, t, c, V2, E2)
<1>1. ASSUME NEW d \in Books!DaysOf(a) PROVE RowFits(t.snapshots[d], c.snapshots[d], d, V2, E2)
  <2>1. RowFits(t.snapshots[d], c.snapshots[d], d, V, E)
    BY DEF TablesFit
  <2> QED  BY <2>1 DEF RowFits
<1>2. ASSUME NEW d \in Books!DaysOf(a) PROVE HeldFits(t.positions[d], c.positions[d], d, V2, E2)
  <2>1. HeldFits(t.positions[d], c.positions[d], d, V, E)
    BY DEF TablesFit
  <2> QED  BY <2>1 DEF HeldFits
<1>3. TradesFit(t.trades, c.trades, V2, E2)
  BY DEF TablesFit, TradesFit
<1>4. FlowsFit(t.flows, c.flows, V2, E2)
  BY DEF TablesFit, FlowsFit
<1> QED  BY <1>1, <1>2, <1>3, <1>4 DEF TablesFit

(* The recursive definition of Imported has a solution.                    *)
LEMMA ImportedRuns ==
    ASSUME NEW t, NEW ws, Len(ws) \in Nat
    PROVE  \E e : /\ e[0] = t /\ \A n \in 1 .. Len(ws) : e[n] = Books!After(e[n - 1], ws[n])
                  /\ Books!Imported(t, ws) = e[Len(ws)]
<1> DEFINE Solves(e, m) == e = [n \in 0 .. m |-> IF n = 0 THEN t ELSE Books!After(e[n - 1], ws[n])]
           Bad == {m \in 0 .. Len(ws) : ~ \E e : Solves(e, m)}
<1>1. Bad = {}
  <2> SUFFICES ASSUME Bad # {} PROVE FALSE
    OBVIOUS
  <2>0. Bad \subseteq Nat
    OBVIOUS
  <2>1. PICK n \in Bad : \A m \in Bad : n <= m
    <3> HIDE DEF Bad
    <3> QED  BY <2>0, LeastNumber
  <2>2. n # 0
    <3> DEFINE z == [j \in {0} |-> t]
    <3>1. z = [j \in 0 .. 0 |-> IF j = 0 THEN t ELSE Books!After(z[j - 1], ws[j])]
      <4>1. 0 .. 0 = {0}
        OBVIOUS
      <4> QED  BY <4>1
    <3>2. Solves(z, 0)
      BY <3>1
    <3> QED  BY <3>2
  <2>3. n - 1 \in 0 .. Len(ws) /\ n - 1 \notin Bad
    <3>1. n \in 0 .. Len(ws)
      OBVIOUS
    <3>2. n - 1 \in 0 .. Len(ws) /\ ~ (n <= n - 1)
      BY <2>0, <2>2, <3>1
    <3> HIDE DEF Bad
    <3> QED  BY <2>1, <3>2
  <2>4. PICK g : Solves(g, n - 1)
    BY <2>3
  <2> DEFINE h == [j \in 0 .. n |-> IF j = n THEN Books!After(g[n - 1], ws[n]) ELSE g[j]]
  <2>5. \A j \in 0 .. n - 1 : h[j] = g[j]
    OBVIOUS
  <2>6. \A j \in 0 .. n : h[j] = IF j = 0 THEN t ELSE Books!After(h[j - 1], ws[j])
    <3> SUFFICES ASSUME NEW j \in 0 .. n PROVE h[j] = IF j = 0 THEN t ELSE Books!After(h[j - 1], ws[j])
      OBVIOUS
    <3>1. CASE j = n
      BY <3>1, <2>2, <2>5
    <3>2. CASE j # n
      <4>1. j \in 0 .. n - 1
        BY <3>2
      <4>2. g[j] = IF j = 0 THEN t ELSE Books!After(g[j - 1], ws[j])
        BY <2>4, <4>1
      <4> HIDE DEF h
      <4> QED  BY <2>5, <4>1, <4>2
    <3> QED  BY <3>1, <3>2
  <2>7. Solves(h, n)
    <3> DEFINE r == [j \in 0 .. n |-> IF j = 0 THEN t ELSE Books!After(h[j - 1], ws[j])]
    <3>1. h = r
      BY <2>6
    <3> QED  BY <3>1
  <2> QED  BY <2>1, <2>7
<1>2. Len(ws) \in 0 .. Len(ws)
  OBVIOUS
<1> DEFINE e == CHOOSE x : Solves(x, Len(ws))
<1>3. Solves(e, Len(ws))
  <2>1. \E x : Solves(x, Len(ws))
    BY <1>1, <1>2
  <2> HIDE DEF Solves
  <2> QED  BY <2>1
<1>4. Books!Imported(t, ws) = e[Len(ws)]
  BY DEF Books!Imported
<1> HIDE DEF e
<1>5. e[0] = t /\ \A n \in 1 .. Len(ws) : e[n] = Books!After(e[n - 1], ws[n])
  BY <1>3
<1> QED  BY <1>4, <1>5

(* To import a file is to have all it writes in effect and nothing else.   *)
LEMMA ImportFits ==
    ASSUME NEW a, Books!IsArchive(a), NEW f \in DOMAIN a, NEW t, TablesTyped(a, t),
           NEW ws, ws = Books!TransactionsOf(a[f], f)
    PROVE  /\ TablesTyped(a, Books!Imported(t, ws))
           /\ TablesFit(a, Books!Imported(t, ws), t, Elements(ws), Elements(ws))
<1>1. ws \in Seq(WriteSet(a[f], f)) /\ f \in Nat /\ a[f] \in Books!Statement
  <2>1. f \in Nat /\ a[f] \in Books!Statement /\ Books!IsFiniteSet(a[f].covers)
    BY DEF Books!IsArchive
  <2>2. IsFiniteSet(a[f].covers)
    BY <2>1 DEF Books!IsFiniteSet, IsFiniteSet
  <2> QED  BY <2>1, <2>2, TransactionsAreWrites
<1>2. Len(ws) \in Nat /\ DOMAIN ws = 1 .. Len(ws) /\ \A i \in 1 .. Len(ws) : ws[i] \in WriteSet(a[f], f)
  BY <1>1
<1>3. PICK e : /\ e[0] = t /\ \A n \in 1 .. Len(ws) : e[n] = Books!After(e[n - 1], ws[n])
               /\ Books!Imported(t, ws) = e[Len(ws)]
  BY <1>2, ImportedRuns
<1> DEFINE A == Elements(ws)
           First(n) == {ws[i] : i \in 1 .. n}
           Good(n) == TablesTyped(a, e[n]) /\ TablesFit(a, e[n], t, A, First(n))
           Bad == {n \in 0 .. Len(ws) : ~ Good(n)}
<1>4. Good(0)
  <2>1. First(0) = {}
    OBVIOUS
  <2> QED  BY <1>3, <2>1, TablesFitThemselves
<1>5. ASSUME NEW n \in 1 .. Len(ws), Good(n - 1) PROVE Good(n)
  <2> DEFINE w == ws[n]
             E == First(n - 1)
  <2>1. w \in A /\ w \in AnyWrite(a)
    BY <1>2 DEF Elements, AnyWrite
  <2>2. First(n) = E \union {w}
    <3>1. 1 .. n = (1 .. n - 1) \union {n}
      BY <1>2
    <3> QED  BY <3>1
  <2>3. OneRowADay(E \union {w})
    <3>1. \A i \in 1 .. n - 1 : i \in 1 .. Len(ws)
      BY <1>2
    <3>2. E \union {w} \subseteq WriteSet(a[f], f)
      BY <1>2, <3>1
    <3> HIDE DEF E, w
    <3> QED  BY <1>1, <3>2, FilesAgree DEF OneRowADay
  <2>4. e[n] = Books!After(e[n - 1], w)
    BY <1>3
  <2>5. TablesTyped(a, e[n - 1]) /\ TablesFit(a, e[n - 1], t, A, E)
    BY <1>5
  <2> HIDE DEF E, w, A
  <2>6. TablesTyped(a, e[n])
    BY <2>1, <2>4, <2>5, WriteKeepsType
  <2>7. TablesFit(a, e[n], t, A, E \union {w})
    BY <2>1, <2>3, <2>4, <2>5, WriteFits
  <2> HIDE DEF First
  <2> QED  BY <2>2, <2>6, <2>7
<1> HIDE DEF Good
<1>6. Bad = {}
  <2> SUFFICES ASSUME Bad # {} PROVE FALSE
    OBVIOUS
  <2>1. PICK n \in Bad : \A m \in Bad : n <= m
    <3>1. Bad \subseteq Nat
      OBVIOUS
    <3> HIDE DEF Bad
    <3> QED  BY <3>1, LeastNumber
  <2>2. n \in 1 .. Len(ws) /\ n - 1 \in 0 .. Len(ws) /\ ~ (n <= n - 1)
    BY <1>2, <1>4
  <2>3. n - 1 \notin Bad
    <3> HIDE DEF Bad
    <3> QED  BY <2>1, <2>2
  <2> QED  BY <1>5, <2>2, <2>3
<1>7. Good(Len(ws))
  BY <1>2, <1>6
<1>8. First(Len(ws)) = A
  BY <1>2 DEF Elements
<1> QED  BY <1>3, <1>7, <1>8 DEF Good

(* The recursive definition of Replay has a solution.                      *)
LEMMA ReplayDefined ==
    ASSUME NEW a, NEW o, Len(o) \in Nat
    PROVE  \E e : e = [n \in 0 .. Len(o) |-> IF n = 0 THEN Books!EmptyTables(a)
                          ELSE Books!Imported(e[n - 1], Books!TransactionsOf(a[o[n]], o[n]))]
<1> DEFINE Pass(t, n) == Books!Imported(t, Books!TransactionsOf(a[o[n]], o[n]))
           z0 == Books!EmptyTables(a)
<1> HIDE DEF Pass, z0
<1> DEFINE Solves(e, m) == e = [n \in 0 .. m |-> IF n = 0 THEN z0 ELSE Pass(e[n - 1], n)]
           Bad == {m \in 0 .. Len(o) : ~ \E e : Solves(e, m)}
<1>1. Bad = {}
  <2> SUFFICES ASSUME Bad # {} PROVE FALSE
    OBVIOUS
  <2>0. Bad \subseteq Nat
    OBVIOUS
  <2>1. PICK n \in Bad : \A m \in Bad : n <= m
    <3> HIDE DEF Bad
    <3> QED  BY <2>0, LeastNumber
  <2>2. n # 0
    <3> DEFINE z == [j \in {0} |-> z0]
    <3>1. z = [j \in 0 .. 0 |-> IF j = 0 THEN z0 ELSE Pass(z[j - 1], j)]
      <4>1. 0 .. 0 = {0}
        OBVIOUS
      <4> QED  BY <4>1
    <3>2. Solves(z, 0)
      BY <3>1
    <3> QED  BY <3>2
  <2>3. n - 1 \in 0 .. Len(o) /\ n - 1 \notin Bad
    <3>1. n \in 0 .. Len(o)
      OBVIOUS
    <3>2. n - 1 \in 0 .. Len(o) /\ ~ (n <= n - 1)
      BY <2>0, <2>2, <3>1
    <3> HIDE DEF Bad
    <3> QED  BY <2>1, <3>2
  <2>4. PICK g : Solves(g, n - 1)
    BY <2>3
  <2> DEFINE h == [j \in 0 .. n |-> IF j = n THEN Pass(g[n - 1], n) ELSE g[j]]
  <2>5. \A j \in 0 .. n - 1 : h[j] = g[j]
    OBVIOUS
  <2>6. \A j \in 0 .. n : h[j] = IF j = 0 THEN z0 ELSE Pass(h[j - 1], j)
    <3> SUFFICES ASSUME NEW j \in 0 .. n PROVE h[j] = IF j = 0 THEN z0 ELSE Pass(h[j - 1], j)
      OBVIOUS
    <3>1. CASE j = n
      BY <3>1, <2>2, <2>5
    <3>2. CASE j # n
      <4>1. j \in 0 .. n - 1
        BY <3>2
      <4>2. g[j] = IF j = 0 THEN z0 ELSE Pass(g[j - 1], j)
        BY <2>4, <4>1
      <4> HIDE DEF h
      <4> QED  BY <2>5, <4>1, <4>2
    <3> QED  BY <3>1, <3>2
  <2>7. Solves(h, n)
    <3> DEFINE r == [j \in 0 .. n |-> IF j = 0 THEN z0 ELSE Pass(h[j - 1], j)]
    <3>1. h = r
      BY <2>6
    <3> QED  BY <3>1
  <2> QED  BY <2>1, <2>7
<1>2. Len(o) \in 0 .. Len(o)
  OBVIOUS
<1>3. PICK e : Solves(e, Len(o))
  BY <1>1, <1>2
<1> QED  BY <1>3 DEF Pass, z0

(* The recursion of Replay, step by step.                                   *)
LEMMA ReplayRuns ==
    ASSUME NEW a, NEW o, Len(o) \in Nat
    PROVE  \E e : /\ e[0] = Books!EmptyTables(a)
                  /\ \A n \in 1 .. Len(o) : e[n] = Books!Imported(e[n - 1], Books!TransactionsOf(a[o[n]], o[n]))
                  /\ Books!Replay(a, o) = e[Len(o)]
<1> DEFINE Solves(e) == e = [n \in 0 .. Len(o) |-> IF n = 0 THEN Books!EmptyTables(a)
                                ELSE Books!Imported(e[n - 1], Books!TransactionsOf(a[o[n]], o[n]))]
           e == CHOOSE x : Solves(x)
<1>1. Solves(e)
  <2>1. \E x : Solves(x)
    BY ReplayDefined
  <2> HIDE DEF Solves
  <2> QED  BY <2>1
<1>2. Books!Replay(a, o) = e[Len(o)]
  BY DEF Books!Replay
<1> HIDE DEF e
<1>3. /\ e[0] = Books!EmptyTables(a)
      /\ \A n \in 1 .. Len(o) : e[n] = Books!Imported(e[n - 1], Books!TransactionsOf(a[o[n]], o[n]))
  BY <1>1
<1> QED  BY <1>2, <1>3

(* No file leaves empty tables.                                             *)
LEMMA ReplayOfNone == ASSUME NEW a PROVE Books!Replay(a, <<>>) = Books!EmptyTables(a)
<1>1. Len(<<>>) = 0
  OBVIOUS
<1> QED  BY <1>1, ReplayRuns

(* One more file is imported on top of those before it.                     *)
LEMMA ReplayOfOneMore ==
    ASSUME NEW a, NEW S, NEW o \in Seq(S), NEW f \in S
    PROVE  Books!Replay(a, Append(o, f)) = Books!Imported(Books!Replay(a, o), Books!TransactionsOf(a[f], f))
<1> DEFINE p == Append(o, f)
           k == Len(o)
<1>1. k \in Nat /\ Len(p) = k + 1 /\ p[k + 1] = f /\ \A n \in 1 .. k : p[n] = o[n]
  OBVIOUS
<1> HIDE DEF p, k
<1> DEFINE Pass(t, g) == Books!Imported(t, Books!TransactionsOf(a[g], g))
<1>2. PICK e : /\ e[0] = Books!EmptyTables(a) /\ \A n \in 1 .. k : e[n] = Pass(e[n - 1], o[n])
               /\ Books!Replay(a, o) = e[k]
  BY <1>1, ReplayRuns DEF k
<1>3. PICK h : /\ h[0] = Books!EmptyTables(a) /\ \A n \in 1 .. k + 1 : h[n] = Pass(h[n - 1], p[n])
               /\ Books!Replay(a, p) = h[k + 1]
  <2>1. Len(p) \in Nat
    BY <1>1
  <2> QED  BY <1>1, <2>1, ReplayRuns
<1> HIDE DEF Pass
<1> DEFINE Bad == {n \in 0 .. k : e[n] # h[n]}
<1>4. Bad = {}
  <2> SUFFICES ASSUME Bad # {} PROVE FALSE
    OBVIOUS
  <2>1. PICK n \in Bad : \A m \in Bad : n <= m
    <3>1. Bad \subseteq Nat
      OBVIOUS
    <3> HIDE DEF Bad
    <3> QED  BY <3>1, LeastNumber
  <2>2. n \in 1 .. k /\ n - 1 \in 0 .. k /\ ~ (n <= n - 1) /\ n \in 1 .. k + 1
    BY <1>1, <1>2, <1>3
  <2>3. e[n - 1] = h[n - 1]
    <3>1. n - 1 \notin Bad
      <4> HIDE DEF Bad
      <4> QED  BY <2>1, <2>2
    <3> QED  BY <2>2, <3>1
  <2>4. e[n] = h[n]
    BY <1>1, <1>2, <1>3, <2>2, <2>3
  <2> QED  BY <2>4
<1>5. e[k] = h[k] /\ h[k + 1] = Pass(h[(k + 1) - 1], p[k + 1]) /\ (k + 1) - 1 = k
  BY <1>1, <1>3, <1>4
<1> QED  BY <1>1, <1>2, <1>3, <1>5 DEF Pass, p

(* Flows with an id: two lists of the same flows have as many of them.     *)
KnownIn(p) == {i \in DOMAIN p : p[i].id # 0}

LEMMA KnownAreAsMany ==
    ASSUME NEW S, NEW p \in Seq(S), NEW q \in Seq(S), StoredOnce(p), StoredOnce(q), Elements(p) = Elements(q)
    PROVE  Cardinality(KnownIn(p)) = Cardinality(KnownIn(q))
<1> DEFINE K == KnownIn(p)
           L == KnownIn(q)
           F == [i \in K |-> CHOOSE j \in L : q[j] = p[i]]
<1>1. ASSUME NEW i \in K PROVE F[i] \in L /\ q[F[i]] = p[i]
  <2>1. p[i] \in Elements(p) /\ p[i].id # 0
    BY DEF KnownIn, Elements
  <2>2. PICK j \in DOMAIN q : q[j] = p[i]
    BY <2>1 DEF Elements
  <2>3. j \in L
    BY <2>1, <2>2 DEF KnownIn
  <2> QED  BY <2>2, <2>3
<1>2. F \in [K -> L]
  <2> HIDE DEF K, L
  <2> QED  BY <1>1
<1>3. DOMAIN F = K
  OBVIOUS
<1> HIDE DEF F
<1>4. ASSUME NEW i \in K, NEW j \in K, F[i] = F[j] PROVE i = j
  <2>1. p[i] = p[j]
    BY <1>1, <1>4
  <2> QED  BY <2>1 DEF StoredOnce, KnownIn
<1>5. ASSUME NEW j \in L PROVE \E i \in K : F[i] = j
  <2>1. q[j] \in Elements(q) /\ q[j].id # 0
    BY DEF KnownIn, Elements
  <2>2. PICK i \in DOMAIN p : p[i] = q[j]
    BY <2>1 DEF Elements
  <2>3. i \in K
    BY <2>1, <2>2 DEF KnownIn
  <2>4. q[F[i]] = q[j] /\ F[i] \in L
    BY <1>1, <2>2, <2>3
  <2>5. F[i] = j
    BY <2>1, <2>4 DEF StoredOnce, KnownIn
  <2> QED  BY <2>3, <2>5
<1>6. IsFiniteSet(K)
  <2>1. K \in SUBSET (1 .. Len(p)) /\ Len(p) \in Nat
    BY DEF KnownIn
  <2>2. IsFiniteSet(1 .. Len(p))
    BY <2>1, FS_Interval
  <2> HIDE DEF K
  <2> QED  BY <2>1, <2>2, FS_Subset
<1> HIDE DEF K, L
<1>7. F \in Bijection(K, L)
  BY <1>2, <1>3, <1>4, <1>5 DEF Bijection, Injection, Surjection, IsInjective
<1>8. ExistsBijection(K, L)
  BY <1>7 DEF ExistsBijection
<1>9. Cardinality(L) = Cardinality(K)
  BY <1>6, <1>8, FS_Bijection
<1> QED  BY <1>9 DEF K, L

(* The writes of the files D, and the first n of file f.                   *)
WritesOf(a, D) == UNION {Elements(Books!TransactionsOf(a[f], f)) : f \in D}
FirstOf(a, f, n) == {Books!TransactionsOf(a[f], f)[i] : i \in 1 .. n}

(* The tables are as if the files that are marked had been imported each   *)
(* at once, but for the writes of files that were begun and are not        *)
(* marked; and what has been written of the file at hand is in effect.     *)
LedgerInv ==
    /\ Books!IsArchive(files)
    /\ at \in DOMAIN files \union {0} /\ tried \subseteq DOMAIN files
    /\ complete \in Seq(DOMAIN files)
    /\ at # 0 => /\ at \in tried \ Elements(complete)
                 /\ write \in 1 .. Len(Books!TransactionsOf(files[at], at)) + 1
    /\ TablesTyped(files, Books!Now) /\ TablesTyped(files, Books!Replay(files, complete))
    /\ TablesFit(files, Books!Now, Books!Replay(files, complete), WritesOf(files, tried \ Elements(complete)),
                 IF at = 0 THEN {} ELSE FirstOf(files, at, write - 1))

(* The writes of a file of an archive.                                      *)
LEMMA ArchiveWrites ==
    ASSUME NEW a, Books!IsArchive(a), NEW f \in DOMAIN a
    PROVE  /\ Books!TransactionsOf(a[f], f) \in Seq(WriteSet(a[f], f))
           /\ OneRowADay(WriteSet(a[f], f)) /\ WriteSet(a[f], f) \subseteq AnyWrite(a)
           /\ f # 0
<1>1. f \in Nat /\ f # 0 /\ a[f] \in Books!Statement /\ Books!IsFiniteSet(a[f].covers)
  BY DEF Books!IsArchive
<1>2. IsFiniteSet(a[f].covers)
  BY <1>1 DEF Books!IsFiniteSet, IsFiniteSet
<1> QED  BY <1>1, <1>2, TransactionsAreWrites, FilesAgree DEF AnyWrite

(* The invariant holds at the start.                                        *)
LEMMA LedgerBegins == files \in Archives /\ Books!Init => LedgerInv
<1> SUFFICES ASSUME files \in Archives, Books!Init PROVE LedgerInv
  OBVIOUS
<1>1. Books!IsArchive(files)
  BY LedgerAssumption
<1>2. complete = <<>> /\ at = 0 /\ tried = {}
  BY DEF Books!Init
<1>3. Books!Now = Books!EmptyTables(files)
  BY DEF Books!Init, Books!Now, Books!EmptyTables
<1>4. Books!Replay(files, complete) = Books!EmptyTables(files)
  BY <1>2, ReplayOfNone
<1>5. TablesTyped(files, Books!EmptyTables(files))
  BY EmptyIsTyped
<1>6. TablesFit(files, Books!EmptyTables(files), Books!EmptyTables(files), WritesOf(files, tried \ Elements(complete)), {})
  BY TablesFitThemselves
<1>7. complete \in Seq(DOMAIN files)
  BY <1>2
<1> QED  BY <1>1, <1>2, <1>3, <1>4, <1>5, <1>6, <1>7 DEF LedgerInv

(* A file that is begun adds its writes to those that may be in effect.     *)
LEMMA BeginKeepsLedger == ASSUME LedgerInv, NEW f \in DOMAIN files, Books!Begin(f) PROVE LedgerInv'
<1>1. /\ at = 0 /\ at' = f /\ write' = 1 /\ tried' = tried \union {f}
      /\ UNCHANGED <<files, complete, snapshots, positions, trades, flows>>
      /\ f \notin Elements(complete)
  BY DEF Books!Begin, Books!tables, Books!Marked, Elements
<1>2. Books!Now' = Books!Now
  BY <1>1 DEF Books!Now
<1> DEFINE t == Books!Now
           c == Books!Replay(files, complete)
           V == WritesOf(files, tried \ Elements(complete))
           V2 == WritesOf(files, tried' \ Elements(complete))
<1>3. TablesFit(files, t, c, V, {})
  BY <1>1 DEF LedgerInv
<1>4. V \subseteq V2
  BY <1>1 DEF WritesOf
<1> HIDE DEF t, c, V, V2
<1>5. TablesFit(files, t, c, V2, {})
  BY <1>3, <1>4, FitsMore
<1>6. FirstOf(files, at', 0) = {}
  BY DEF FirstOf
<1>7. f # 0 /\ Books!TransactionsOf(files[f], f) \in Seq(WriteSet(files[f], f))
  BY ArchiveWrites DEF LedgerInv
<1>8. 1 \in 1 .. Len(Books!TransactionsOf(files[f], f)) + 1
  BY <1>7
<1>9. at' \in tried' \ Elements(complete) /\ tried' \subseteq DOMAIN files
  BY <1>1 DEF LedgerInv
<1>10. TablesFit(files, Books!Now, Books!Replay(files, complete), WritesOf(files, tried \ Elements(complete)),
                 IF at = 0 THEN {} ELSE FirstOf(files, at, write - 1))'
  <2>1. 1 - 1 = 0
    OBVIOUS
  <2> QED  BY <1>1, <1>2, <1>5, <1>6, <1>7, <2>1 DEF t, c, V2
<1>11. TablesTyped(files, Books!Now)' /\ TablesTyped(files, Books!Replay(files, complete))'
  BY <1>1, <1>2 DEF LedgerInv
<1>12. (complete \in Seq(DOMAIN files))' /\ Books!IsArchive(files)'
  BY <1>1 DEF LedgerInv
<1> QED  BY <1>1, <1>8, <1>9, <1>10, <1>11, <1>12 DEF LedgerInv

(* A write is one of those, and is then in effect.                          *)
LEMMA WriteKeepsLedger == LedgerInv /\ Books!Write => LedgerInv'
<1> SUFFICES ASSUME LedgerInv, Books!Write PROVE LedgerInv'
  OBVIOUS
<1> DEFINE ws == Books!TransactionsOf(files[at], at)
           w == ws[write]
           t == Books!Now
           u == Books!After(t, w)
           c == Books!Replay(files, complete)
           V == WritesOf(files, tried \ Elements(complete))
           E == FirstOf(files, at, write - 1)
<1>1. at # 0 /\ write <= Len(ws) /\ write' = write + 1 /\ UNCHANGED <<files, at, complete, tried>>
  BY DEF Books!Write, Books!ToWrite
<1>2. snapshots' = u.snapshots /\ positions' = u.positions /\ trades' = u.trades /\ flows' = u.flows
  BY DEF Books!Write, Books!ToWrite, Books!Apply
<1>3. Books!IsArchive(files) /\ at \in DOMAIN files /\ at \in tried \ Elements(complete) /\ write \in 1 .. Len(ws) + 1
  BY <1>1 DEF LedgerInv
<1>4. ws \in Seq(WriteSet(files[at], at)) /\ OneRowADay(WriteSet(files[at], at)) /\ WriteSet(files[at], at) \subseteq AnyWrite(files)
  BY <1>3, ArchiveWrites
<1>5. TablesTyped(files, t) /\ TablesTyped(files, c) /\ TablesFit(files, t, c, V, E)
  BY <1>1 DEF LedgerInv
<1>6. FirstOf(files, at, write) = E \union {w}
  <2>1. 1 .. write = (1 .. write - 1) \union {write}
    BY <1>3, <1>4
  <2> QED  BY <2>1 DEF FirstOf
<1>7. E \union {w} \subseteq WriteSet(files[at], at) /\ w \in Elements(ws)
  <2> HIDE DEF ws
  <2>1. Len(ws) \in Nat /\ DOMAIN ws = 1 .. Len(ws) /\ write \in 1 .. Len(ws)
    BY <1>1, <1>3, <1>4
  <2>2. \A i \in 1 .. write : i \in 1 .. Len(ws)
    BY <2>1
  <2>3. \A i \in 1 .. write : ws[i] \in WriteSet(files[at], at)
    BY <1>4, <2>1, <2>2
  <2> QED  BY <1>6, <2>1, <2>3 DEF FirstOf, ws, Elements
<1>8. w \in V
  BY <1>3, <1>7 DEF WritesOf
<1>9. (write + 1) - 1 = write /\ write + 1 \in 1 .. Len(ws) + 1
  BY <1>1, <1>3, <1>4
<1> HIDE DEF ws, w, t, c, V, E
<1>10. w \in AnyWrite(files) /\ OneRowADay(E \union {w})
  BY <1>4, <1>7 DEF OneRowADay
<1>11. TablesTyped(files, u)
  BY <1>3, <1>5, <1>10, WriteKeepsType
<1>12. TablesFit(files, u, c, V, E \union {w})
  BY <1>3, <1>5, <1>8, <1>10, WriteFits
<1> HIDE DEF u
<1>13. Books!Now' = u
  <2>1. u \in [snapshots : [Books!DaysOf(files) -> SnapRow], positions : [Books!DaysOf(files) -> Nat],
               trades : SUBSET {StoredTrade(x) : x \in TradesOf(files)}, flows : Seq(FlowsOf(files))]
    BY <1>11 DEF TablesTyped
  <2>2. u = [snapshots |-> u.snapshots, positions |-> u.positions, trades |-> u.trades, flows |-> u.flows]
    BY <2>1
  <2> QED  BY <1>2, <2>2 DEF Books!Now
<1>14. TablesFit(files, u, c, V, FirstOf(files, at, write))
  BY <1>6, <1>12
<1> QED  BY <1>1, <1>3, <1>5, <1>9, <1>11, <1>13, <1>14 DEF LedgerInv, c, V, ws

(* All writes of a file that is marked are in effect, as if it had been     *)
(* imported last.                                                           *)
LEMMA MarkKeepsLedger == LedgerInv /\ Books!Mark => LedgerInv'
<1> SUFFICES ASSUME LedgerInv, Books!Mark PROVE LedgerInv'
  OBVIOUS
<1> DEFINE ws == Books!TransactionsOf(files[at], at)
           t == Books!Now
           c == Books!Replay(files, complete)
           b == Books!Replay(files, Append(complete, at))
           V == WritesOf(files, tried \ Elements(complete))
           V2 == WritesOf(files, tried \ (Elements(complete) \union {at}))
<1>1. /\ at # 0 /\ write > Len(ws) /\ complete' = Append(complete, at) /\ at' = 0
      /\ UNCHANGED <<files, tried, snapshots, positions, trades, flows>>
  BY DEF Books!Mark, Books!ToWrite, Books!tables
<1>2. Books!IsArchive(files) /\ at \in DOMAIN files /\ write \in 1 .. Len(ws) + 1 /\ complete \in Seq(DOMAIN files)
  BY <1>1 DEF LedgerInv
<1>3. ws \in Seq(WriteSet(files[at], at))
  BY <1>2, ArchiveWrites
<1>4. write - 1 = Len(ws) /\ DOMAIN ws = 1 .. Len(ws)
  BY <1>1, <1>2, <1>3
<1>5. FirstOf(files, at, write - 1) = Elements(ws)
  BY <1>4 DEF FirstOf, Elements
<1>6. TablesTyped(files, t) /\ TablesTyped(files, c) /\ TablesFit(files, t, c, V, Elements(ws))
  BY <1>1, <1>5 DEF LedgerInv
<1>7. b = Books!Imported(c, ws)
  BY <1>2, ReplayOfOneMore
<1>8. V \subseteq V2 \union Elements(ws)
  BY DEF WritesOf
<1>9. Books!Now' = t
  BY <1>1 DEF Books!Now
<1>10. Elements(complete') = Elements(complete) \union {at} /\ complete' \in Seq(DOMAIN files)
  <2> DEFINE p == Append(complete, at)
             k == Len(complete)
  <2>1. p \in Seq(DOMAIN files) /\ k \in Nat /\ DOMAIN p = 1 .. k + 1 /\ DOMAIN complete = 1 .. k /\ p[k + 1] = at
    BY <1>2
  <2>2. \A i \in 1 .. k : p[i] = complete[i]
    BY <1>2
  <2> HIDE DEF p, k
  <2>3. Elements(p) = Elements(complete) \union {at}
    <3>1. k + 1 \in DOMAIN p /\ \A i \in DOMAIN p : i = k + 1 \/ i \in DOMAIN complete
      BY <2>1
    <3>2. DOMAIN complete \subseteq DOMAIN p
      BY <2>1
    <3> QED  BY <2>1, <2>2, <3>1, <3>2 DEF Elements
  <2> QED  BY <1>1, <2>1, <2>3 DEF p
<1> HIDE DEF ws, t, c, b, V, V2
<1>11. TablesTyped(files, b) /\ TablesFit(files, b, c, Elements(ws), Elements(ws))
  BY <1>2, <1>6, <1>7, ImportFits DEF ws
<1>12. TablesFit(files, t, b, V2, {})
  BY <1>6, <1>8, <1>11, FileIsIn
<1> QED  BY <1>1, <1>2, <1>6, <1>9, <1>10, <1>11, <1>12 DEF LedgerInv, b, V2

(* After a failure the writes of its file are as good as never asked for.   *)
LEMMA FailKeepsLedger == LedgerInv /\ Books!Fail => LedgerInv'
<1> SUFFICES ASSUME LedgerInv, Books!Fail PROVE LedgerInv'
  OBVIOUS
<1> DEFINE t == Books!Now
           c == Books!Replay(files, complete)
           V == WritesOf(files, tried \ Elements(complete))
           E == FirstOf(files, at, write - 1)
<1>1. at # 0 /\ at' = 0 /\ UNCHANGED <<files, complete, tried, snapshots, positions, trades, flows>>
  BY DEF Books!Fail, Books!tables
<1>2. Books!Now' = t
  BY <1>1 DEF Books!Now
<1>3. TablesFit(files, t, c, V, E)
  BY <1>1 DEF LedgerInv
<1> HIDE DEF t, c, V, E
<1>4. TablesFit(files, t, c, V, {})
  BY <1>3, FitsMore
<1> QED  BY <1>1, <1>2, <1>4 DEF LedgerInv, t, c, V

LedgerIsAsWritten == part = "ledger" => LedgerInv

(* The invariant holds at the start, and while other parts of the run move.*)
LEMMA LedgerIsKept == MCSpec => []LedgerIsAsWritten
<1>1. MCInit => LedgerIsAsWritten
  BY LedgerBegins DEF MCInit, LedgerIsAsWritten
<1>2. ASSUME LedgerIsAsWritten, [MCNext]_all PROVE LedgerIsAsWritten'
  <2>1. CASE LedgerStep
    <3>1. LedgerInv /\ Books!Next
      BY <1>2, <2>1 DEF LedgerIsAsWritten, LedgerStep
    <3>2. LedgerInv'
      BY <3>1, BeginKeepsLedger, WriteKeepsLedger, MarkKeepsLedger, FailKeepsLedger DEF Books!Next
    <3> QED  BY <3>2 DEF LedgerIsAsWritten
  <2>2. CASE ImportStep \/ UniverseStep \/ WatchStep \/ FifoStep
    BY <2>2 DEF ImportStep, UniverseStep, WatchStep, FifoStep, LedgerIsAsWritten
  <2>3. CASE UNCHANGED all
    <3>1. UNCHANGED <<part, files, at, write, complete, tried, snapshots, positions, trades, flows>>
      BY <2>3 DEF all, ledger
    <3>2. Books!Now' = Books!Now
      BY <3>1 DEF Books!Now
    <3> QED  BY <1>2, <3>1, <3>2 DEF LedgerIsAsWritten, LedgerInv
  <2> QED  BY <1>2, <2>1, <2>2, <2>3 DEF MCNext
<1> QED  BY <1>1, <1>2, PTL DEF MCSpec

(* When every file that was begun is marked, the tables are those of the   *)
(* files imported each at once.                                            *)
LEMMA NothingBegunIsLeft ==
    ASSUME LedgerInv, at = 0, tried = Elements(complete)
    PROVE  TablesFit(files, Books!Now, Books!Replay(files, complete), {}, {})
<1>1. WritesOf(files, tried \ Elements(complete)) = {}
  BY DEF WritesOf
<1> QED  BY <1>1 DEF LedgerInv

(* A trade of which there is one version is the same in both tables.        *)
LEMMA TradesAreSettled ==
    ASSUME NEW a, Books!IsArchive(a), NEW t, NEW c, TablesTyped(a, t), TablesTyped(a, c), TablesFit(a, t, c, {}, {}),
           NEW r \in t.trades,
           \A f, g \in DOMAIN a : \A u \in Books!TradesIn(a[f]), v \in Books!TradesIn(a[g]) :
               <<u.day, u.id>> = <<r.day, r.id>> /\ <<v.day, v.id>> = <<r.day, r.id>> =>
                   <<u.form, u.fill>> = <<v.form, v.fill>>
    PROVE  r \in c.trades
<1>1. PICK q \in c.trades : q.day = r.day /\ q.id = r.id
  BY DEF TablesFit, TradesFit, HasKey
<1>2. PICK f \in DOMAIN a : \E u \in Books!TradesIn(a[f]) : r = StoredTrade(u)
  <2>1. t.trades \subseteq {StoredTrade(u) : u \in TradesOf(a)}
    BY DEF TablesTyped
  <2>2. PICK u \in TradesOf(a) : r = StoredTrade(u)
    BY <2>1
  <2> QED  BY <2>2 DEF TradesOf
<1>3. PICK g \in DOMAIN a : \E v \in Books!TradesIn(a[g]) : q = StoredTrade(v)
  <2>1. c.trades \subseteq {StoredTrade(v) : v \in TradesOf(a)}
    BY DEF TablesTyped
  <2>2. PICK v \in TradesOf(a) : q = StoredTrade(v)
    BY <2>1
  <2> QED  BY <2>2 DEF TradesOf
<1>x. PICK u \in Books!TradesIn(a[f]) : r = StoredTrade(u)
  BY <1>2
<1>y. PICK v \in Books!TradesIn(a[g]) : q = StoredTrade(v)
  BY <1>3
<1>4. u.day = r.day /\ u.id = r.id /\ v.day = r.day /\ v.id = r.id
  BY <1>1, <1>x, <1>y DEF StoredTrade
<1>5. u.form = v.form /\ u.fill = v.fill
  BY <1>4
<1>6. u.foreign = v.foreign
  BY <1>4, <1>5 DEF Books!IsArchive
<1>7. r = q
  BY <1>x, <1>y, <1>4, <1>5, <1>6 DEF StoredTrade, Books!InBase
<1> QED  BY <1>1, <1>7

(* Ledger: once every file that was begun is imported, the tables are as   *)
(* if each had been imported once, in the order of the marks, whatever     *)
(* failed in between (sqlite_writer.py:201-578, import_job.py:46-90).      *)
THEOREM FailuresNeverLeaveATrace == MCSpec => []FailuresLeaveNoTrace
<1>1. LedgerIsAsWritten => FailuresLeaveNoTrace
  <2> SUFFICES ASSUME LedgerInv PROVE Books!FailuresLeaveNoTrace
    BY DEF LedgerIsAsWritten, FailuresLeaveNoTrace
  <2> DEFINE t == Books!Now
             c == Books!Replay(files, complete)
             Disputed(r) == Books!Contested(<<r.day, r.id>>)
  <2> SUFFICES ASSUME at = 0, tried = Elements(complete)
               PROVE  /\ snapshots = c.snapshots /\ positions = c.positions
                      /\ {r \in trades : ~Disputed(r)} = {r \in c.trades : ~Disputed(r)}
                      /\ {<<r.day, r.id>> : r \in trades} = {<<r.day, r.id>> : r \in c.trades}
                      /\ Elements(flows) = Elements(c.flows)
                      /\ Books!Cardinality(KnownIn(flows)) = Books!Cardinality(KnownIn(c.flows))
    BY DEF Books!FailuresLeaveNoTrace, Books!Marked, Elements, KnownIn
  <2>1. t.snapshots = snapshots /\ t.positions = positions /\ t.trades = trades /\ t.flows = flows
    BY DEF Books!Now
  <2>2. Books!IsArchive(files) /\ TablesTyped(files, t) /\ TablesTyped(files, c)
    BY DEF LedgerInv
  <2>3. TablesFit(files, t, c, {}, {})
    BY NothingBegunIsLeft
  <2> HIDE DEF t, c
  <2>4. snapshots = c.snapshots
    <3>1. snapshots \in [Books!DaysOf(files) -> SnapRow] /\ c.snapshots \in [Books!DaysOf(files) -> SnapRow]
      BY <2>1, <2>2 DEF TablesTyped
    <3>2. ASSUME NEW d \in Books!DaysOf(files) PROVE snapshots[d] = c.snapshots[d]
      <4>1. RowFits(snapshots[d], c.snapshots[d], d, {}, {})
        BY <2>1, <2>3 DEF TablesFit
      <4>2. snapshots[d] \in SnapRow /\ c.snapshots[d] \in SnapRow
        BY <3>1
      <4> QED  BY <4>1, <4>2 DEF RowFits, SnapRow
    <3> QED  BY <3>1, <3>2
  <2>5. positions = c.positions
    <3>1. positions \in [Books!DaysOf(files) -> Nat] /\ c.positions \in [Books!DaysOf(files) -> Nat]
      BY <2>1, <2>2 DEF TablesTyped
    <3>2. \A d \in Books!DaysOf(files) : positions[d] = c.positions[d]
      BY <2>1, <2>3 DEF TablesFit, HeldFits
    <3> QED  BY <3>1, <3>2
  <2>6. TradesFit(trades, c.trades, {}, {}) /\ FlowsFit(flows, c.flows, {}, {})
    BY <2>1, <2>3 DEF TablesFit
  <2>7. {<<r.day, r.id>> : r \in trades} = {<<r.day, r.id>> : r \in c.trades}
    <3>1. \A r \in trades : \E q \in c.trades : q.day = r.day /\ q.id = r.id
      BY <2>6 DEF TradesFit, HasKey
    <3>2. \A q \in c.trades : \E r \in trades : r.day = q.day /\ r.id = q.id
      BY <2>6 DEF TradesFit, HasKey
    <3> QED  BY <3>1, <3>2
  <2>8. TablesFit(files, c, t, {}, {})
    <3>1. \A d \in Books!DaysOf(files) : RowFits(c.snapshots[d], t.snapshots[d], d, {}, {})
      BY <2>1, <2>4 DEF RowFits
    <3>2. \A d \in Books!DaysOf(files) : HeldFits(c.positions[d], t.positions[d], d, {}, {})
      BY <2>1, <2>5 DEF HeldFits
    <3>3. TradesFit(c.trades, t.trades, {}, {})
      BY <2>1, <2>6 DEF TradesFit
    <3>4. FlowsFit(c.flows, t.flows, {}, {})
      BY <2>1, <2>6 DEF FlowsFit
    <3> QED  BY <3>1, <3>2, <3>3, <3>4 DEF TablesFit
  <2>9. {r \in trades : ~Disputed(r)} = {r \in c.trades : ~Disputed(r)}
    <3>1. ASSUME NEW r, ~Disputed(r)
          PROVE  \A f, g \in DOMAIN files : \A u \in Books!TradesIn(files[f]), v \in Books!TradesIn(files[g]) :
                     <<u.day, u.id>> = <<r.day, r.id>> /\ <<v.day, v.id>> = <<r.day, r.id>> =>
                         <<u.form, u.fill>> = <<v.form, v.fill>>
      BY <3>1 DEF Books!Contested
    <3> HIDE DEF Disputed
    <3>2. ASSUME NEW r \in trades, ~Disputed(r) PROVE r \in c.trades
      BY <2>1, <2>2, <2>3, <3>1, <3>2, TradesAreSettled
    <3>3. ASSUME NEW r \in c.trades, ~Disputed(r) PROVE r \in trades
      BY <2>1, <2>2, <2>8, <3>1, <3>3, TradesAreSettled
    <3> QED  BY <3>2, <3>3
  <2>10. Elements(flows) = Elements(c.flows)
    BY <2>6 DEF FlowsFit
  <2>11. Cardinality(KnownIn(flows)) = Cardinality(KnownIn(c.flows))
    <3>1. flows \in Seq(FlowsOf(files)) /\ StoredOnce(flows) /\ c.flows \in Seq(FlowsOf(files)) /\ StoredOnce(c.flows)
      BY <2>1, <2>2 DEF TablesTyped
    <3> QED  BY <2>10, <3>1, KnownAreAsMany
  <2> QED  BY <2>4, <2>5, <2>7, <2>9, <2>10, <2>11, BooksCount
<1> QED  BY <1>1, LedgerIsKept, PTL
=============================================================================
