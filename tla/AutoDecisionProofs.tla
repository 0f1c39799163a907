-------------------------- MODULE AutoDecisionProofs --------------------------
(***************************************************************************)
(* Types, RepeatsAreApart and EndedRunIsHonest of AutoDecision, for any    *)
(* number of runs that overlap, die and are forced, any finite set of      *)
(* symbols and any length of the window.                                   *)
(***************************************************************************)
EXTENDS AutoDecision, FiniteSetTheorems, TLAPS

(* Only what was selected is ever decided. *)
DecidesSelected ==
    /\ \A r \in Runs : phase[r] = "deciding" => todo[r] \subseteq selected[r]
    /\ \A r \in Runs, s \in Symbols :
          item[r][s] = "completed" => s \in selected[r] /\ phase[r] # "idle"

TimesHavePassed == \A r \in Runs : selectedAt[r] <= now

(* What an unforced run selected was not decided within the window before  *)
(* it; decisions recorded afterwards are later than its selection.         *)
SelectedWasNotRecent ==
    \A q, r \in Runs, s \in Symbols :
        /\ s \in selected[r] /\ ~options[r].force
        /\ item[q][s] = "completed" /\ completedAt[q][s] < selectedAt[r]
        => completedAt[q][s] + DuplicateHours < selectedAt[r]

IInv == TypeOK /\ DecidesSelected /\ TimesHavePassed /\ SelectedWasNotRecent

-----------------------------------------------------------------------------
LEMMA InitIInv == Init => IInv
<1> SUFFICES ASSUME Init PROVE IInv
    OBVIOUS
<1> USE NumbersAssumption DEF Init
<1>1. options \in [Runs -> Requests \union {NoRequest}]
    OBVIOUS
<1>2. /\ item \in [Runs -> [Symbols -> ItemStatuses]]
      /\ completedAt \in [Runs -> [Symbols -> Nat]]
      /\ runStatus \in [Runs -> RunStatuses \union {"absent"}]
    BY DEF ItemStatuses
<1>3. TypeOK BY <1>1, <1>2 DEF TypeOK, Phases
<1>4. DecidesSelected /\ TimesHavePassed /\ SelectedWasNotRecent
    BY DEF DecidesSelected, TimesHavePassed, SelectedWasNotRecent
<1> QED BY <1>3, <1>4 DEF IInv

(* Steps that neither select nor write items. *)
LEMMA QuietStep ==
    ASSUME IInv, TypeOK', now' >= now,
           UNCHANGED <<options, selected, selectedAt, item, completedAt>>,
           \A r \in Runs : phase'[r] = "deciding" => todo'[r] \subseteq selected[r],
           \A r \in Runs : phase'[r] = "idle" => phase[r] = "idle"
    PROVE  IInv'
<1>1. DecidesSelected' BY DEF IInv, DecidesSelected
<1>2. TimesHavePassed' BY NumbersAssumption DEF IInv, TimesHavePassed, TypeOK
<1>3. SelectedWasNotRecent' BY DEF IInv, SelectedWasNotRecent
<1> QED BY <1>1, <1>2, <1>3 DEF IInv

LEMMA NextIInv == IInv /\ [Next]_vars => IInv'
<1> SUFFICES ASSUME IInv, [Next]_vars PROVE IInv'
    OBVIOUS
<1> USE NumbersAssumption
<1>t. TypeOK BY DEF IInv
<1>n. now \in Nat BY <1>t DEF TypeOK
<1>1. CASE Tick
  <2>1. TypeOK' BY <1>t, <1>1 DEF Tick, TypeOK
  <2> QED BY <1>n, <1>1, <2>1, QuietStep DEF Tick, IInv, DecidesSelected
<1>2. ASSUME NEW r \in Runs, NEW o \in Requests, Select(r, o)
      PROVE  IInv'
  <2>1. options' = [options EXCEPT ![r] = o] BY <1>2 DEF Select
  <2>2. /\ options' \in [Runs -> Requests \union {NoRequest}]
        /\ options'[r] = o /\ \A q \in Runs \ {r} : options'[q] = options[q]
      BY <1>t, <2>1 DEF TypeOK
  <2>3. PICK best \in SUBSET Symbols :
            /\ selected' = [selected EXCEPT ![r] = best]
            /\ ~o.force => \A s \in best : ~RecentlyDecided(s)
      BY <1>2 DEF Select
  <2>4. /\ selectedAt' = [selectedAt EXCEPT ![r] = now]
        /\ todo' = [todo EXCEPT ![r] = Symbols]
        /\ phase[r] = "idle" /\ phase' = [phase EXCEPT ![r] = "storing"]
        /\ UNCHANGED <<now, item, completedAt, made, runStatus>>
      BY <1>2 DEF Select
  <2>5. TypeOK' BY <1>t, <1>n, <2>2, <2>3, <2>4 DEF TypeOK, Phases
  <2>6. DecidesSelected'
      BY <1>t, <2>3, <2>4 DEF IInv, DecidesSelected, TypeOK
  <2>7. TimesHavePassed' BY <1>t, <2>4 DEF IInv, TimesHavePassed, TypeOK
  <2>8. SelectedWasNotRecent'
    <3> SUFFICES ASSUME NEW q \in Runs, NEW p \in Runs, NEW s \in Symbols,
                        s \in selected'[p], ~options'[p].force, item[q][s] = "completed",
                        completedAt[q][s] < selectedAt'[p]
                 PROVE  completedAt[q][s] + DuplicateHours < selectedAt'[p]
        BY <2>4 DEF SelectedWasNotRecent
    <3>1. completedAt[q][s] \in Nat BY <1>t DEF TypeOK
    <3>2. CASE p = r
      <4>1. s \in best /\ ~o.force /\ selectedAt'[p] = now
          BY <1>t, <2>2, <2>3, <2>4, <3>2 DEF TypeOK
      <4>2. ~RecentlyDecided(s) BY <2>3, <4>1
      <4> QED BY <1>n, <3>1, <4>1, <4>2 DEF RecentlyDecided
    <3>3. CASE p # r
      <4>1. options'[p] = options[p] /\ selected'[p] = selected[p] /\ selectedAt'[p] = selectedAt[p]
          BY <1>t, <2>2, <2>3, <2>4, <3>3 DEF TypeOK
      <4> QED BY <4>1 DEF IInv, SelectedWasNotRecent
    <3> QED BY <3>2, <3>3
  <2> QED BY <2>5, <2>6, <2>7, <2>8 DEF IInv
<1>3. ASSUME NEW r \in Runs, NEW s \in Symbols, StoreItem(r, s) PROVE IInv'
  <2>1. /\ phase[r] = "storing"
        /\ item' = [item EXCEPT ![r][s] = IF s \in selected[r] THEN "selected" ELSE "skipped"]
        /\ todo' = [todo EXCEPT ![r] = @ \ {s}]
        /\ phase' = [phase EXCEPT ![r] = IF todo[r] = {s} THEN "creating" ELSE "storing"]
        /\ UNCHANGED <<now, options, selected, selectedAt, completedAt, made, runStatus>>
      BY <1>3 DEF StoreItem
  <2>2. \A q \in Runs, x \in Symbols : item'[q][x] = "completed" => item[q][x] = "completed"
      BY <1>t, <2>1 DEF TypeOK
  <2>3. item' \in [Runs -> [Symbols -> ItemStatuses]] BY <1>t, <2>1 DEF TypeOK, ItemStatuses
  <2>4. TypeOK' BY <1>t, <2>1, <2>3 DEF TypeOK, Phases
  <2>5. DecidesSelected' BY <1>t, <2>1, <2>2 DEF IInv, DecidesSelected, TypeOK
  <2>6. TimesHavePassed' BY <2>1 DEF IInv, TimesHavePassed
  <2>7. SelectedWasNotRecent' BY <2>1, <2>2 DEF IInv, SelectedWasNotRecent
  <2> QED BY <2>4, <2>5, <2>6, <2>7 DEF IInv
<1>4. ASSUME NEW r \in Runs, NEW s \in Symbols, Decide(r, s) PROVE IInv'
  <2>1. TypeOK' BY <1>t, <1>4 DEF Decide, TypeOK
  <2> QED BY <1>n, <1>4, <2>1, QuietStep DEF Decide, IInv, DecidesSelected
<1>5. ASSUME NEW r \in Runs, NEW s \in Symbols, NEW outcome \in {"completed", "failed"},
             UpdateItem(r, s, outcome)
      PROVE  IInv'
  <2>1. /\ phase[r] = "deciding" /\ s \in todo[r]
        /\ item' = [item EXCEPT ![r][s] = outcome]
        /\ completedAt' = [completedAt EXCEPT ![r][s] = IF s \in made[r] THEN now ELSE @]
        /\ outcome = "completed" => s \in made[r]
        /\ todo' = [todo EXCEPT ![r] = @ \ {s}]
        /\ phase' = [phase EXCEPT ![r] = IF todo[r] = {s} THEN "final" ELSE "deciding"]
        /\ UNCHANGED <<now, options, selected, selectedAt, made, runStatus>>
      BY <1>5 DEF UpdateItem
  <2>2. /\ \A q \in Runs, x \in Symbols :
              <<q, x>> # <<r, s>> => item'[q][x] = item[q][x] /\ completedAt'[q][x] = completedAt[q][x]
        /\ item'[r][s] = outcome
        /\ outcome = "completed" => completedAt'[r][s] = now
        /\ item' \in [Runs -> [Symbols -> ItemStatuses]]
        /\ completedAt' \in [Runs -> [Symbols -> Nat]]
      BY <1>t, <1>n, <2>1 DEF TypeOK, ItemStatuses
  <2>3. TypeOK' BY <1>t, <2>1, <2>2 DEF TypeOK, Phases
  <2>4. DecidesSelected'
    <3>1. s \in selected[r] BY <2>1 DEF IInv, DecidesSelected
    <3> QED BY <1>t, <2>1, <2>2, <3>1 DEF IInv, DecidesSelected, TypeOK
  <2>5. TimesHavePassed' BY <2>1 DEF IInv, TimesHavePassed
  <2>6. SelectedWasNotRecent'
    <3> SUFFICES ASSUME NEW q \in Runs, NEW p \in Runs, NEW x \in Symbols,
                        x \in selected[p], ~options[p].force, item'[q][x] = "completed",
                        completedAt'[q][x] < selectedAt[p]
                 PROVE  completedAt'[q][x] + DuplicateHours < selectedAt[p]
        BY <2>1 DEF SelectedWasNotRecent
    <3>1. selectedAt[p] <= now /\ selectedAt[p] \in Nat BY <1>t DEF IInv, TimesHavePassed, TypeOK
    <3>2. <<q, x>> # <<r, s>> BY <1>n, <2>2, <3>1
    <3> QED BY <2>2, <3>2 DEF IInv, SelectedWasNotRecent
  <2> QED BY <2>3, <2>4, <2>5, <2>6 DEF IInv
<1>6. ASSUME NEW r \in Runs, CreateRun(r) PROVE IInv'
  <2>1. TypeOK' BY <1>t, <1>6 DEF CreateRun, TypeOK, Phases, RunStatuses
  <2> QED BY <1>t, <1>n, <1>6, <2>1, QuietStep DEF CreateRun, TypeOK, IInv, DecidesSelected
<1>7. ASSUME NEW r \in Runs, EndRun(r) PROVE IInv'
  <2>1. RunStatus(r) \in RunStatuses
      BY DEF RunStatus, RunStatuses
  <2>2. TypeOK' BY <1>t, <1>7, <2>1 DEF EndRun, TypeOK, Phases
  <2> QED BY <1>t, <1>n, <1>7, <2>2, QuietStep DEF EndRun, TypeOK, IInv, DecidesSelected
<1>8. ASSUME NEW r \in Runs, Die(r) PROVE IInv'
  <2>1. TypeOK' BY <1>t, <1>8 DEF Die, TypeOK, Phases
  <2> QED BY <1>t, <1>n, <1>8, <2>1, QuietStep DEF Die, TypeOK, IInv, DecidesSelected
<1>9. CASE UNCHANGED vars
  <2>1. TypeOK' BY <1>t, <1>9 DEF vars, TypeOK
  <2> QED BY <1>n, <1>9, <2>1, QuietStep DEF vars, IInv, DecidesSelected
<1> QED BY <1>1, <1>2, <1>3, <1>4, <1>5, <1>6, <1>7, <1>8, <1>9 DEF Next, Advance, Finished

(* Runs, items and clock have their types in every reachable state. *)
THEOREM TypeCorrect == Spec => []TypeOK
<1>1. IInv => TypeOK BY DEF IInv
<1> QED BY <1>1, InitIInv, NextIInv, PTL DEF Spec

(* However runs overlap and die, an unforced run decides nothing that was  *)
(* recorded as decided within the window before its selection.             *)
THEOREM NoRecentRepeats == Spec => []RepeatsAreApart
<1>1. IInv => RepeatsAreApart
    BY DEF IInv, DecidesSelected, SelectedWasNotRecent, RepeatsAreApart
<1> QED BY <1>1, InitIInv, NextIInv, PTL DEF Spec

-----------------------------------------------------------------------------
(* What the items of a run are while it is in a phase: they are stored one *)
(* by one, as selected or skipped, and decided one by one.                 *)
ItemsFollowRun ==
    \A r \in Runs, s \in Symbols :
        /\ phase[r] = "idle" => item[r][s] = "absent"
        /\ phase[r] = "storing" /\ s \in todo[r] => item[r][s] = "absent"
        /\ \/ phase[r] = "storing" /\ s \notin todo[r]
           \/ phase[r] = "creating"
           => item[r][s] = IF s \in selected[r] THEN "selected" ELSE "skipped"
        /\ phase[r] \in {"deciding", "final", "done"} /\ ~options[r].dry =>
              item[r][s] \in IF s \notin selected[r] THEN {"skipped"}
                             ELSE IF s \in todo[r] THEN {"selected"} ELSE {"completed", "failed"}

(* A run comes to its end with nothing left to do, and ends with the       *)
(* status its items give it.                                               *)
StatusFollowsItems ==
    \A r \in Runs :
        /\ phase[r] \in {"final", "done"} => todo[r] = {}
        /\ phase[r] = "done" => runStatus[r] = RunStatus(r)

HInv == ItemsFollowRun /\ StatusFollowsItems

(* Steps of the clock, of Decide and of Die, and stuttering. *)
LEMMA QuietForHonesty ==
    ASSUME HInv, TypeOK, UNCHANGED <<options, selected, todo, item, runStatus>>,
           \A r \in Runs : phase'[r] = phase[r] \/ phase'[r] = "dead"
    PROVE  HInv'
<1>1. ItemsFollowRun' BY DEF HInv, ItemsFollowRun
<1>2. \A r \in Runs : RunStatus(r)' = RunStatus(r)
    BY DEF RunStatus, Count
<1>3. StatusFollowsItems' BY <1>2 DEF HInv, StatusFollowsItems
<1> QED BY <1>1, <1>3 DEF HInv

(* A step of one run, which leaves the others as they are. *)
LEMMA OtherRuns ==
    ASSUME HInv, NEW r \in Runs, NEW q \in Runs,
           phase'[q] = phase[q], options'[q] = options[q], selected'[q] = selected[q],
           todo'[q] = todo[q], item'[q] = item[q], runStatus'[q] = runStatus[q]
    PROVE  /\ phase'[q] \in {"final", "done"} => todo'[q] = {}
           /\ phase'[q] = "done" => runStatus'[q] = RunStatus(q)'
<1>1. RunStatus(q)' = RunStatus(q) BY DEF RunStatus, Count
<1> QED BY <1>1 DEF HInv, StatusFollowsItems

LEMMA InitHonest == Init => HInv
<1> SUFFICES ASSUME Init PROVE HInv
    OBVIOUS
<1>1. \A r \in Runs : phase[r] = "idle" BY DEF Init
<1>2. \A r \in Runs, s \in Symbols : item[r][s] = "absent" BY DEF Init
<1> QED BY <1>1, <1>2 DEF HInv, ItemsFollowRun, StatusFollowsItems

LEMMA NextHonest == IInv /\ HInv /\ [Next]_vars => HInv'
<1> SUFFICES ASSUME IInv, HInv, [Next]_vars PROVE HInv'
    OBVIOUS
<1>t. TypeOK BY DEF IInv
<1> USE DEF HInv
<1>1. CASE Tick BY <1>t, <1>1, QuietForHonesty DEF Tick
<1>2. ASSUME NEW r \in Runs, NEW o \in Requests, Select(r, o) PROVE HInv'
  <2>1. PICK best : selected' = [selected EXCEPT ![r] = best]
      BY <1>2 DEF Select
  <2>2. /\ phase[r] = "idle" /\ phase'[r] = "storing" /\ todo'[r] = Symbols
        /\ UNCHANGED <<item, runStatus>>
        /\ \A q \in Runs \ {r} : /\ phase'[q] = phase[q] /\ options'[q] = options[q]
                                 /\ selected'[q] = selected[q] /\ todo'[q] = todo[q]
      BY <1>t, <1>2, <2>1 DEF Select, TypeOK
  <2>3. ItemsFollowRun' BY <2>2 DEF ItemsFollowRun
  <2>4. StatusFollowsItems'
    <3> SUFFICES ASSUME NEW q \in Runs
                 PROVE  /\ phase'[q] \in {"final", "done"} => todo'[q] = {}
                        /\ phase'[q] = "done" => runStatus'[q] = RunStatus(q)'
        BY DEF StatusFollowsItems
    <3>1. CASE q = r BY <2>2, <3>1
    <3>2. CASE q # r BY <2>2, <3>2, OtherRuns
    <3> QED BY <3>1, <3>2
  <2> QED BY <2>3, <2>4
<1>3. ASSUME NEW r \in Runs, NEW s \in Symbols, StoreItem(r, s) PROVE HInv'
  <2>1. /\ phase[r] = "storing" /\ s \in todo[r]
        /\ item'[r][s] = IF s \in selected[r] THEN "selected" ELSE "skipped"
        /\ \A x \in Symbols \ {s} : item'[r][x] = item[r][x]
        /\ todo'[r] = todo[r] \ {s}
        /\ phase'[r] = IF todo[r] = {s} THEN "creating" ELSE "storing"
        /\ UNCHANGED <<options, selected, runStatus>>
        /\ \A q \in Runs \ {r} : phase'[q] = phase[q] /\ todo'[q] = todo[q] /\ item'[q] = item[q]
      BY <1>t, <1>3 DEF StoreItem, TypeOK
  <2>2. ItemsFollowRun'
    <3> SUFFICES ASSUME NEW q \in Runs, NEW x \in Symbols
                 PROVE  /\ phase'[q] = "idle" => item'[q][x] = "absent"
                        /\ phase'[q] = "storing" /\ x \in todo'[q] => item'[q][x] = "absent"
                        /\ \/ phase'[q] = "storing" /\ x \notin todo'[q]
                           \/ phase'[q] = "creating"
                           => item'[q][x] = IF x \in selected'[q] THEN "selected" ELSE "skipped"
                        /\ phase'[q] \in {"deciding", "final", "done"} /\ ~options'[q].dry =>
                              item'[q][x] \in IF x \notin selected'[q] THEN {"skipped"}
                                              ELSE IF x \in todo'[q] THEN {"selected"}
                                              ELSE {"completed", "failed"}
        BY DEF ItemsFollowRun
    <3>1. CASE q = r BY <2>1, <3>1 DEF ItemsFollowRun
    <3>2. CASE q # r BY <2>1, <3>2 DEF ItemsFollowRun
    <3> QED BY <3>1, <3>2
  <2>3. StatusFollowsItems'
    <3> SUFFICES ASSUME NEW q \in Runs
                 PROVE  /\ phase'[q] \in {"final", "done"} => todo'[q] = {}
                        /\ phase'[q] = "done" => runStatus'[q] = RunStatus(q)'
        BY DEF StatusFollowsItems
    <3>1. CASE q = r BY <2>1, <3>1
    <3>2. CASE q # r BY <2>1, <3>2, OtherRuns
    <3> QED BY <3>1, <3>2
  <2> QED BY <2>2, <2>3
<1>4. ASSUME NEW r \in Runs, NEW s \in Symbols, Decide(r, s) PROVE HInv'
    BY <1>t, <1>4, QuietForHonesty DEF Decide
<1>5. ASSUME NEW r \in Runs, NEW s \in Symbols, NEW outcome \in {"completed", "failed"},
             UpdateItem(r, s, outcome)
      PROVE  HInv'
  <2>1. /\ phase[r] = "deciding" /\ s \in todo[r]
        /\ item'[r][s] \in {"completed", "failed"}
        /\ \A x \in Symbols \ {s} : item'[r][x] = item[r][x]
        /\ todo'[r] = todo[r] \ {s}
        /\ phase'[r] = IF todo[r] = {s} THEN "final" ELSE "deciding"
        /\ UNCHANGED <<options, selected, runStatus>>
        /\ \A q \in Runs \ {r} : phase'[q] = phase[q] /\ todo'[q] = todo[q] /\ item'[q] = item[q]
      BY <1>t, <1>5 DEF UpdateItem, TypeOK
  <2>2. ItemsFollowRun'
    <3> SUFFICES ASSUME NEW q \in Runs, NEW x \in Symbols
                 PROVE  /\ phase'[q] = "idle" => item'[q][x] = "absent"
                        /\ phase'[q] = "storing" /\ x \in todo'[q] => item'[q][x] = "absent"
                        /\ \/ phase'[q] = "storing" /\ x \notin todo'[q]
                           \/ phase'[q] = "creating"
                           => item'[q][x] = IF x \in selected'[q] THEN "selected" ELSE "skipped"
                        /\ phase'[q] \in {"deciding", "final", "done"} /\ ~options'[q].dry =>
                              item'[q][x] \in IF x \notin selected'[q] THEN {"skipped"}
                                              ELSE IF x \in todo'[q] THEN {"selected"}
                                              ELSE {"completed", "failed"}
        BY DEF ItemsFollowRun
    <3>1. CASE q = r /\ x = s
      <4>1. s \in selected[r] BY <2>1 DEF IInv, DecidesSelected
      <4> QED BY <2>1, <3>1, <4>1
    <3>2. CASE q = r /\ x # s BY <2>1, <3>2 DEF ItemsFollowRun
    <3>3. CASE q # r BY <2>1, <3>3 DEF ItemsFollowRun
    <3> QED BY <3>1, <3>2, <3>3
  <2>3. StatusFollowsItems'
    <3> SUFFICES ASSUME NEW q \in Runs
                 PROVE  /\ phase'[q] \in {"final", "done"} => todo'[q] = {}
                        /\ phase'[q] = "done" => runStatus'[q] = RunStatus(q)'
        BY DEF StatusFollowsItems
    <3>1. CASE q = r BY <2>1, <3>1
    <3>2. CASE q # r BY <2>1, <3>2, OtherRuns
    <3> QED BY <3>1, <3>2
  <2> QED BY <2>2, <2>3
<1>6. ASSUME NEW r \in Runs, CreateRun(r) PROVE HInv'
  <2>1. /\ phase[r] = "creating"
        /\ todo'[r] = IF options[r].dry THEN {} ELSE selected[r]
        /\ phase'[r] = IF options[r].dry \/ selected[r] = {} THEN "final" ELSE "deciding"
        /\ UNCHANGED <<options, selected, item>>
        /\ \A q \in Runs \ {r} :
              phase'[q] = phase[q] /\ todo'[q] = todo[q] /\ runStatus'[q] = runStatus[q]
      BY <1>t, <1>6 DEF CreateRun, TypeOK
  <2>2. ItemsFollowRun' BY <2>1 DEF ItemsFollowRun
  <2>3. StatusFollowsItems'
    <3> SUFFICES ASSUME NEW q \in Runs
                 PROVE  /\ phase'[q] \in {"final", "done"} => todo'[q] = {}
                        /\ phase'[q] = "done" => runStatus'[q] = RunStatus(q)'
        BY DEF StatusFollowsItems
    <3>1. CASE q = r BY <2>1, <3>1
    <3>2. CASE q # r BY <2>1, <3>2, OtherRuns
    <3> QED BY <3>1, <3>2
  <2> QED BY <2>2, <2>3
<1>7. ASSUME NEW r \in Runs, EndRun(r) PROVE HInv'
  <2>1. /\ phase[r] = "final" /\ phase'[r] = "done"
        /\ runStatus'[r] = RunStatus(r)
        /\ UNCHANGED <<options, selected, todo, item>>
        /\ \A q \in Runs \ {r} : phase'[q] = phase[q] /\ runStatus'[q] = runStatus[q]
      BY <1>t, <1>7 DEF EndRun, TypeOK
  <2>2. ItemsFollowRun' BY <2>1 DEF ItemsFollowRun
  <2>3. RunStatus(r)' = RunStatus(r) BY <2>1 DEF RunStatus, Count
  <2>4. StatusFollowsItems'
    <3> SUFFICES ASSUME NEW q \in Runs
                 PROVE  /\ phase'[q] \in {"final", "done"} => todo'[q] = {}
                        /\ phase'[q] = "done" => runStatus'[q] = RunStatus(q)'
        BY DEF StatusFollowsItems
    <3>1. CASE q = r BY <2>1, <2>3, <3>1 DEF StatusFollowsItems
    <3>2. CASE q # r BY <2>1, <3>2, OtherRuns
    <3> QED BY <3>1, <3>2
  <2> QED BY <2>2, <2>4
<1>8. ASSUME NEW r \in Runs, Die(r) PROVE HInv'
  <2>1. \A q \in Runs : phase'[q] = phase[q] \/ phase'[q] = "dead"
      BY <1>t, <1>8 DEF Die, TypeOK
  <2> QED BY <1>t, <1>8, <2>1, QuietForHonesty DEF Die
<1>9. CASE UNCHANGED vars BY <1>t, <1>9, QuietForHonesty DEF vars
<1> QED BY <1>1, <1>2, <1>3, <1>4, <1>5, <1>6, <1>7, <1>8, <1>9 DEF Next, Advance, Finished

-----------------------------------------------------------------------------
(* Counting the items of a status: none, some, or all of the symbols. *)
LEMMA Counting ==
    ASSUME NEW r \in Runs, NEW st
    PROVE  /\ Count(r, st) \in Nat /\ Cardinality(Symbols) \in Nat
           /\ Count(r, st) = 0 <=> \A s \in Symbols : item[r][s] # st
           /\ Count(r, st) <= Cardinality(Symbols)
           /\ Count(r, st) = Cardinality(Symbols) <=> \A s \in Symbols : item[r][s] = st
<1> DEFINE Those == {s \in Symbols : item[r][s] = st}
<1>1. IsFiniteSet(Symbols) BY SymbolsAssumption
<1>2. /\ IsFiniteSet(Those) /\ Cardinality(Those) <= Cardinality(Symbols)
      /\ Cardinality(Those) = Cardinality(Symbols) => Those = Symbols
    <2>1. Those \subseteq Symbols OBVIOUS
    <2> HIDE DEF Those
    <2> QED BY <1>1, <2>1, FS_Subset
<1>3. Cardinality(Those) \in Nat /\ Cardinality(Symbols) \in Nat
    BY <1>1, <1>2, FS_CardinalityType
<1>4. Cardinality(Those) = 0 <=> Those = {}
    BY <1>2, FS_EmptySet
<1>5. Count(r, st) = Cardinality(Those) BY DEF Count
<1>6. Those = Symbols <=> \A s \in Symbols : item[r][s] = st OBVIOUS
<1>7. Those = {} <=> \A s \in Symbols : item[r][s] # st OBVIOUS
<1> HIDE DEF Those
<1> QED BY <1>2, <1>3, <1>4, <1>5, <1>6, <1>7

(* A run that ended names what became of its items: nothing stays         *)
(* selected, and its status tells decisions of some, of all and of none    *)
(* apart (service.py:133-141, 213-232).                                    *)
THEOREM EndedRunsAreHonest == Spec => []EndedRunIsHonest
<1>1. TypeOK /\ HInv => EndedRunIsHonest
  <2> SUFFICES ASSUME HInv, NEW r \in Runs, phase[r] = "done", ~options[r].dry
               PROVE  /\ Count(r, "selected") = 0
                      /\ runStatus[r] = "success" => \A s \in Symbols : item[r][s] = "completed"
                      /\ runStatus[r] = "partial_success" <=>
                              Count(r, "completed") \in 1 .. (Cardinality(Symbols) - 1)
                      /\ runStatus[r] = "failed" <=> Count(r, "completed") = 0 /\ Count(r, "failed") > 0
                      /\ runStatus[r] = "skipped" => \A s \in Symbols : item[r][s] = "skipped"
      BY DEF EndedRunIsHonest
  <2>1. \A s \in Symbols : item[r][s] \in {"skipped", "completed", "failed"}
      BY DEF HInv, ItemsFollowRun, StatusFollowsItems
  <2>2. /\ Count(r, "completed") \in Nat /\ Count(r, "failed") \in Nat /\ Count(r, "skipped") \in Nat
        /\ Cardinality(Symbols) \in Nat
      BY Counting
  <2>3. Count(r, "selected") = 0 BY <2>1, Counting
  <2>4. runStatus[r] = IF Count(r, "completed") + Count(r, "failed") = 0 THEN "skipped"
                       ELSE IF Count(r, "completed") = 0 THEN "failed"
                       ELSE IF Count(r, "failed") + Count(r, "skipped") > 0 THEN "partial_success"
                       ELSE "success"
      BY <2>3 DEF HInv, StatusFollowsItems, RunStatus
  <2>5. /\ Count(r, "completed") <= Cardinality(Symbols)
        /\ Count(r, "completed") = Cardinality(Symbols)
              <=> Count(r, "failed") = 0 /\ Count(r, "skipped") = 0
    <3>1. Count(r, "completed") = Cardinality(Symbols) <=> \A s \in Symbols : item[r][s] = "completed"
        BY Counting
    <3>2. Count(r, "failed") = 0 <=> \A s \in Symbols : item[r][s] # "failed"
        BY Counting
    <3>3. Count(r, "skipped") = 0 <=> \A s \in Symbols : item[r][s] # "skipped"
        BY Counting
    <3> QED BY <2>1, <3>1, <3>2, <3>3, Counting
  <2>6. runStatus[r] = "success" => \A s \in Symbols : item[r][s] = "completed"
    <3> SUFFICES ASSUME runStatus[r] = "success" PROVE \A s \in Symbols : item[r][s] = "completed"
        OBVIOUS
    <3>1. Count(r, "failed") = 0 /\ Count(r, "skipped") = 0 BY <2>2, <2>4
    <3> QED BY <2>5, <3>1, Counting
  <2>7. runStatus[r] = "partial_success" <=> Count(r, "completed") \in 1 .. (Cardinality(Symbols) - 1)
      BY <2>2, <2>4, <2>5
  <2>8. runStatus[r] = "failed" <=> Count(r, "completed") = 0 /\ Count(r, "failed") > 0
      BY <2>2, <2>4
  <2>9. runStatus[r] = "skipped" => \A s \in Symbols : item[r][s] = "skipped"
    <3> SUFFICES ASSUME runStatus[r] = "skipped" PROVE \A s \in Symbols : item[r][s] = "skipped"
        OBVIOUS
    <3>1. Count(r, "completed") = 0 /\ Count(r, "failed") = 0 BY <2>2, <2>4
    <3>2. \A s \in Symbols : item[r][s] # "completed" BY <3>1, Counting
    <3>3. \A s \in Symbols : item[r][s] # "failed" BY <3>1, Counting
    <3> QED BY <2>1, <3>2, <3>3
  <2> QED BY <2>3, <2>6, <2>7, <2>8, <2>9
<1>2. IInv => TypeOK BY DEF IInv
<1> QED BY <1>1, <1>2, InitIInv, NextIInv, InitHonest, NextHonest, PTL DEF Spec
=============================================================================
