---------------------------- MODULE DailyLoopProofs ----------------------------
(***************************************************************************)
(* The run document of DailyLoop is a RunLifecycle, and the safety         *)
(* properties of run and task hold, for every set of options, with or      *)
(* without a model client, exceptions and crashes.  A second run of a date *)
(* has an excuse for any number of triggers and any size of the window     *)
(* (DailyLoopSchedule), and the alerts of a run are stored, marked and     *)
(* announced for any number of senders and alerts (ActionAlerts).          *)
(***************************************************************************)
EXTENDS MCDailyLoop, TLAPS

Names == {StepOrder[i] : i \in DOMAIN StepOrder}
Records == [step : Names, status : Lifecycle!StepStatuses, linked : BOOLEAN]

(* A list of reports in the order of the loop. *)
Follows(ss) ==
    /\ ss \in Seq(Records)
    /\ Len(ss) <= 7
    /\ \A i \in 1 .. Len(ss) : ss[i].step = StepOrder[i]

(* A skipped step left nothing, a scan that succeeded left its id, and a   *)
(* step that was wanted is skipped only for the two reasons there are.     *)
Honest(ss) ==
    \A i \in 1 .. Len(ss) :
        /\ ss[i].status = "skipped" => ~ss[i].linked
        /\ ss[i].step = "watchtower" /\ ss[i].status = "success" => ss[i].linked
        /\ ss[i].status = "skipped" /\ ss[i].step \in wanted =>
              \/ ss[i].step = "daily_review" /\ ~llmReady
              \/ ss[i].step = "auto_decision" /\ "watchtower" \notin Links(ss)

-----------------------------------------------------------------------------
LEMMA Order ==
    /\ Len(StepOrder) = 7 /\ DOMAIN StepOrder = 1 .. 7
    /\ StepOrder[1] = "sync_holdings" /\ StepOrder[2] = "watchtower"
    /\ StepOrder[3] = "auto_decision" /\ StepOrder[4] = "portfolio_report"
    /\ StepOrder[5] = "daily_review" /\ StepOrder[6] = "evaluation"
    /\ StepOrder[7] = "improvement"
BY DEF StepOrder

LEMMA NamesAre ==
    Names = {"sync_holdings", "watchtower", "auto_decision", "portfolio_report",
             "daily_review", "evaluation", "improvement"}
BY Order DEF Names

(* Elements, growth and links of lists of reports. *)
LEMMA Element ==
    ASSUME NEW ss, Follows(ss), NEW i \in 1 .. Len(ss)
    PROVE  /\ ss[i] \in Records /\ ss[i].step = StepOrder[i]
           /\ ss[i].status \in Lifecycle!StepStatuses /\ ss[i].linked \in BOOLEAN
           /\ ss[i] \in Lifecycle!StepRecords(i)
<1>1. ss \in Seq(Records) /\ ss[i].step = StepOrder[i] BY DEF Follows
<1>2. ss[i] \in Records
  <2> HIDE DEF Records
  <2> QED BY <1>1
<1> QED BY <1>1, <1>2 DEF Records, Lifecycle!StepRecords

LEMMA Grown ==
    ASSUME NEW ss, Follows(ss), Len(ss) < 7,
           NEW r, r \in Lifecycle!StepRecords(Len(ss) + 1)
    PROVE  /\ Follows(Append(ss, r))
           /\ Len(Append(ss, r)) = Len(ss) + 1
           /\ Append(ss, r)[Len(ss) + 1] = r
           /\ \A i \in 1 .. Len(ss) : Append(ss, r)[i] = ss[i]
<1>1. Len(ss) \in Nat /\ ss \in Seq(Records)
    BY DEF Follows
<1>2. r \in Records /\ r.step = StepOrder[Len(ss) + 1]
    BY <1>1, Order DEF Lifecycle!StepRecords, Records, Names
<1>3. /\ Append(ss, r) \in Seq(Records)
      /\ Len(Append(ss, r)) = Len(ss) + 1
      /\ Append(ss, r)[Len(ss) + 1] = r
      /\ \A i \in 1 .. Len(ss) : Append(ss, r)[i] = ss[i]
  <2> HIDE DEF Records
  <2> QED BY <1>1, <1>2
<1> QED BY <1>1, <1>2, <1>3 DEF Follows

LEMMA LinkOf ==
    ASSUME NEW ss, Follows(ss), NEW n
    PROVE  n \in Links(ss) <=> \E i \in 1 .. Len(ss) : ss[i].linked /\ ss[i].step = n
<1>1. DOMAIN ss = 1 .. Len(ss) BY DEF Follows
<1> QED BY <1>1 DEF Links

(* Growth keeps a list honest. *)
LEMMA HonestGrown ==
    ASSUME NEW ss, Follows(ss), Honest(ss), Len(ss) < 7,
           NEW r, r \in Lifecycle!StepRecords(Len(ss) + 1),
           r.status = "skipped" => ~r.linked,
           r.step = "watchtower" /\ r.status = "success" => r.linked,
           r.status = "skipped" /\ r.step \in wanted =>
              \/ r.step = "daily_review" /\ ~llmReady
              \/ r.step = "auto_decision" /\ "watchtower" \notin Links(ss)
    PROVE  Honest(Append(ss, r)) /\ Links(ss) \subseteq Links(Append(ss, r))
<1> DEFINE new == Append(ss, r)
<1>1. /\ Follows(new) /\ Len(new) = Len(ss) + 1 /\ new[Len(ss) + 1] = r
      /\ \A i \in 1 .. Len(ss) : new[i] = ss[i]
      /\ Len(ss) \in Nat
    BY Grown DEF Follows
<1> HIDE DEF new
<1>2. \A n : n \in Links(new) <=> n \in Links(ss) \/ (r.linked /\ r.step = n)
  <2> SUFFICES ASSUME NEW n PROVE n \in Links(new) <=> n \in Links(ss) \/ (r.linked /\ r.step = n)
      OBVIOUS
  <2>1. n \in Links(new) <=> \E i \in 1 .. Len(new) : new[i].linked /\ new[i].step = n
      BY <1>1, LinkOf
  <2>2. n \in Links(ss) <=> \E i \in 1 .. Len(ss) : ss[i].linked /\ ss[i].step = n
      BY LinkOf
  <2>3. 1 .. Len(new) = (1 .. Len(ss)) \union {Len(ss) + 1}
      BY <1>1
  <2> QED BY <1>1, <2>1, <2>2, <2>3
<1>3. r.step = StepOrder[Len(ss) + 1]
    BY DEF Lifecycle!StepRecords
<1>4. \A i \in 1 .. Len(ss) : ss[i].step = "auto_decision" => r.step # "watchtower"
    BY <1>1, <1>3, Order DEF Follows
<1>5. \A i \in 1 .. Len(new) : i \in 1 .. Len(ss) \/ (i = Len(ss) + 1 /\ new[i] = r)
    BY <1>1
<1>6. \A i \in 1 .. Len(ss) :
        /\ new[i].status = "skipped" => ~new[i].linked
        /\ new[i].step = "watchtower" /\ new[i].status = "success" => new[i].linked
        /\ new[i].status = "skipped" /\ new[i].step \in wanted =>
              \/ new[i].step = "daily_review" /\ ~llmReady
              \/ new[i].step = "auto_decision" /\ "watchtower" \notin Links(new)
    BY <1>1, <1>2, <1>4 DEF Honest
<1>7. r.status = "skipped" => ("watchtower" \in Links(new) => "watchtower" \in Links(ss))
    BY <1>2
<1>8. Honest(new)
    BY <1>5, <1>6, <1>7 DEF Honest
<1> QED BY <1>2, <1>8 DEF new

(* What a step of the loop may append. *)
LEMMA NextReport ==
    ASSUME Follows(steps), Len(steps) < 7,
           NEW r,
           LET s == StepOrder[Len(steps) + 1]
           IN r \in IF Enabled(s) THEN Reports(s)
                    ELSE {[step |-> s, status |-> "skipped", linked |-> FALSE]}
    PROVE  /\ r \in Lifecycle!StepRecords(Len(steps) + 1)
           /\ r.status = "skipped" => ~r.linked
           /\ r.step = "watchtower" /\ r.status = "success" => r.linked
           /\ r.step = "auto_decision" /\ r.status # "skipped" => "watchtower" \in Links(steps)
           /\ r.status = "skipped" /\ r.step \in wanted =>
                \/ r.step = "daily_review" /\ ~llmReady
                \/ r.step = "auto_decision" /\ "watchtower" \notin Links(steps)
<1> DEFINE s == StepOrder[Len(steps) + 1]
<1> HIDE DEF s
<1>1. CASE Enabled(s)
  <2>1. r \in Reports(s) BY <1>1 DEF s
  <2>2. \/ r = [step |-> s, status |-> "failed", linked |-> FALSE]
        \/ r = [step |-> s, status |-> "failed", linked |-> TRUE]
        \/ r = [step |-> s, status |-> "success", linked |-> FALSE] /\ s # "watchtower"
        \/ r = [step |-> s, status |-> "success", linked |-> TRUE]
    <3>1. \/ r \in {[step |-> s, status |-> "failed", linked |-> FALSE]}
          \/ r \in (IF s \in {"sync_holdings", "daily_review", "evaluation"}
                     THEN {[step |-> s, status |-> "success", linked |-> FALSE]} ELSE {})
          \/ r \in (IF s \in {"sync_holdings", "evaluation"}
                     THEN {} ELSE {[step |-> s, status |-> "success", linked |-> TRUE]})
          \/ r \in (IF s = "auto_decision"
                     THEN {[step |-> s, status |-> "failed", linked |-> TRUE]} ELSE {})
        BY <2>1, Zenon DEF Reports
    <3> QED BY <3>1
  <2>3. s = "auto_decision" => "watchtower" \in Links(steps)
      BY <1>1 DEF Enabled
  <2>4. r \in Lifecycle!StepRecords(Len(steps) + 1)
    <3> DEFINE Fields(st, l) == [step |-> s, status |-> st, linked |-> l]
    <3>1. \A st \in Lifecycle!StepStatuses, l \in BOOLEAN :
            Fields(st, l) \in Lifecycle!StepRecords(Len(steps) + 1)
        BY Zenon DEF s, Lifecycle!StepRecords
    <3>2. {"failed", "success"} \subseteq Lifecycle!StepStatuses
        BY DEF Lifecycle!StepStatuses
    <3>3. \E st \in {"failed", "success"}, l \in BOOLEAN : r = Fields(st, l)
        BY <2>2, Zenon
    <3> QED BY <3>1, <3>2, <3>3, Zenon
  <2>5. r.step = s /\ r.status # "skipped"
      BY <2>2
  <2>6. s = "watchtower" /\ r.status = "success" => r.linked
      BY <2>2
  <2> QED BY <2>3, <2>4, <2>5, <2>6
<1>2. CASE ~Enabled(s)
  <2>1. r = [step |-> s, status |-> "skipped", linked |-> FALSE] BY <1>2 DEF s
  <2>2. s \in wanted => \/ s = "daily_review" /\ ~llmReady
                        \/ s = "auto_decision" /\ "watchtower" \notin Links(steps)
      BY <1>2 DEF Enabled
  <2> QED BY <2>1, <2>2 DEF s, Lifecycle!StepRecords, Lifecycle!StepStatuses
<1> QED BY <1>1, <1>2

-----------------------------------------------------------------------------
(* What the phase of the thread says about the document: until the loop    *)
(* starts it is empty, in the loop memory and document agree, after a step *)
(* the memory is one report ahead.                                         *)
Unstarted == {"request", "shell", "queued", "pending", "marked"}
InStep == {"begun", "init", "loop", "step"}
AtEnd == {"completing", "completed", "final"}
AfterStep == AtEnd \union {"report", "patch"}

Ahead == \E r \in Lifecycle!StepRecords(Len(runSteps) + 1) :
            /\ steps = Append(runSteps, r)
            /\ r.step = "auto_decision" /\ r.status # "skipped" => "watchtower" \in Links(runSteps)

ByPhase ==
    /\ phase = "request" => runStatus = "absent"
    /\ phase \in (Unstarted \ {"request"}) \union InStep \union AfterStep => runStatus = "running"
    /\ phase \in Unstarted => steps = <<>> /\ runSteps = <<>> /\ runLinks = {}
    /\ phase \in InStep => steps = runSteps /\ runLinks = Links(steps) /\ Len(steps) < 7
    /\ phase \in AfterStep => Len(runSteps) < 7 /\ runLinks = Links(runSteps) /\ Ahead
    /\ phase = "patch" => Len(steps) < 7
    /\ phase \in AtEnd => Len(steps) = 7
    /\ phase \in {"ran", "synced"} => runStatus \in Lifecycle!RunStatuses

DocInv ==
    /\ Follows(steps) /\ Follows(runSteps)
    /\ Honest(steps)
    /\ ByPhase
    /\ phase \in Exposed \union Protected \union Over
    /\ runStatus \in {"absent", "running"} \union Lifecycle!RunStatuses
    /\ runLinks \subseteq Names
    /\ mode \in {"background", "direct"} /\ wanted \in OptionSets /\ llmReady \in BOOLEAN

LEMMA EmptyList ==
    /\ Follows(<<>>) /\ Honest(<<>>) /\ Links(<<>>) = {} /\ Len(<<>>) = 0
BY DEF Follows, Honest, Links

LEMMA LinksAreNames == ASSUME NEW ss, Follows(ss) PROVE Links(ss) \subseteq Names
<1> SUFFICES ASSUME NEW n \in Links(ss) PROVE n \in Names
    OBVIOUS
<1>1. PICK i \in 1 .. Len(ss) : ss[i].step = n BY LinkOf
<1>2. ss[i] \in Records BY Element
<1> QED BY <1>1, <1>2 DEF Records

LEMMA InitDoc == Init => DocInv
<1> SUFFICES ASSUME Init PROVE DocInv
    OBVIOUS
<1> QED BY EmptyList DEF Init, DocInv, ByPhase, Unstarted, InStep, AfterStep, AtEnd, Exposed

(* Steps that leave the document and the memory as they are. *)
LEMMA QuietDoc ==
    ASSUME DocInv, UNCHANGED <<mode, wanted, llmReady, steps, runStatus, runSteps, runLinks>>,
           \/ phase' = phase
           \/ phase = "shell" /\ phase' = "queued"
           \/ phase = "queued" /\ phase' = "pending"
           \/ phase = "pending" /\ phase' = "marked"
           \/ phase = "ran" /\ phase' = "synced"
           \/ phase \in InStep /\ phase' \in InStep
           \/ phase = "report" /\ Len(steps) < 7 /\ phase' = "patch"
           \/ phase = "report" /\ Len(steps) = 7 /\ phase' \in AtEnd
           \/ phase \in AtEnd /\ phase' \in AtEnd
           \/ phase' \in {"done", "lost", "rescue", "rescued", "restarted"}
    PROVE  DocInv'
<1>1. (Follows(steps) /\ Follows(runSteps))' BY DEF DocInv, Follows
<1>2. Honest(steps)' BY DEF DocInv, Honest, Links
<1>3. Links(steps)' = Links(steps) /\ Links(runSteps)' = Links(runSteps) BY DEF Links
<1>4. Ahead => Ahead' BY <1>3 DEF Ahead
<1>5. ByPhase'
  <2> HIDE DEF Ahead
  <2> QED BY <1>3, <1>4 DEF DocInv, ByPhase, Unstarted, InStep, AfterStep, AtEnd
<1> QED BY <1>1, <1>2, <1>5 DEF DocInv, Exposed, Protected, Over, InStep, AtEnd

LEMMA StatusRange ==
    OverallStatus \in Lifecycle!RunStatuses
BY DEF OverallStatus, Lifecycle!RunStatuses

LEMMA DocStep == DocInv /\ [Next]_vars => DocInv'
<1> SUFFICES ASSUME DocInv, [Next]_vars PROVE DocInv'
    OBVIOUS
<1>1. CASE CreateShell
  <2>1. /\ phase = "request" /\ phase' = "shell" /\ runStatus' = "running"
        /\ steps = <<>> /\ runSteps = <<>> /\ runLinks = {}
        /\ UNCHANGED <<mode, wanted, llmReady, steps, runSteps, runLinks>>
      BY <1>1 DEF CreateShell, DocInv, ByPhase, Unstarted, config
  <2>2. ByPhase' BY <2>1 DEF ByPhase, Unstarted, InStep, AfterStep, AtEnd
  <2>3. Follows(steps)' /\ Follows(runSteps)' BY <2>1 DEF DocInv, Follows
  <2>4. Honest(steps)' BY <2>1 DEF DocInv, Honest, Links
  <2> QED BY <2>1, <2>2, <2>3, <2>4 DEF DocInv, Exposed
<1>2. CASE StartRun
  <2>1. /\ phase' \in {"begun", "loop"} /\ runStatus' = "running"
        /\ steps = <<>> /\ runSteps = <<>> /\ runLinks = {}
        /\ UNCHANGED <<mode, wanted, llmReady, steps, runSteps, runLinks>>
      BY <1>2 DEF StartRun, DocInv, ByPhase, Unstarted, config
  <2>2. Links(steps)' = {} BY <2>1, EmptyList
  <2>3. ByPhase' BY <2>1, <2>2, EmptyList DEF ByPhase, Unstarted, InStep, AfterStep, AtEnd
  <2>4. Follows(steps)' /\ Follows(runSteps)' BY <2>1 DEF DocInv, Follows
  <2>5. Honest(steps)' BY <2>1 DEF DocInv, Honest, Links
  <2> QED BY <2>1, <2>3, <2>4, <2>5 DEF DocInv, Protected
<1>3. CASE RunStep
  <2>1. /\ steps = runSteps /\ runLinks = Links(steps) /\ Len(steps) < 7
        /\ Len(steps) \in Nat /\ runStatus = "running"
        /\ UNCHANGED <<mode, wanted, llmReady, runStatus, runSteps, runLinks>>
      BY <1>3 DEF RunStep, DocInv, ByPhase, InStep, config, run, Follows
  <2>2. PICK r \in IF Enabled(StepOrder[Len(steps) + 1]) THEN Reports(StepOrder[Len(steps) + 1])
                  ELSE {[step |-> StepOrder[Len(steps) + 1], status |-> "skipped", linked |-> FALSE]} :
           steps' = Append(steps, r)
      BY <1>3 DEF RunStep
  <2>3. /\ r \in Lifecycle!StepRecords(Len(steps) + 1)
        /\ r.status = "skipped" => ~r.linked
        /\ r.step = "watchtower" /\ r.status = "success" => r.linked
        /\ r.step = "auto_decision" /\ r.status # "skipped" => "watchtower" \in Links(steps)
        /\ r.status = "skipped" /\ r.step \in wanted =>
             \/ r.step = "daily_review" /\ ~llmReady
             \/ r.step = "auto_decision" /\ "watchtower" \notin Links(steps)
      BY <2>1, NextReport DEF DocInv
  <2>4. Follows(steps)' /\ Len(steps') = Len(steps) + 1
      BY <2>1, <2>2, <2>3, Grown DEF DocInv, Follows
  <2>5. Honest(Append(steps, r))
      BY <2>1, <2>3, HonestGrown DEF DocInv
  <2>6. Honest(steps)' BY <2>1, <2>2, <2>5 DEF Honest, Links
  <2>7. Ahead'
    <3>1. Links(runSteps)' = Links(steps) BY <2>1 DEF Links
    <3>2. runSteps' = steps BY <2>1
    <3> QED BY <2>2, <2>3, <3>1, <3>2 DEF Ahead
  <2>8. phase' = "report" \/ phase' = IF Len(steps) + 1 = 7 THEN "final" ELSE "patch"
      BY <1>3, Order DEF RunStep
  <2>9. ByPhase'
    <3>1. runLinks' = Links(runSteps)' BY <2>1 DEF Links
    <3> HIDE DEF Ahead
    <3> QED BY <2>1, <2>4, <2>7, <2>8, <3>1 DEF ByPhase, Unstarted, InStep, AfterStep, AtEnd
  <2>10. Follows(runSteps)' BY <2>1 DEF DocInv, Follows
  <2> QED BY <2>1, <2>4, <2>6, <2>8, <2>9, <2>10 DEF DocInv, Protected
<1>4. CASE PatchProgress
  <2>1. /\ Len(steps) < 7 /\ runStatus = "running" /\ phase' = "loop"
        /\ runSteps' = steps /\ runLinks' = Links(steps)
        /\ UNCHANGED <<mode, wanted, llmReady, steps, runStatus>>
      BY <1>4 DEF PatchProgress, DocInv, ByPhase, AfterStep, config
  <2>2. Follows(steps)' /\ Follows(runSteps)' BY <2>1 DEF DocInv, Follows
  <2>3. Honest(steps)' BY <2>1 DEF DocInv, Honest, Links
  <2>4. Links(steps)' = Links(steps) BY <2>1 DEF Links
  <2>5. ByPhase' BY <2>1, <2>4 DEF ByPhase, Unstarted, InStep, AfterStep, AtEnd
  <2>6. Links(steps) \subseteq Names BY LinksAreNames DEF DocInv
  <2> QED BY <2>1, <2>2, <2>3, <2>5, <2>6 DEF DocInv, Protected
<1>5. CASE FinishRun
  <2>1. /\ runStatus' = OverallStatus /\ phase' \in {"ran", "done"}
        /\ runSteps' = steps /\ runLinks' = Links(steps)
        /\ UNCHANGED <<mode, wanted, llmReady, steps>>
      BY <1>5 DEF FinishRun, config
  <2>2. Follows(steps)' /\ Follows(runSteps)' BY <2>1 DEF DocInv, Follows
  <2>3. Honest(steps)' BY <2>1 DEF DocInv, Honest, Links
  <2>4. ByPhase' BY <2>1, StatusRange DEF ByPhase, Unstarted, InStep, AfterStep, AtEnd
  <2>5. Links(steps) \subseteq Names BY LinksAreNames DEF DocInv
  <2> QED BY <2>1, <2>2, <2>3, <2>4, <2>5, StatusRange DEF DocInv, Protected, Over
<1>6. CASE Crash
  <2>1. /\ phase' = "killed" /\ steps' = <<>>
        /\ UNCHANGED <<mode, wanted, llmReady, runStatus, runSteps, runLinks>>
      BY <1>6 DEF Crash, config, run
  <2>2. Follows(runSteps)' BY <2>1 DEF DocInv, Follows
  <2>3. Follows(steps)' /\ Honest(steps)' BY <2>1, EmptyList DEF Honest
  <2>4. ByPhase' BY <2>1 DEF ByPhase, Unstarted, InStep, AfterStep, AtEnd
  <2> QED BY <2>1, <2>2, <2>3, <2>4 DEF DocInv, Over
<1>7. CASE CreateTask \/ InitProgress \/ MarkRunning \/ SyncGraph
    BY <1>7, QuietDoc DEF CreateTask, InitProgress, MarkRunning, SyncGraph, config, run
<1>8. CASE SettleTask \/ MarkGraphFailed \/ MarkFailed \/ Raises \/ Restart
    BY <1>8, QuietDoc DEF SettleTask, MarkGraphFailed, MarkFailed, Raises, Restart, config, run
<1>9. CASE UNCHANGED vars
    BY <1>9, QuietDoc DEF vars
<1>10. CASE ReportStart
  <2>1. \/ phase \in InStep /\ phase' \in InStep
        \/ phase \in AtEnd /\ phase' \in AtEnd
      BY <1>10 DEF ReportStart, InStep, AtEnd
  <2> QED BY <1>10, <2>1, QuietDoc DEF ReportStart, config, run
<1>11. CASE ReportEnd
  <2>1. \/ phase \in InStep /\ phase' \in InStep
        \/ phase = "report" /\ Len(steps) < 7 /\ phase' = "patch"
        \/ phase = "report" /\ Len(steps) = 7 /\ phase' \in AtEnd
        \/ phase \in AtEnd /\ phase' \in AtEnd
    <3>1. Len(steps) \in Nat /\ Len(steps) <= 7 BY DEF DocInv, Follows
    <3>2. \A n \in Nat : n <= 7 => n < 7 \/ n = 7 OBVIOUS
    <3>3. Len(steps) < 7 \/ Len(steps) = 7 BY <3>1, <3>2, Zenon
    <3> QED BY <1>11, <3>3, Order DEF ReportEnd, InStep, AtEnd
  <2> QED BY <1>11, <2>1, QuietDoc DEF ReportEnd, config, run
<1> QED BY <1>1, <1>2, <1>3, <1>4, <1>5, <1>6, <1>7, <1>8, <1>9, <1>10, <1>11 DEF Next, Advance, Finished

LEMMA DocAlways == Spec => []DocInv
BY InitDoc, DocStep, PTL DEF Spec

-----------------------------------------------------------------------------
(* The status computed at the end fits the steps.                          *)
LEMMA OverallFits ==
    ASSUME Follows(steps), Len(steps) = 7
    PROVE  Lifecycle!Fits(OverallStatus, steps)
<1> USE DEF Lifecycle!Having
<1>1. \A i \in 1 .. 7 : steps[i].step = StepOrder[i] /\ DOMAIN steps = 1 .. 7
    BY DEF Follows
<1>2. \A st : st \in Statuses(MainSteps) <=> Lifecycle!Having(st, steps) \intersect MainSteps # {}
    BY DEF Statuses
<1>3. "failed" \in Statuses({StepOrder[i] : i \in DOMAIN StepOrder})
        <=> Lifecycle!Having("failed", steps) # {}
    BY <1>1, Order DEF Statuses
<1>4. Statuses({"watchtower", "portfolio_report"}) = {"failed"}
        => {"watchtower", "portfolio_report"} \subseteq Lifecycle!Having("failed", steps)
  <2>1. /\ steps[2].status \in Statuses({"watchtower", "portfolio_report"})
        /\ steps[4].status \in Statuses({"watchtower", "portfolio_report"})
      BY <1>1, Order DEF Statuses
  <2> QED BY <1>1, <2>1, Order
<1>5. "failed" \in Statuses(MainSteps) => Lifecycle!Having("failed", steps) # {}
    BY <1>2
<1> HIDE DEF Lifecycle!Having
<1>6. OverallStatus \in Lifecycle!RunStatuses BY StatusRange
<1> QED BY <1>2, <1>3, <1>4, <1>6 DEF OverallStatus, Lifecycle!Fits

(* Every step of the daily loop is a step of the lifecycle or a stutter.   *)
LEMMA LifecycleStep ==
    DocInv /\ [Next]_vars => [Lifecycle!Next]_<<runStatus, runSteps>>
<1> SUFFICES ASSUME DocInv, [Next]_vars
             PROVE  Lifecycle!Next \/ UNCHANGED <<runStatus, runSteps>>
    OBVIOUS
<1>1. CASE CreateShell
    BY <1>1 DEF CreateShell, DocInv, ByPhase, Lifecycle!Next, Lifecycle!Create
<1>2. CASE StartRun
  <2>1. runSteps' = runSteps /\ runStatus' = "running" BY <1>2 DEF StartRun
  <2>2. runStatus \in {"absent", "running"}
      BY <1>2 DEF StartRun, DocInv, ByPhase, Unstarted
  <2> QED BY <2>1, <2>2 DEF Lifecycle!Next, Lifecycle!Create
<1>g. ASSUME phase \in {"patch", "final"}, runSteps' = steps PROVE Lifecycle!Grow
  <2>1. Len(runSteps) < 7 /\ Ahead /\ runStatus = "running"
      BY <1>g DEF DocInv, ByPhase, AfterStep, AtEnd
  <2> QED BY <1>g, <2>1, Order DEF Ahead, Lifecycle!Grow
<1>3. CASE PatchProgress
    BY <1>3, <1>g DEF PatchProgress, Lifecycle!Next, Lifecycle!Record
<1>4. CASE FinishRun
  <2>1. phase = "final" /\ runSteps' = steps /\ runStatus' = OverallStatus /\ Len(steps) = 7
      BY <1>4 DEF FinishRun, DocInv, ByPhase, AtEnd
  <2>2. Lifecycle!Fits(runStatus', runSteps') BY <2>1, OverallFits DEF DocInv
  <2> QED BY <1>g, <2>1, <2>2, StatusRange, Order DEF Lifecycle!Next, Lifecycle!Finish
<1>5. CASE ~(CreateShell \/ StartRun \/ PatchProgress \/ FinishRun)
    BY <1>5 DEF Next, Advance, CreateTask, InitProgress, MarkRunning, RunStep,
        ReportStart, ReportEnd, SyncGraph, SettleTask, MarkGraphFailed, MarkFailed, Raises, Crash, Restart, Finished, vars, run
<1> QED BY <1>1, <1>2, <1>3, <1>4, <1>5

(* The document of a run is an honest history of it, whatever raises or    *)
(* dies: the daily loop implements RunLifecycle.                           *)
THEOREM ImplementsLifecycle == Spec => DocumentIsAppendOnly
<1>1. Init => Lifecycle!Init
    BY DEF Init, Lifecycle!Init
<1> QED BY <1>1, DocAlways, LifecycleStep, PTL
        DEF Spec, DocumentIsAppendOnly, Lifecycle!Spec, Lifecycle!vars

-----------------------------------------------------------------------------
(* A reader finds the scan of every decision. *)
LEMMA ScanStep == DocInv /\ DecisionsHaveAScan /\ [Next]_vars => DecisionsHaveAScan'
<1> SUFFICES ASSUME DocInv, DecisionsHaveAScan, [Next]_vars PROVE DecisionsHaveAScan'
    OBVIOUS
<1>d. \A ss : Follows(ss) => DOMAIN ss = 1 .. Len(ss) /\ Len(ss) \in Nat BY DEF Follows
<1>1. CASE RunStep
  <2>1. runLinks' = runLinks /\ runSteps' = runSteps /\ steps = runSteps
        /\ runLinks = Links(runSteps) /\ phase' \in AfterStep /\ Len(runSteps) < 7
      BY <1>1 DEF RunStep, run, DocInv, ByPhase, InStep, AfterStep, AtEnd
  <2>2. DocInv' BY DocStep
  <2>3. Ahead' BY <2>1, <2>2 DEF DocInv, ByPhase
  <2>4. Links(runSteps)' = runLinks BY <2>1 DEF Links
  <2>5. PICK r \in Lifecycle!StepRecords(Len(runSteps) + 1) :
            /\ steps' = Append(runSteps, r)
            /\ r.step = "auto_decision" /\ r.status # "skipped" => "watchtower" \in runLinks
      BY <2>1, <2>3, <2>4 DEF Ahead
  <2>6. \A i \in DOMAIN steps' : (i \in DOMAIN steps /\ steps'[i] = steps[i]) \/ steps'[i] = r
      BY <1>d, <2>1, <2>2, <2>5, Grown DEF DocInv
  <2> QED BY <2>1, <2>5, <2>6 DEF DecisionsHaveAScan
<1>2. ASSUME phase \in {"patch", "final"}, steps' = steps, runLinks' = Links(steps)
      PROVE  DecisionsHaveAScan'
  <2>1. Ahead /\ runLinks = Links(runSteps) /\ Len(runSteps) < 7
      BY <1>2 DEF DocInv, ByPhase, AfterStep, AtEnd
  <2>2. PICK r \in Lifecycle!StepRecords(Len(runSteps) + 1) : steps = Append(runSteps, r)
      BY <2>1 DEF Ahead
  <2>3. "watchtower" \in Links(runSteps) => "watchtower" \in Links(steps)
    <3>1. Follows(runSteps) /\ Follows(steps) BY DEF DocInv
    <3>2. /\ Len(runSteps) \in Nat /\ Len(steps) = Len(runSteps) + 1
          /\ \A i \in 1 .. Len(runSteps) : steps[i] = runSteps[i]
        BY <1>d, <2>1, <2>2, <3>1, Grown
    <3>3. "watchtower" \in Links(runSteps) =>
            \E i \in 1 .. Len(runSteps) : runSteps[i].linked /\ runSteps[i].step = "watchtower"
        BY <3>1, LinkOf
    <3>4. (\E i \in 1 .. Len(steps) : steps[i].linked /\ steps[i].step = "watchtower")
            => "watchtower" \in Links(steps)
        BY <3>1, LinkOf
    <3> QED BY <3>2, <3>3, <3>4
  <2>4. "auto_decision" \in Links(steps) =>
            \E i \in DOMAIN steps : steps[i].step = "auto_decision" /\ steps[i].status # "skipped"
      BY <1>d, LinkOf DEF DocInv, Honest
  <2> QED BY <1>2, <2>1, <2>3, <2>4 DEF DecisionsHaveAScan
<1>3. CASE PatchProgress
    BY <1>2, <1>3 DEF PatchProgress
<1>4. CASE FinishRun
    BY <1>2, <1>4 DEF FinishRun
<1>5. CASE Crash
    BY <1>5 DEF Crash, run, DecisionsHaveAScan
<1>6. CASE ~(RunStep \/ PatchProgress \/ FinishRun \/ Crash)
  <2>1. UNCHANGED <<steps, runLinks>>
      BY <1>6 DEF Next, Advance, CreateShell, CreateTask, InitProgress, MarkRunning, StartRun,
          ReportStart, ReportEnd, SyncGraph, SettleTask, MarkGraphFailed, MarkFailed, Raises, Restart, Finished, vars, run
  <2> QED BY <2>1 DEF DecisionsHaveAScan
<1> QED BY <1>1, <1>3, <1>4, <1>5, <1>6

(* Whatever raises or dies, decisions are only taken on a scan that the    *)
(* document links.                                                         *)
THEOREM ScanIsLinked == Spec => []DecisionsHaveAScan
<1>1. Init => DecisionsHaveAScan BY DEF Init, DecisionsHaveAScan
<1> QED BY <1>1, DocAlways, ScanStep, PTL DEF Spec

-----------------------------------------------------------------------------
(* A success is complete. *)
LEMMA SuccessAtEnd ==
    ASSUME DocInv, phase = "final", OverallStatus = "success", NEW s \in wanted
    PROVE  \/ \E i \in DOMAIN steps : steps[i].step = s /\ steps[i].status = "success"
           \/ s = "daily_review" /\ ~llmReady
           \/ s = "auto_decision" /\ "watchtower" \notin wanted
<1>1. Follows(steps) /\ Honest(steps) /\ Len(steps) = 7 /\ DOMAIN steps = 1 .. 7
    BY DEF DocInv, ByPhase, AtEnd, Follows
<1>2. wanted \subseteq Names
    BY OptionSetsAssumption DEF DocInv, Names
<1>3. Lifecycle!Having("failed", steps) = {}
    BY <1>1, OverallFits DEF Lifecycle!Fits
<1>4. \A i \in 1 .. 7 : steps[i].step = StepOrder[i] /\ steps[i].status \in {"success", "skipped"}
  <2>1. \A i \in 1 .. 7 : steps[i].step = StepOrder[i] /\ steps[i].status \in Lifecycle!StepStatuses
      BY <1>1, Element
  <2>2. \A i \in 1 .. 7 : steps[i].status # "failed"
      BY <1>1, <1>3 DEF Lifecycle!Having
  <2> QED BY <2>1, <2>2 DEF Lifecycle!StepStatuses
<1>5. PICK i \in 1 .. 7 : StepOrder[i] = s
    BY <1>2, Order DEF Names
<1>6. CASE steps[i].status = "success"
    BY <1>1, <1>4, <1>5, <1>6
<1>7. CASE steps[i].status = "skipped"
  <2>1. \/ s = "daily_review" /\ ~llmReady
        \/ s = "auto_decision" /\ "watchtower" \notin Links(steps)
      BY <1>1, <1>4, <1>5, <1>7 DEF Honest
  <2>2. "watchtower" \in wanted => "watchtower" \in Links(steps)
    <3>1. "watchtower" \in wanted => steps[2].status = "success"
        BY <1>1, <1>4, Order DEF Honest
    <3> QED BY <1>1, <1>4, <3>1, Order, LinkOf DEF Honest
  <2> QED BY <2>1, <2>2
<1> QED BY <1>4, <1>6, <1>7

LEMMA SuccessStep == DocInv /\ SuccessDidEverything /\ [Next]_vars => SuccessDidEverything'
<1> SUFFICES ASSUME DocInv, SuccessDidEverything, [Next]_vars PROVE SuccessDidEverything'
    OBVIOUS
<1>1. CASE FinishRun
  <2>1. phase = "final" /\ runStatus' = OverallStatus /\ runSteps' = steps
        /\ wanted' = wanted /\ llmReady' = llmReady
      BY <1>1 DEF FinishRun, config
  <2> QED BY <2>1, SuccessAtEnd DEF SuccessDidEverything
<1>2. CASE PatchProgress
    BY <1>2 DEF PatchProgress, DocInv, ByPhase, AfterStep, SuccessDidEverything
<1>3. CASE CreateShell \/ StartRun
    BY <1>3 DEF CreateShell, StartRun, SuccessDidEverything
<1>4. CASE ~(FinishRun \/ PatchProgress \/ CreateShell \/ StartRun)
  <2>1. UNCHANGED <<wanted, llmReady, runStatus, runSteps, runLinks>>
      BY <1>4 DEF Next, Advance, CreateTask, InitProgress, MarkRunning, RunStep, ReportStart, ReportEnd,
          SyncGraph, SettleTask, MarkGraphFailed, MarkFailed, Raises, Crash, Restart, Finished,
          vars, run, config
  <2> QED BY <2>1 DEF SuccessDidEverything
<1> QED BY <1>1, <1>2, <1>3, <1>4

(* A run that is stored as a success did what was asked of it. *)
THEOREM SuccessIsComplete == Spec => []SuccessDidEverything
<1>1. Init => SuccessDidEverything BY DEF Init, SuccessDidEverything
<1> QED BY <1>1, DocAlways, SuccessStep, PTL DEF Spec

-----------------------------------------------------------------------------
(* What the phase of the thread says about the task. *)
Reporting == {"init", "loop", "step", "report", "patch", "completing", "completed"}

TaskByPhase ==
    /\ mode = "direct" =>
          /\ taskStatus = "absent" /\ graphStatus = "none"
          /\ phase \notin {"shell", "queued", "pending", "marked", "begun", "init", "step", "report",
                           "completing", "completed", "ran", "synced", "rescue", "rescued"}
    /\ mode = "background" =>
          /\ phase \in {"request", "shell"} => taskStatus = "absent" /\ graphStatus = "none"
          /\ phase = "queued" => taskStatus = "queued" /\ graphStatus = "none"
          /\ phase = "pending" => taskStatus = "queued" /\ graphStatus = "pending"
          /\ phase \in {"marked", "begun"} => taskStatus = "running" /\ graphStatus = "pending"
          /\ phase \in Reporting => taskStatus = "running" /\ graphStatus \notin {"success", "fallback"}
          /\ phase \in {"final", "ran"} => taskStatus = "running" /\ graphStatus # "fallback"
          /\ phase = "synced" =>
                /\ taskStatus = "running"
                /\ runStatus = "success" => graphStatus = "success"
                /\ runStatus = "partial_success" => graphStatus = "fallback"
                /\ runStatus = "failed" => graphStatus = "failed"
          /\ phase \in {"rescue", "rescued"} => taskStatus = "running"
          /\ phase = "rescued" => graphStatus = "failed"

(* The nodes of a run that is under way hold what the steps reported; the  *)
(* last one is pending until then, so the graph is no success before.      *)
NodesByPhase ==
    mode = "background" =>
        /\ phase \in {"pending", "marked"} \union InStep \union {"report", "patch", "completing"}
              => nodes["completed"] = "pending"
        /\ phase \in InStep \union AfterStep =>
              \A i \in 1 .. Len(steps) :
                 nodes[StepOrder[i]] = steps[i].status \/ (phase = "report" /\ i = Len(steps))

NoneFailed(ss) == \A i \in 1 .. Len(ss) : ss[i].status # "failed"

(* A graph that is a success before the last write of the run foretells it. *)
GraphForetells ==
    mode = "background" /\ phase = "final" /\ graphStatus = "success"
        => NoneFailed(steps) /\ OverallStatus = "success"

SuccessIsClean == runStatus = "success" => NoneFailed(runSteps)

TaskTypes ==
    /\ taskStatus \in {"absent", "queued", "running", "completed", "failed"}
    /\ graphStatus \in {"none", "pending", "running", "success", "fallback", "failed"}
    /\ nodes \in [Nodes -> {"pending", "running", "success", "failed", "skipped"}]

TaskInv ==
    /\ TaskTypes /\ TaskByPhase /\ NodesByPhase /\ GraphForetells /\ SuccessIsClean
    /\ TaskTellsTheRun

LEMMA NodesAre ==
    /\ "init" \in Nodes /\ "completed" \in Nodes
    /\ \A i \in 1 .. 7 : StepOrder[i] \in Nodes /\ StepOrder[i] \notin {"init", "completed"}
    /\ \A i, j \in 1 .. 7 : StepOrder[i] = StepOrder[j] => i = j
BY Order DEF Nodes

LEMMA InitTask == Init => TaskInv
<1> SUFFICES ASSUME Init PROVE TaskInv
    OBVIOUS
<1>1. TaskTypes BY DEF Init, TaskTypes
<1>2. TaskByPhase BY DEF Init, TaskByPhase, Reporting
<1>3. NodesByPhase BY DEF Init, NodesByPhase, InStep, AfterStep, AtEnd
<1>4. GraphForetells /\ SuccessIsClean BY DEF Init, GraphForetells, SuccessIsClean
<1>5. TaskTellsTheRun BY DEF Init, TaskTellsTheRun
<1> QED BY <1>1, <1>2, <1>3, <1>4, <1>5 DEF TaskInv

(* What the status of the graph says of the nodes. *)
LEMMA InferredIs ==
    ASSUME NEW ns
    PROVE  /\ Inferred(ns) \in {"failed", "running", "pending", "success"}
           /\ Inferred(ns) = "success" =>
                 \A n \in Nodes : ns[n] \notin {"failed", "running", "pending"}
BY DEF Inferred

(* The status of the run, when no step failed and it is not a failure. *)
LEMMA CleanIsSuccess ==
    ASSUME DocInv, phase \in AtEnd
    PROVE  /\ NoneFailed(steps) /\ OverallStatus # "failed" => OverallStatus = "success"
           /\ OverallStatus = "success" => NoneFailed(steps)
<1>1. Follows(steps) /\ Len(steps) = 7 /\ DOMAIN steps = 1 .. Len(steps)
    BY DEF DocInv, ByPhase, Follows
<1>2. Lifecycle!Fits(OverallStatus, steps) BY <1>1, OverallFits
<1>3. Lifecycle!Having("failed", steps) = {} <=> NoneFailed(steps)
    BY <1>1 DEF Lifecycle!Having, NoneFailed
<1>4. OverallStatus \in Lifecycle!RunStatuses BY StatusRange
<1> HIDE DEF Lifecycle!Having
<1> QED BY <1>2, <1>3, <1>4 DEF Lifecycle!Fits, Lifecycle!RunStatuses

(* A report of a node, begun or ended.                                     *)
LEMMA ReportedNodes ==
    ASSUME DocInv, TaskInv, NEW n \in Nodes,
           NEW st \in {"pending", "running", "success", "failed", "skipped"},
           nodes' = [nodes EXCEPT ![n] = st]
    PROVE  /\ nodes' \in [Nodes -> {"pending", "running", "success", "failed", "skipped"}]
           /\ nodes'[n] = st
           /\ \A m \in Nodes : m # n => nodes'[m] = nodes[m]
BY DEF TaskInv, TaskTypes

(* Steps that leave the documents of the run and the task alone and go to  *)
(* a phase of which nothing is said.                                       *)
LEMMA QuietTask ==
    ASSUME TaskInv, UNCHANGED <<mode, runStatus, runSteps, taskStatus, graphStatus, nodes>>,
           phase' \in {"lost", "killed", "restarted", "done"}
    PROVE  TaskInv'
<1>1. TaskTypes' BY DEF TaskInv, TaskTypes
<1>2. TaskByPhase' BY DEF TaskInv, TaskByPhase, Reporting
<1>3. NodesByPhase' BY DEF NodesByPhase, InStep, AfterStep, AtEnd
<1>4. GraphForetells' BY DEF GraphForetells
<1>5. SuccessIsClean' BY DEF TaskInv, SuccessIsClean, NoneFailed
<1>6. TaskTellsTheRun' BY DEF TaskInv, TaskTellsTheRun
<1> QED BY <1>1, <1>2, <1>3, <1>4, <1>5, <1>6 DEF TaskInv

LEMMA ReportStartTask ==
    ASSUME DocInv, TaskInv, ReportStart PROVE TaskInv'
<1>1. /\ mode = "background" /\ mode' = mode /\ taskStatus' = taskStatus /\ graphStatus' = "running"
      /\ UNCHANGED <<steps, runStatus, runSteps>>
      /\ nodes' = [nodes EXCEPT ![Node] = "running"]
      /\ \/ phase = "begun" /\ phase' = "init"
         \/ phase = "loop" /\ phase' = "step"
         \/ phase = "completing" /\ phase' = "completed"
    BY DEF ReportStart, config, run
<1>2. Follows(steps) /\ Len(steps) \in Nat /\ Len(steps) <= 7
    BY DEF DocInv, Follows
<1>3. /\ Node \in Nodes
      /\ phase # "completing" => Node # "completed"
      /\ \A i \in 1 .. Len(steps) : Node # StepOrder[i]
  <2>1. CASE phase = "begun" BY <2>1, <1>2, NodesAre DEF Node
  <2>2. CASE phase = "loop"
    <3>1. Len(steps) < 7 BY <2>2 DEF DocInv, ByPhase, InStep
    <3>2. Node = StepOrder[Len(steps) + 1] BY <2>2 DEF Node
    <3> QED BY <2>2, <3>1, <3>2, <1>2, NodesAre
  <2>3. CASE phase = "completing" BY <2>3, <1>2, NodesAre DEF Node
  <2> QED BY <1>1, <2>1, <2>2, <2>3
<1>4. /\ nodes' \in [Nodes -> {"pending", "running", "success", "failed", "skipped"}]
      /\ \A m \in Nodes : m # Node => nodes'[m] = nodes[m]
    BY <1>1, <1>3, ReportedNodes
<1>5. TaskTypes' BY <1>1, <1>4 DEF TaskInv, TaskTypes
<1>6. TaskByPhase' BY <1>1 DEF TaskInv, TaskByPhase, Reporting
<1>7. NodesByPhase'
  <2>1. phase \in InStep \union AfterStep /\ phase # "report" /\ phase' # "report"
        /\ phase' \in InStep \union AfterStep
      BY <1>1 DEF InStep, AfterStep, AtEnd
  <2>2. phase # "completing" => nodes'["completed"] = "pending"
      BY <1>1, <1>3, <1>4, <2>1, NodesAre DEF TaskInv, NodesByPhase, InStep
  <2>3. \A i \in 1 .. Len(steps) : nodes'[StepOrder[i]] = steps[i].status
      BY <1>1, <1>2, <1>3, <1>4, <2>1, NodesAre DEF TaskInv, NodesByPhase
  <2> QED BY <1>1, <2>1, <2>2, <2>3 DEF NodesByPhase, InStep, AfterStep, AtEnd
<1>8. GraphForetells' /\ SuccessIsClean'
    BY <1>1 DEF TaskInv, GraphForetells, SuccessIsClean, NoneFailed
<1>9. TaskTellsTheRun'
    BY <1>1 DEF TaskInv, TaskTellsTheRun, TaskByPhase, Reporting
<1> QED BY <1>5, <1>6, <1>7, <1>8, <1>9 DEF TaskInv

LEMMA ReportEndTask ==
    ASSUME DocInv, TaskInv, ReportEnd PROVE TaskInv'
<1>m. mode = "background"
    BY DEF ReportEnd, DocInv, TaskInv, TaskByPhase
<1>2. Follows(steps) /\ Len(steps) \in Nat /\ Len(steps) <= 7
    BY DEF DocInv, Follows
<1>1. /\ mode' = mode /\ taskStatus' = taskStatus /\ graphStatus' = Inferred(nodes')
      /\ UNCHANGED <<steps, runStatus, runSteps>>
      /\ nodes' = [nodes EXCEPT ![Node] = NodeResult]
      /\ \/ phase = "init" /\ phase' = "loop"
         \/ phase = "report" /\ phase' \in {"patch", "completing"}
         \/ phase = "completed" /\ phase' = "final"
  <2>1. Len(steps) < Len(StepOrder) \/ Len(steps) = Len(StepOrder) BY <1>2, Order
  <2> QED BY <2>1, Zenon DEF ReportEnd, config, run
<1>r. phase = "report" => Len(steps) >= 1 /\ steps[Len(steps)] \in Lifecycle!StepRecords(Len(steps))
  <2> SUFFICES ASSUME phase = "report" PROVE Len(steps) >= 1 /\ steps[Len(steps)] \in Lifecycle!StepRecords(Len(steps))
      OBVIOUS
  <2>1. Ahead /\ Follows(runSteps) /\ Len(runSteps) < 7 BY DEF DocInv, ByPhase, AfterStep
  <2>2. PICK r \in Lifecycle!StepRecords(Len(runSteps) + 1) : steps = Append(runSteps, r)
      BY <2>1 DEF Ahead
  <2>3. Len(steps) = Len(runSteps) + 1 /\ Len(runSteps) \in Nat BY <2>1, <2>2, Grown DEF Follows
  <2>4. Len(steps) \in 1 .. Len(steps) BY <2>3
  <2> QED BY <1>2, <2>3, <2>4, Element
<1>3. /\ Node \in Nodes
      /\ phase # "completed" => Node # "completed"
      /\ phase # "report" => \A i \in 1 .. Len(steps) : Node # StepOrder[i]
      /\ phase = "report" => Node = StepOrder[Len(steps)]
  <2>1. CASE phase = "init" BY <2>1, <1>2, NodesAre DEF Node
  <2>2. CASE phase = "report"
    <3>1. Node = steps[Len(steps)].step BY <2>2 DEF Node
    <3>2. steps[Len(steps)].step = StepOrder[Len(steps)] BY <1>2, <1>r, <2>2 DEF Follows
    <3> QED BY <2>2, <3>1, <3>2, <1>2, <1>r, NodesAre
  <2>3. CASE phase = "completed" BY <2>3, <1>2, NodesAre DEF Node
  <2> QED BY <1>1, <2>1, <2>2, <2>3
<1>s. NodeResult \in {"success", "failed", "skipped"}
    BY <1>r DEF NodeResult, Lifecycle!StepRecords, Lifecycle!StepStatuses
<1>4. /\ nodes' \in [Nodes -> {"pending", "running", "success", "failed", "skipped"}]
      /\ nodes'[Node] = NodeResult
      /\ \A m \in Nodes : m # Node => nodes'[m] = nodes[m]
    BY <1>1, <1>3, <1>s, ReportedNodes
<1>i. /\ graphStatus' \in {"failed", "running", "pending", "success"}
      /\ graphStatus' = "success" => \A n \in Nodes : nodes'[n] \notin {"failed", "running", "pending"}
    BY <1>1, InferredIs
<1>7. NodesByPhase'
  <2>1. phase \in InStep \union AfterStep /\ phase' # "report" /\ phase' \in InStep \union AfterStep
      BY <1>1 DEF InStep, AfterStep, AtEnd
  <2>2. phase # "completed" => nodes'["completed"] = "pending"
      BY <1>1, <1>m, <1>3, <1>4, <2>1, NodesAre DEF TaskInv, NodesByPhase, InStep
  <2>3. \A i \in 1 .. Len(steps) : nodes'[StepOrder[i]] = steps[i].status
    <3> SUFFICES ASSUME NEW i \in 1 .. Len(steps) PROVE nodes'[StepOrder[i]] = steps[i].status
        OBVIOUS
    <3>1. CASE phase = "report" /\ i = Len(steps)
        BY <3>1, <1>3, <1>4 DEF NodeResult
    <3>2. CASE ~(phase = "report" /\ i = Len(steps))
      <4>1. nodes[StepOrder[i]] = steps[i].status
          BY <3>2, <1>m, <2>1 DEF TaskInv, NodesByPhase
      <4>2. Node # StepOrder[i] /\ StepOrder[i] \in Nodes
          BY <3>2, <1>2, <1>3, <1>r, NodesAre
      <4> QED BY <4>1, <4>2, <1>4
    <3> QED BY <3>1, <3>2
  <2> QED BY <1>1, <2>1, <2>2, <2>3 DEF NodesByPhase, InStep, AfterStep, AtEnd
<1>n. phase # "completed" => graphStatus' # "success"
    BY <1>1, <1>m, <1>i, <1>7, NodesAre DEF NodesByPhase, InStep
<1>f. ASSUME phase = "completed", graphStatus' = "success"
      PROVE  NoneFailed(steps) /\ OverallStatus = "success" /\ NoneFailed(runSteps) /\ Len(runSteps) = 6
             /\ runStatus = "running"
  <2>1. nodes'["completed"] = NodeResult /\ NodeResult # "failed"
      BY <1>f, <1>i, <1>4, NodesAre DEF Node
  <2>2. OverallStatus # "failed" BY <1>f, <2>1 DEF NodeResult
  <2>3. \A i \in 1 .. Len(steps) : nodes'[StepOrder[i]] = steps[i].status
      BY <1>1, <1>m, <1>f, <1>7 DEF NodesByPhase, InStep, AfterStep, AtEnd
  <2>4. NoneFailed(steps)
      BY <1>f, <1>i, <2>3, <1>2, NodesAre DEF NoneFailed
  <2>5. Len(steps) = 7 /\ Ahead /\ Len(runSteps) < 7 /\ Follows(runSteps) /\ runStatus = "running"
      BY <1>f DEF DocInv, ByPhase, AfterStep, AtEnd
  <2>6. PICK r \in Lifecycle!StepRecords(Len(runSteps) + 1) : steps = Append(runSteps, r)
      BY <2>5 DEF Ahead
  <2>7. /\ Len(runSteps) \in Nat /\ Len(steps) = Len(runSteps) + 1
        /\ \A i \in 1 .. Len(runSteps) : steps[i] = runSteps[i]
      BY <2>5, <2>6, Grown DEF Follows
  <2>8. NoneFailed(runSteps) BY <2>4, <2>7 DEF NoneFailed
  <2>9. OverallStatus = "success" BY <1>f, <2>2, <2>4, CleanIsSuccess DEF AtEnd
  <2>a. \A n \in Nat : 7 = n + 1 => n = 6 OBVIOUS
  <2>10. Len(runSteps) = 6 BY <2>5, <2>7, <2>a, Zenon
  <2> QED BY <2>4, <2>5, <2>8, <2>9, <2>10
<1>5. TaskTypes' BY <1>1, <1>4, <1>i DEF TaskInv, TaskTypes
<1>6. TaskByPhase' BY <1>1, <1>m, <1>i, <1>n DEF TaskInv, TaskByPhase, Reporting
<1>8. GraphForetells'
  <2>1. NoneFailed(steps)' <=> NoneFailed(steps) BY <1>1 DEF NoneFailed
  <2>2. OverallStatus' = OverallStatus BY <1>1 DEF OverallStatus, Statuses
  <2> QED BY <1>1, <1>f, <2>1, <2>2 DEF GraphForetells
<1>9. SuccessIsClean' BY <1>1 DEF TaskInv, SuccessIsClean, NoneFailed
<1>10. TaskTellsTheRun'
  <2>1. taskStatus' = "running" BY <1>1, <1>m DEF TaskInv, TaskByPhase, Reporting
  <2>2. DOMAIN runSteps = 1 .. Len(runSteps) BY DEF DocInv, Follows
  <2>3. graphStatus' = "success" =>
            runStatus = "running" /\ Len(runSteps) = 6 /\ NoneFailed(runSteps)
      BY <1>f, <1>n
  <2> QED BY <1>1, <1>i, <2>1, <2>2, <2>3, Order DEF TaskTellsTheRun, NoneFailed
<1> QED BY <1>5, <1>6, <1>7, <1>8, <1>9, <1>10 DEF TaskInv

LEMMA TaskStep == DocInv /\ TaskInv /\ [Next]_vars => TaskInv'
<1> SUFFICES ASSUME DocInv, TaskInv, [Next]_vars PROVE TaskInv'
    OBVIOUS
<1> USE DEF config, run, task, graph
<1>m. mode \in {"background", "direct"} BY DEF DocInv
<1>t. TaskTypes /\ TaskByPhase /\ NodesByPhase /\ GraphForetells /\ SuccessIsClean /\ TaskTellsTheRun
    BY DEF TaskInv
<1>d. DOMAIN steps = 1 .. Len(steps) /\ DOMAIN runSteps = 1 .. Len(runSteps)
    BY DEF DocInv, Follows
<1>1. CASE CreateShell \/ StartRun
  <2>0. /\ runStatus' = "running" /\ UNCHANGED <<mode, steps, runSteps, taskStatus, graphStatus, nodes>>
        /\ \/ phase = "request" /\ mode = "background" /\ phase' = "shell"
           \/ phase = "request" /\ mode = "direct" /\ phase' = "loop"
           \/ phase = "marked" /\ mode = "background" /\ phase' = "begun"
      BY <1>1, <1>m, <1>t DEF CreateShell, StartRun, TaskByPhase
  <2>1. TaskTypes' BY <1>t, <2>0 DEF TaskTypes
  <2>2. TaskByPhase' BY <1>t, <2>0 DEF TaskByPhase, Reporting
  <2>3. NodesByPhase'
    <3>1. steps = <<>> BY <2>0 DEF DocInv, ByPhase, Unstarted
    <3> QED BY <1>t, <2>0, <3>1 DEF NodesByPhase, InStep, AfterStep, AtEnd
  <2>4. GraphForetells' /\ SuccessIsClean' BY <2>0 DEF GraphForetells, SuccessIsClean
  <2>5. TaskTellsTheRun' BY <1>t, <2>0 DEF TaskTellsTheRun, TaskByPhase
  <2> QED BY <2>1, <2>2, <2>3, <2>4, <2>5 DEF TaskInv
<1>2. CASE CreateTask \/ InitProgress \/ MarkRunning
  <2>0. /\ UNCHANGED <<mode, steps, runStatus, runSteps>>
        /\ phase \in {"shell", "queued", "pending"} /\ mode = "background"
        /\ \/ phase' = "queued" /\ taskStatus' = "queued" /\ graphStatus' = "none" /\ nodes' = nodes
           \/ phase' = "pending" /\ taskStatus' = "queued" /\ graphStatus' = "pending"
              /\ nodes' = [n \in Nodes |-> "pending"]
           \/ phase = "pending" /\ phase' = "marked" /\ taskStatus' = "running"
              /\ graphStatus' = "pending" /\ nodes' = nodes
      BY <1>2, <1>m, <1>t DEF CreateTask, InitProgress, MarkRunning, TaskByPhase
  <2>1. TaskTypes' BY <1>t, <2>0 DEF TaskTypes
  <2>2. TaskByPhase' BY <2>0 DEF TaskByPhase, Reporting
  <2>3. NodesByPhase' BY <1>t, <2>0, NodesAre DEF NodesByPhase, InStep, AfterStep, AtEnd
  <2>4. GraphForetells' /\ SuccessIsClean' BY <1>t, <2>0 DEF GraphForetells, SuccessIsClean, NoneFailed
  <2>5. TaskTellsTheRun' BY <2>0 DEF TaskTellsTheRun
  <2> QED BY <2>1, <2>2, <2>3, <2>4, <2>5 DEF TaskInv
<1>3. CASE RunStep
  <2>0. /\ UNCHANGED <<mode, runStatus, runSteps, taskStatus, graphStatus, nodes>>
        /\ phase = IF mode = "background" THEN "step" ELSE "loop"
        /\ phase' \in IF mode = "background" THEN {"report"} ELSE {"final", "patch"}
      BY <1>3 DEF RunStep
  <2>1. TaskTypes' BY <1>t, <2>0 DEF TaskTypes
  <2>2. TaskByPhase' BY <1>m, <1>t, <2>0 DEF TaskByPhase, Reporting
  <2>3. NodesByPhase'
    <3> SUFFICES ASSUME mode = "background" PROVE NodesByPhase'
        BY <1>m, <2>0 DEF NodesByPhase
    <3>1. phase = "step" /\ phase' = "report" BY <2>0
    <3>2. PICK r : /\ steps' = Append(steps, r)
                   /\ r \in IF Enabled(StepOrder[Len(steps) + 1]) THEN Reports(StepOrder[Len(steps) + 1])
                            ELSE {[step |-> StepOrder[Len(steps) + 1], status |-> "skipped", linked |-> FALSE]}
        BY <1>3 DEF RunStep
    <3>3. Follows(steps) /\ Len(steps) < 7 BY <3>1 DEF DocInv, ByPhase, InStep
    <3>4. r \in Lifecycle!StepRecords(Len(steps) + 1) BY <3>2, <3>3, NextReport
    <3>5. /\ Len(steps') = Len(steps) + 1 /\ Len(steps) \in Nat
          /\ \A i \in 1 .. Len(steps) : steps'[i] = steps[i]
        BY <3>2, <3>3, <3>4, Grown DEF Follows
    <3>6. \A i \in 1 .. Len(steps') : i = Len(steps') \/ i \in 1 .. Len(steps) BY <3>5
    <3> QED BY <1>t, <2>0, <3>1, <3>5, <3>6 DEF NodesByPhase, InStep, AfterStep, AtEnd
  <2>4. GraphForetells' /\ SuccessIsClean' BY <1>t, <1>m, <2>0 DEF GraphForetells, SuccessIsClean, NoneFailed
  <2>5. TaskTellsTheRun' BY <1>t, <2>0 DEF TaskTellsTheRun
  <2> QED BY <2>1, <2>2, <2>3, <2>4, <2>5 DEF TaskInv
<1>4. CASE PatchProgress
  <2>0. /\ UNCHANGED <<mode, steps, runStatus, taskStatus, graphStatus, nodes>>
        /\ phase = "patch" /\ phase' = "loop" /\ runStatus = "running"
      BY <1>4 DEF PatchProgress, DocInv, ByPhase, AfterStep
  <2>1. TaskTypes' BY <1>t, <2>0 DEF TaskTypes
  <2>2. TaskByPhase' BY <1>t, <2>0 DEF TaskByPhase, Reporting
  <2>3. NodesByPhase' BY <1>t, <2>0 DEF NodesByPhase, InStep, AfterStep, AtEnd
  <2>4. GraphForetells' /\ SuccessIsClean' BY <2>0 DEF GraphForetells, SuccessIsClean
  <2>5. TaskTellsTheRun' BY <1>m, <1>t, <2>0 DEF TaskTellsTheRun, TaskByPhase, Reporting
  <2> QED BY <2>1, <2>2, <2>3, <2>4, <2>5 DEF TaskInv
<1>5. CASE FinishRun
  <2>0. /\ UNCHANGED <<mode, steps, taskStatus, graphStatus, nodes>>
        /\ phase = "final" /\ phase' = IF mode = "background" THEN "ran" ELSE "done"
        /\ runStatus' = OverallStatus /\ runSteps' = steps
      BY <1>5 DEF FinishRun
  <2>1. TaskTypes' BY <1>t, <2>0 DEF TaskTypes
  <2>2. TaskByPhase' BY <1>m, <1>t, <2>0 DEF TaskByPhase, Reporting
  <2>3. NodesByPhase' BY <1>m, <2>0 DEF NodesByPhase, InStep, AfterStep, AtEnd
  <2>4. GraphForetells' BY <1>m, <2>0 DEF GraphForetells
  <2>c. SuccessIsClean'
    <3>1. OverallStatus = "success" => NoneFailed(steps) BY <2>0, CleanIsSuccess DEF AtEnd
    <3> QED BY <2>0, <3>1 DEF SuccessIsClean, NoneFailed
  <2>5. TaskTellsTheRun'
    <3>1. taskStatus \in {"absent", "running"} /\ graphStatus # "fallback"
          /\ (graphStatus = "success" => mode = "background")
        BY <1>m, <1>t, <2>0 DEF TaskByPhase
    <3>2. graphStatus = "success" => OverallStatus = "success" /\ NoneFailed(steps)
        BY <1>t, <2>0, <3>1 DEF GraphForetells
    <3> QED BY <1>d, <2>0, <3>1, <3>2 DEF TaskTellsTheRun, NoneFailed
  <2> QED BY <2>1, <2>2, <2>3, <2>4, <2>c, <2>5 DEF TaskInv
<1>6. CASE SyncGraph
  <2>0. /\ UNCHANGED <<mode, steps, runStatus, runSteps, taskStatus, nodes>>
        /\ phase = "ran" /\ phase' = "synced" /\ mode = "background"
        /\ graphStatus' = CASE runStatus = "success" -> "success"
                            [] runStatus = "partial_success" -> "fallback"
                            [] OTHER -> "failed"
      BY <1>6, <1>m, <1>t DEF SyncGraph, TaskByPhase
  <2>1. TaskTypes' BY <1>t, <2>0 DEF TaskTypes
  <2>2. TaskByPhase' BY <1>t, <2>0 DEF TaskByPhase, Reporting
  <2>3. NodesByPhase' BY <2>0 DEF NodesByPhase, InStep, AfterStep, AtEnd
  <2>4. GraphForetells' /\ SuccessIsClean' BY <1>t, <2>0 DEF GraphForetells, SuccessIsClean, NoneFailed
  <2>5. TaskTellsTheRun'
      BY <1>d, <1>t, <2>0 DEF TaskTellsTheRun, TaskByPhase, SuccessIsClean, NoneFailed
  <2> QED BY <2>1, <2>2, <2>3, <2>4, <2>5 DEF TaskInv
<1>7. CASE SettleTask
  <2>0. /\ UNCHANGED <<mode, steps, runStatus, runSteps, graphStatus, nodes>>
        /\ phase = "synced" /\ phase' = "done" /\ mode = "background"
        /\ taskStatus' = IF runStatus = "failed" THEN "failed" ELSE "completed"
        /\ runStatus \in Lifecycle!RunStatuses
      BY <1>7, <1>m, <1>t DEF SettleTask, TaskByPhase, DocInv, ByPhase
  <2>1. TaskTypes' BY <1>t, <2>0 DEF TaskTypes
  <2>2. TaskByPhase' BY <2>0 DEF TaskByPhase, Reporting
  <2>3. NodesByPhase' BY <2>0 DEF NodesByPhase, InStep, AfterStep, AtEnd
  <2>4. GraphForetells' /\ SuccessIsClean' BY <1>t, <2>0 DEF GraphForetells, SuccessIsClean, NoneFailed
  <2>5. TaskTellsTheRun'
      BY <1>t, <2>0 DEF TaskTellsTheRun, TaskByPhase, Lifecycle!RunStatuses
  <2> QED BY <2>1, <2>2, <2>3, <2>4, <2>5 DEF TaskInv
<1>8. CASE MarkGraphFailed \/ MarkFailed
  <2>0. /\ UNCHANGED <<mode, steps, runStatus, runSteps>> /\ mode = "background"
        /\ \/ phase' = "rescued" /\ taskStatus' = taskStatus /\ graphStatus' = "failed"
           \/ phase' = "done" /\ taskStatus' = "failed" /\ graphStatus' = graphStatus /\ graphStatus = "failed"
        /\ taskStatus = "running"
        /\ \/ nodes' = nodes
           \/ nodes' = [n \in Nodes |-> IF nodes[n] = "running" THEN "failed" ELSE nodes[n]]
      BY <1>8, <1>m, <1>t DEF MarkGraphFailed, MarkFailed, TaskByPhase
  <2>1. TaskTypes' BY <1>t, <2>0 DEF TaskTypes
  <2>2. TaskByPhase' BY <2>0 DEF TaskByPhase, Reporting
  <2>3. NodesByPhase' BY <2>0 DEF NodesByPhase, InStep, AfterStep, AtEnd
  <2>4. GraphForetells' /\ SuccessIsClean' BY <1>t, <2>0 DEF GraphForetells, SuccessIsClean, NoneFailed
  <2>5. TaskTellsTheRun' BY <2>0 DEF TaskTellsTheRun
  <2> QED BY <2>1, <2>2, <2>3, <2>4, <2>5 DEF TaskInv
<1>9. CASE Raises
  <2>0. /\ UNCHANGED <<mode, steps, runStatus, runSteps, taskStatus, graphStatus, nodes>>
        /\ \/ phase' = "lost"
           \/ mode = "background" /\ phase \in Protected /\ phase' = "rescue"
      BY <1>9 DEF Raises
  <2>1. CASE phase' = "lost" BY <2>0, <2>1, QuietTask
  <2>2. CASE mode = "background" /\ phase \in Protected /\ phase' = "rescue"
    <3>1. taskStatus = "running"
        BY <1>t, <2>2 DEF TaskByPhase, Protected, Reporting
    <3>2. TaskTypes' BY <1>t, <2>0 DEF TaskTypes
    <3>3. TaskByPhase' BY <2>0, <2>2, <3>1 DEF TaskByPhase, Reporting
    <3>4. NodesByPhase' BY <2>2 DEF NodesByPhase, InStep, AfterStep, AtEnd
    <3>5. GraphForetells' /\ SuccessIsClean' BY <1>t, <2>0, <2>2 DEF GraphForetells, SuccessIsClean, NoneFailed
    <3>6. TaskTellsTheRun' BY <1>t, <2>0 DEF TaskTellsTheRun
    <3> QED BY <3>2, <3>3, <3>4, <3>5, <3>6 DEF TaskInv
  <2> QED BY <2>0, <2>1, <2>2
<1>10. CASE Crash \/ Restart
  <2>1. /\ UNCHANGED <<mode, runStatus, runSteps, taskStatus, graphStatus, nodes>>
        /\ phase' \in {"killed", "restarted"}
      BY <1>10 DEF Crash, Restart
  <2> QED BY <2>1, QuietTask
<1>11. CASE UNCHANGED vars
  <2>0. UNCHANGED <<mode, phase, steps, runStatus, runSteps, taskStatus, graphStatus, nodes>>
      BY <1>11 DEF vars
  <2>1. TaskTypes' BY <1>t, <2>0 DEF TaskTypes
  <2>2. TaskByPhase' BY <1>t, <2>0 DEF TaskByPhase
  <2>3. NodesByPhase' BY <1>t, <2>0 DEF NodesByPhase
  <2>o. OverallStatus' = OverallStatus BY <2>0 DEF OverallStatus, Statuses
  <2>4. GraphForetells' /\ SuccessIsClean' BY <1>t, <2>0, <2>o DEF GraphForetells, SuccessIsClean, NoneFailed
  <2>5. TaskTellsTheRun' BY <1>t, <2>0 DEF TaskTellsTheRun
  <2> QED BY <2>1, <2>2, <2>3, <2>4, <2>5 DEF TaskInv
<1> QED BY <1>1, <1>2, <1>3, <1>4, <1>5, <1>6, <1>7, <1>8, <1>9, <1>10, <1>11,
           ReportStartTask, ReportEndTask
        DEF Next, Advance, Finished

LEMMA TaskAlways == Spec => []TaskInv
BY InitTask, TaskStep, DocAlways, PTL DEF Spec

(* The task of a background run never contradicts the run, whatever raises *)
(* or dies between their writes, and its graph is a success before the run *)
(* is one only if the last write of the run is all that is missing.        *)
THEOREM TaskIsTruthful == Spec => []TaskTellsTheRun
<1>1. TaskInv => TaskTellsTheRun BY DEF TaskInv
<1> QED BY <1>1, TaskAlways, PTL

(* Documents have their types and follow the order of the steps. *)
THEOREM TypeCorrect == Spec => []TypeOK
<1>1. DocInv /\ TaskInv => TypeOK
  <2> SUFFICES ASSUME DocInv, TaskInv PROVE TypeOK
      OBVIOUS
  <2>1. \A ss \in {steps, runSteps} :
          /\ Len(ss) <= Len(StepOrder)
          /\ \A i \in 1 .. Len(ss) : ss[i] \in Lifecycle!StepRecords(i)
      BY Order, Element DEF DocInv, Follows
  <2> QED BY <2>1 DEF DocInv, TaskInv, TaskTypes, TypeOK, Names
<1> QED BY <1>1, DocAlways, TaskAlways, PTL

(* A task whose thread gave up is still running only if the except clause  *)
(* of the runner raised itself.                                            *)
THEOREM ExceptClauseIsReached == Spec => RunnerSettlesItsTask
<1>1. DocInv /\ TaskInv /\ [Next]_vars =>
        [phase' = "lost" /\ taskStatus = "running" => phase \in {"rescue", "rescued"}]_vars
  <2> SUFFICES ASSUME DocInv, TaskInv, [Next]_vars, phase' = "lost", taskStatus = "running",
                      ~UNCHANGED vars
               PROVE  phase \in {"rescue", "rescued"}
      OBVIOUS
  <2>1. Raises
      BY DEF Next, Advance, CreateShell, CreateTask, InitProgress, MarkRunning, StartRun, RunStep,
          PatchProgress, ReportStart, ReportEnd, FinishRun, SyncGraph, SettleTask, MarkGraphFailed, MarkFailed, Crash,
          Restart, Finished
  <2> QED BY <2>1 DEF Raises, DocInv, TaskInv, TaskByPhase, Exposed, Protected
<1> QED BY <1>1, DocAlways, TaskAlways, PTL DEF Spec, RunnerSettlesItsTask

-----------------------------------------------------------------------------
(* A trigger drives one run at most, and the run it drives is running. *)
DriversOwnTheirRun ==
    /\ \A i \in 1 .. Len(runs) : trigger[runs[i].by] \in {"driving", "ended", "dead"}
    /\ \A i, j \in 1 .. Len(runs) : runs[i].by = runs[j].by => i = j
    /\ \A i \in 1 .. Len(runs) : trigger[runs[i].by] = "driving" => runs[i].status = "running"

SeenExists == \A t \in Triggers : seen[t] <= Len(runs)

(* What a trigger's check saw to be inactive stays so: a run is active     *)
(* from its creation until it fails, never again after that.               *)
ClearStaysClear ==
    \A t \in Triggers, i \in 1 .. Len(runs) : i <= seen[t] /\ i + Window > seen[t] => ~Schedule!Active(i)

ScheduleInv == Schedule!TypeOK /\ DriversOwnTheirRun /\ SeenExists /\ ClearStaysClear

-----------------------------------------------------------------------------
LEMMA RunDocTypes ==
    ASSUME Schedule!TypeOK, NEW i \in 1 .. Len(runs)
    PROVE  runs[i] \in Schedule!RunDocs /\ runs[i].by \in Triggers
<1>1. runs \in Seq(Schedule!RunDocs) BY DEF Schedule!TypeOK
<1>2. runs[i] \in Schedule!RunDocs
  <2> HIDE DEF Schedule!RunDocs
  <2> QED BY <1>1
<1>3. \A d \in Schedule!RunDocs : d.by \in Triggers BY DEF Schedule!RunDocs
<1> QED BY <1>2, <1>3

(* A document keeps everything but its status when that is written. *)
LEMMA StatusWrite ==
    ASSUME Schedule!TypeOK, NEW m \in 1 .. Len(runs), NEW st \in Schedule!Terminal,
           runs' = [runs EXCEPT ![m].status = st]
    PROVE  /\ Len(runs') = Len(runs)
           /\ runs' \in Seq(Schedule!RunDocs)
           /\ runs'[m].status = st /\ runs'[m].by = runs[m].by /\ runs'[m].type = runs[m].type
           /\ \A i \in 1 .. Len(runs) : i # m => runs'[i] = runs[i]
<1> DEFINE doc == [runs[m] EXCEPT !.status = st]
<1>1. doc \in Schedule!RunDocs /\ doc.status = st /\ doc.by = runs[m].by /\ doc.type = runs[m].type
    BY RunDocTypes DEF Schedule!RunDocs
<1>2. runs' = [runs EXCEPT ![m] = doc] OBVIOUS
<1>3. runs \in Seq(Schedule!RunDocs) BY DEF Schedule!TypeOK
<1> HIDE DEF doc, Schedule!RunDocs
<1> QED BY <1>1, <1>2, <1>3

LEMMA ScheduleInvInit == Schedule!Init => ScheduleInv
<1> SUFFICES ASSUME Schedule!Init PROVE ScheduleInv
    OBVIOUS
<1>1. runs = <<>> /\ Len(runs) = 0 /\ runs \in Seq(Schedule!RunDocs)
    BY DEF Schedule!Init
<1>2. Schedule!TypeOK
    BY <1>1 DEF Schedule!Init, Schedule!TypeOK, Schedule!Phases, Schedule!Kinds
<1>3. DriversOwnTheirRun /\ SeenExists /\ ClearStaysClear
    BY <1>1 DEF Schedule!Init, DriversOwnTheirRun, SeenExists, ClearStaysClear
<1> QED BY <1>2, <1>3 DEF ScheduleInv

(* A step that leaves the documents alone and lets no trigger check keeps  *)
(* the invariant if a trigger drives only if it did before.                *)
LEMMA QuietTrigger ==
    ASSUME ScheduleInv, Schedule!TypeOK', runs' = runs, seen' = seen,
           \A t \in Triggers : trigger'[t] = trigger[t]
                               \/ (trigger'[t] \in {"ended", "dead"} /\ trigger[t] = "driving")
                               \/ (trigger[t] \notin {"driving", "ended", "dead"} /\ trigger'[t] # "driving")
    PROVE  ScheduleInv'
<1>1. \A i \in 1 .. Len(runs) : runs[i].by \in Triggers
    BY RunDocTypes DEF ScheduleInv
<1>2. DriversOwnTheirRun'
    BY <1>1 DEF ScheduleInv, DriversOwnTheirRun
<1>3. SeenExists' /\ ClearStaysClear'
    BY DEF ScheduleInv, SeenExists, ClearStaysClear, Schedule!Active
<1> QED BY <1>2, <1>3 DEF ScheduleInv

LEMMA ScheduleInvNext == ScheduleInv /\ [Schedule!Next]_(Schedule!vars) => ScheduleInv'
<1> SUFFICES ASSUME ScheduleInv, [Schedule!Next]_(Schedule!vars) PROVE ScheduleInv'
    OBVIOUS
<1> USE WindowAssumption
<1>t. Schedule!TypeOK BY DEF ScheduleInv
<1>1. ASSUME Schedule!DataArrives PROVE ScheduleInv'
  <2>1. Schedule!TypeOK' BY <1>t, <1>1 DEF Schedule!DataArrives, Schedule!TypeOK
  <2> QED BY <1>1, <2>1, QuietTrigger DEF Schedule!DataArrives
<1>2. ASSUME NEW t \in Triggers, NEW k \in Schedule!Kinds, NEW f \in BOOLEAN, Schedule!Fire(t, k, f) PROVE ScheduleInv'
  <2>1. forced' \in [Triggers -> BOOLEAN]
    <3>1. forced' = [forced EXCEPT ![t] = f] BY <1>2, Zenon DEF Schedule!Fire
    <3> QED BY <3>1, <1>t, Zenon DEF Schedule!TypeOK
  <2>2. Schedule!TypeOK' BY <1>t, <1>2, <2>1 DEF Schedule!Fire, Schedule!TypeOK, Schedule!Phases
  <2> QED BY <1>t, <1>2, <2>2, QuietTrigger DEF Schedule!Fire, Schedule!TypeOK, Schedule!Phases
<1>3. ASSUME NEW t \in Triggers, Schedule!Skip(t) PROVE ScheduleInv'
  <2>1. Schedule!TypeOK' BY <1>t, <1>3 DEF Schedule!Skip, Schedule!TypeOK, Schedule!Phases, Schedule!Existing
  <2> QED BY <1>t, <1>3, <2>1, QuietTrigger DEF Schedule!Skip, Schedule!TypeOK, Schedule!Phases
<1>4. ASSUME NEW t \in Triggers, Schedule!Pass(t) PROVE ScheduleInv'
  <2>1. /\ runs' = runs
        /\ seen' = [seen EXCEPT ![t] = Len(runs)]
        /\ trigger[t] = "fired" /\ trigger'[t] \in {"checked", "cleared"}
        /\ \A u \in Triggers \ {t} : trigger'[u] = trigger[u]
      BY <1>t, <1>4 DEF Schedule!Pass, Schedule!TypeOK
  <2>2. Schedule!TypeOK' BY <1>t, <1>4 DEF Schedule!Pass, Schedule!TypeOK, Schedule!Phases
  <2>3. \A i \in 1 .. Len(runs) : runs[i].by \in Triggers
      BY <1>t, RunDocTypes
  <2>4. DriversOwnTheirRun' BY <2>1, <2>3 DEF ScheduleInv, DriversOwnTheirRun
  <2>5. SeenExists' BY <1>t, <2>1 DEF ScheduleInv, SeenExists, Schedule!TypeOK
  <2>6. \A i \in 1 .. Len(runs) : i + Window > Len(runs) => ~Schedule!Active(i)
      BY <1>4 DEF Schedule!Pass, Schedule!Existing
  <2>7. ClearStaysClear' BY <1>t, <2>1, <2>6 DEF ScheduleInv, ClearStaysClear, Schedule!Active, Schedule!TypeOK
  <2> QED BY <2>2, <2>4, <2>5, <2>7 DEF ScheduleInv
<1>5. ASSUME NEW t \in Triggers, Schedule!CheckData(t) PROVE ScheduleInv'
  <2>1. Schedule!TypeOK' BY <1>t, <1>5 DEF Schedule!CheckData, Schedule!TypeOK, Schedule!Phases
  <2> QED BY <1>t, <1>5, <2>1, QuietTrigger DEF Schedule!CheckData, Schedule!TypeOK, Schedule!Phases
<1>6. ASSUME NEW t \in Triggers, Schedule!CreateRun(t) PROVE ScheduleInv'
  <2> PICK ty \in Schedule!TypesFor(kind[t]) :
            runs' = Append(runs, [type |-> ty, status |-> "running", by |-> t])
      BY <1>6 DEF Schedule!CreateRun
  <2> DEFINE doc == [type |-> ty, status |-> "running", by |-> t]
             n == Len(runs) + 1
  <2>0. ty \in Schedule!RunTypes BY DEF Schedule!TypesFor, Schedule!RunTypes
  <2>1. doc \in Schedule!RunDocs BY <2>0 DEF Schedule!RunDocs, Schedule!Terminal
  <2>2. runs' = Append(runs, doc) OBVIOUS
  <2>3. /\ Len(runs') = n /\ runs'[n] = doc
        /\ \A i \in 1 .. Len(runs) : runs'[i] = runs[i]
        /\ runs' \in Seq(Schedule!RunDocs)
        /\ Len(runs) \in Nat
      BY <1>t, <2>1, <2>2 DEF Schedule!TypeOK
  <2>p. /\ trigger[t] = "cleared" /\ trigger'[t] = "driving"
        /\ \A u \in Triggers \ {t} : trigger'[u] = trigger[u]
      BY <1>t, <1>6 DEF Schedule!CreateRun, Schedule!TypeOK
  <2>4. Schedule!TypeOK' BY <1>t, <1>6, <2>3 DEF Schedule!CreateRun, Schedule!TypeOK, Schedule!Phases
  <2>5. \A i \in 1 .. Len(runs) : runs[i].by \in Triggers \ {t}
      BY <1>t, <2>p, RunDocTypes DEF ScheduleInv, DriversOwnTheirRun
  <2> HIDE DEF doc
  <2>d. doc.by = t /\ doc.status = "running" BY DEF doc
  <2>6. DriversOwnTheirRun'
      BY <2>3, <2>p, <2>5, <2>d DEF ScheduleInv, DriversOwnTheirRun
  <2>7. seen' = seen /\ SeenExists'
      BY <1>t, <1>6, <2>3 DEF Schedule!CreateRun, ScheduleInv, SeenExists, Schedule!TypeOK
  <2>8. ClearStaysClear'
    <3> SUFFICES ASSUME NEW u \in Triggers, NEW i \in 1 .. Len(runs'),
                        i <= seen[u], i + Window > seen[u]
                 PROVE  ~Schedule!Active(i)'
        BY <2>7 DEF ClearStaysClear
    <3>1. i \in 1 .. Len(runs) BY <1>t, <2>3 DEF ScheduleInv, SeenExists, Schedule!TypeOK
    <3> QED BY <3>1, <2>3 DEF ScheduleInv, ClearStaysClear, Schedule!Active
  <2> QED BY <2>4, <2>6, <2>7, <2>8 DEF ScheduleInv
<1>7. ASSUME NEW t \in Triggers, Schedule!EndRun(t) PROVE ScheduleInv'
  <2> PICK m \in 1 .. Len(runs), st \in Schedule!Terminal :
            runs[m].by = t /\ runs' = [runs EXCEPT ![m].status = st]
      BY <1>7 DEF Schedule!EndRun
  <2>0. trigger[t] = "driving" /\ runs[m].status = "running"
      BY <1>7 DEF Schedule!EndRun, ScheduleInv, DriversOwnTheirRun
  <2>1. /\ Len(runs') = Len(runs)
        /\ runs' \in Seq(Schedule!RunDocs)
        /\ runs'[m].status = st /\ runs'[m].by = runs[m].by /\ runs'[m].type = runs[m].type
        /\ \A i \in 1 .. Len(runs) : i # m => runs'[i] = runs[i]
      BY <1>t, StatusWrite
  <2>p. /\ trigger[t] = "driving" /\ trigger'[t] = "ended"
        /\ \A u \in Triggers \ {t} : trigger'[u] = trigger[u]
      BY <1>t, <1>7 DEF Schedule!EndRun, Schedule!TypeOK
  <2>3. Schedule!TypeOK' BY <1>t, <1>7, <2>1 DEF Schedule!EndRun, Schedule!TypeOK, Schedule!Phases
  <2>4. \A i \in 1 .. Len(runs) : i # m => runs[i].by \in Triggers \ {t}
      BY <1>t, RunDocTypes DEF ScheduleInv, DriversOwnTheirRun
  <2>5. DriversOwnTheirRun' BY <2>1, <2>p, <2>4 DEF ScheduleInv, DriversOwnTheirRun
  <2>6. seen' = seen /\ SeenExists' BY <1>7, <2>1 DEF Schedule!EndRun, ScheduleInv, SeenExists
  <2>7. ClearStaysClear'
    <3> SUFFICES ASSUME NEW u \in Triggers, NEW i \in 1 .. Len(runs),
                        i <= seen[u], i + Window > seen[u]
                 PROVE  ~Schedule!Active(i)'
        BY <2>1, <2>6 DEF ClearStaysClear
    <3>1. ~Schedule!Active(i) BY DEF ScheduleInv, ClearStaysClear
    <3>2. CASE i # m BY <3>1, <3>2, <2>1 DEF Schedule!Active
    <3>3. CASE i = m BY <3>1, <3>3, <2>0, <2>1 DEF Schedule!Active, Schedule!ACTIVE_SCHEDULED_STATUSES
    <3> QED BY <3>2, <3>3
  <2> QED BY <2>3, <2>5, <2>6, <2>7 DEF ScheduleInv
<1>8. ASSUME NEW t \in Triggers, Schedule!Die(t) PROVE ScheduleInv'
  <2>1. Schedule!TypeOK' BY <1>t, <1>8 DEF Schedule!Die, Schedule!TypeOK, Schedule!Phases
  <2> QED BY <1>t, <1>8, <2>1, QuietTrigger DEF Schedule!Die, Schedule!TypeOK, Schedule!Phases
<1>9. CASE UNCHANGED Schedule!vars
  <2>1. Schedule!TypeOK' BY <1>t, <1>9 DEF Schedule!vars, Schedule!TypeOK
  <2> QED BY <1>9, <2>1, QuietTrigger DEF Schedule!vars
<1> QED BY <1>1, <1>2, <1>3, <1>4, <1>5, <1>6, <1>7, <1>8, <1>9 DEF Schedule!Next, Schedule!Advance, Schedule!Finished

(* Documents and triggers have their types, in every reachable state. *)
THEOREM ScheduleTypesCorrect == Schedule!Spec => []Schedule!TypeOK
<1>1. ScheduleInv => Schedule!TypeOK BY DEF ScheduleInv
<1> QED BY <1>1, ScheduleInvInit, ScheduleInvNext, PTL DEF Schedule!Spec

LEMMA ScheduleMoves == MCSpec => Schedule!Spec
<1>1. MCInit => Schedule!Init BY DEF MCInit
<1>2. [MCNext]_all => [Schedule!Next]_(Schedule!vars)
    BY DEF MCNext, LoopStep, ScheduleStep, AlertStep, AlertsEnd, all, schedule, Schedule!vars
<1> QED BY <1>1, <1>2, PTL DEF MCSpec, Schedule!Spec

(* However triggers interleave, fail and die, a second active scheduled    *)
(* run of a date was created without a check, overtook the check of the    *)
(* first, or had the first pushed out of the window it looked at           *)
(* (schedule.py:57-61).                                                    *)
THEOREM NoOtherDuplicates == MCSpec => []DuplicateNeedsAnExcuse
<1>1. ScheduleInv => DuplicateNeedsAnExcuse
  <2> SUFFICES ASSUME ScheduleInv,
                      NEW i \in 1 .. Len(runs), NEW j \in 1 .. Len(runs),
                      i < j, Schedule!Active(i), Schedule!Active(j)
               PROVE  \/ Schedule!Unchecked(runs[j].by)
                      \/ seen[runs[j].by] < i \/ i + Window <= seen[runs[j].by]
      BY DEF DuplicateNeedsAnExcuse, Schedule!DuplicateNeedsAnExcuse
  <2>1. runs[j].by \in Triggers BY RunDocTypes DEF ScheduleInv
  <2>2. seen[runs[j].by] \in Nat BY <2>1 DEF ScheduleInv, Schedule!TypeOK
  <2> QED BY <2>1, <2>2, WindowAssumption DEF ScheduleInv, ClearStaysClear
<1> QED BY <1>1, ScheduleInvInit, ScheduleInvNext, ScheduleMoves, PTL DEF Schedule!Spec

-----------------------------------------------------------------------------
(* What was stored stays in Taken, and a sender that is about to store an  *)
(* alert has not known it; it has marked everything when it notifies.      *)
KnownIsTaken == \A s \in Senders : \A a \in known[s] : alert[a] \in Sending!Taken
StoresUnknown == \A s \in Senders : sender[s] = "storing" => pos[s] \notin known[s]
IdleIsFresh == \A s \in Senders : sender[s] = "idle" => pos[s] = 1 /\ mine[s] = {} /\ unmarked[s] = {}
NeverFailed == \A a \in Sending!Alerts : alert[a] # "failed"
UnmarkedIsMine == \A s \in Senders : unmarked[s] \subseteq mine[s]
PosIsAlert == \A s \in Senders : sender[s] \in {"checking", "storing"} => pos[s] \in Sending!Alerts
AllMarked == \A s \in Senders : sender[s] = "notifying" => unmarked[s] = {}

AlertsInv ==
    /\ Sending!TypeOK
    /\ KnownIsTaken
    /\ StoresUnknown
    /\ IdleIsFresh
    /\ NeverFailed
    /\ UnmarkedIsMine
    /\ PosIsAlert
    /\ AllMarked
    /\ Sending!LaterSenderSkips
    /\ Sending!PendingHasAnOwner
    /\ Sending!SentIsAnnounced

LEMMA AlertsInvInit == Sending!Init => AlertsInv
<1> SUFFICES ASSUME Sending!Init PROVE AlertsInv
    OBVIOUS
<1> USE NumAlertsAssumption DEF Sending!Init, Sending!Alerts
<1>1. Sending!TypeOK
  <2>1. 1 \in 1 .. (NumAlerts + 1) OBVIOUS
  <2>2. pos \in [Senders -> 1 .. (NumAlerts + 1)] BY <2>1
  <2> QED BY <2>2 DEF Sending!TypeOK, Sending!Statuses, Sending!Working
<1>2. KnownIsTaken /\ StoresUnknown /\ NeverFailed /\ UnmarkedIsMine
    BY DEF KnownIsTaken, StoresUnknown, NeverFailed, UnmarkedIsMine
<1>3. IdleIsFresh /\ PosIsAlert /\ AllMarked /\ Sending!LaterSenderSkips
    BY DEF IdleIsFresh, PosIsAlert, AllMarked, Sending!LaterSenderSkips
<1>4. Sending!PendingHasAnOwner /\ Sending!SentIsAnnounced
    BY DEF Sending!PendingHasAnOwner, Sending!SentIsAnnounced
<1> QED BY <1>1, <1>2, <1>3, <1>4 DEF AlertsInv

(* A step of a sender that leaves the alerts alone and keeps what is its   *)
(* own, unless it ends with a digest or with nothing stored.               *)
LEMMA AlertsInvNext == AlertsInv /\ [Sending!Next]_(Sending!vars) => AlertsInv'
<1> SUFFICES ASSUME AlertsInv, [Sending!Next]_(Sending!vars) PROVE AlertsInv'
    OBVIOUS
<1> USE NumAlertsAssumption DEF Sending!Alerts
<1>t. Sending!TypeOK BY DEF AlertsInv
<1>1. ASSUME Sending!Link PROVE AlertsInv'
    BY <1>1 DEF Sending!Link, AlertsInv, Sending!TypeOK, IdleIsFresh, KnownIsTaken, StoresUnknown, NeverFailed, UnmarkedIsMine,
        PosIsAlert, AllMarked, Sending!LaterSenderSkips, Sending!PendingHasAnOwner, Sending!SentIsAnnounced
<1>2. ASSUME NEW s \in Senders, Sending!Begin(s) PROVE AlertsInv'
  <2> USE <1>2 DEF Sending!Begin, AlertsInv
  <2>1. Sending!TypeOK' BY DEF Sending!TypeOK, Sending!Working, Sending!Stored
  <2>i. IdleIsFresh' BY DEF IdleIsFresh, Sending!TypeOK
  <2>2. KnownIsTaken' BY DEF Sending!TypeOK, KnownIsTaken, Sending!Stored, NeverFailed, Sending!Statuses, Sending!Taken
  <2>3. StoresUnknown' /\ NeverFailed' /\ UnmarkedIsMine' /\ AllMarked'
      BY DEF Sending!TypeOK, StoresUnknown, NeverFailed, UnmarkedIsMine, AllMarked
  <2>4. PosIsAlert' BY DEF PosIsAlert, IdleIsFresh, Sending!TypeOK
  <2>5. Sending!LaterSenderSkips' BY DEF Sending!LaterSenderSkips, IdleIsFresh, Sending!TypeOK
  <2>6. Sending!PendingHasAnOwner' BY DEF Sending!PendingHasAnOwner, IdleIsFresh, Sending!TypeOK
  <2>7. Sending!SentIsAnnounced' BY DEF Sending!SentIsAnnounced, Sending!TypeOK, Sending!Working
  <2> QED BY <2>1, <2>i, <2>2, <2>3, <2>4, <2>5, <2>6, <2>7
<1>3. ASSUME NEW s \in Senders, Sending!SkipAlert(s) PROVE AlertsInv'
  <2>0. /\ sender[s] = "checking"
        /\ UNCHANGED <<linked, alert, digest, known>>
        /\ pos' = [pos EXCEPT ![s] = @ + 1]
        /\ sender' = [sender EXCEPT ![s] =
                        IF pos[s] < NumAlerts THEN "checking"
                        ELSE IF mine[s] = {} THEN "done" ELSE "marking"]
        /\ mine' = [mine EXCEPT ![s] = mine[s]]
        /\ unmarked' = [unmarked EXCEPT ![s] = mine[s]]
      BY <1>3 DEF Sending!SkipAlert, Sending!GoOn
  <2>m. mine' = mine BY <2>0 DEF AlertsInv, Sending!TypeOK
  <2> HIDE <1>3
  <2> USE <2>0, <2>m DEF AlertsInv
  <2>1. Sending!TypeOK' BY DEF Sending!TypeOK, Sending!Working, PosIsAlert
  <2>i. IdleIsFresh' BY DEF IdleIsFresh, Sending!TypeOK
  <2>2. KnownIsTaken' /\ NeverFailed' BY DEF KnownIsTaken, NeverFailed
  <2>3. StoresUnknown' /\ UnmarkedIsMine' /\ AllMarked'
      BY DEF Sending!TypeOK, StoresUnknown, UnmarkedIsMine, AllMarked
  <2>4. PosIsAlert' BY DEF PosIsAlert, Sending!TypeOK
  <2>5. Sending!LaterSenderSkips' BY DEF Sending!LaterSenderSkips
  <2>6. Sending!PendingHasAnOwner' BY DEF Sending!PendingHasAnOwner, Sending!TypeOK, UnmarkedIsMine
  <2>7. Sending!SentIsAnnounced' BY DEF Sending!SentIsAnnounced, Sending!TypeOK, Sending!Working
  <2> QED BY <2>1, <2>i, <2>2, <2>3, <2>4, <2>5, <2>6, <2>7
<1>4. ASSUME NEW s \in Senders, Sending!TakeAlert(s) PROVE AlertsInv'
  <2> USE <1>4 DEF Sending!TakeAlert, AlertsInv
  <2>1. Sending!TypeOK' BY DEF Sending!TypeOK, Sending!Working
  <2>i. IdleIsFresh' BY DEF IdleIsFresh, Sending!TypeOK
  <2>2. KnownIsTaken' /\ NeverFailed' /\ UnmarkedIsMine' /\ Sending!LaterSenderSkips'
      BY DEF KnownIsTaken, NeverFailed, UnmarkedIsMine, Sending!LaterSenderSkips
  <2>3. StoresUnknown' BY DEF Sending!TypeOK, StoresUnknown, KnownIsTaken
  <2>4. PosIsAlert' /\ AllMarked' BY DEF PosIsAlert, AllMarked, Sending!TypeOK
  <2>6. Sending!PendingHasAnOwner' BY DEF Sending!PendingHasAnOwner, Sending!TypeOK
  <2>7. Sending!SentIsAnnounced' BY DEF Sending!SentIsAnnounced, Sending!TypeOK, Sending!Working
  <2> QED BY <2>1, <2>i, <2>2, <2>3, <2>4, <2>6, <2>7
<1>5. ASSUME NEW s \in Senders, Sending!StoreAlert(s) PROVE AlertsInv'
  <2> USE <1>5 DEF Sending!StoreAlert, Sending!GoOn, AlertsInv
  <2>1. Sending!TypeOK' BY DEF Sending!TypeOK, Sending!Working, PosIsAlert, Sending!Statuses
  <2>i. IdleIsFresh' BY DEF IdleIsFresh, Sending!TypeOK
  <2>2. KnownIsTaken' /\ NeverFailed' BY DEF KnownIsTaken, NeverFailed, Sending!TypeOK, Sending!Taken, PosIsAlert
  <2>3. StoresUnknown' /\ UnmarkedIsMine' /\ AllMarked'
      BY DEF Sending!TypeOK, StoresUnknown, UnmarkedIsMine, AllMarked
  <2>4. PosIsAlert' BY DEF PosIsAlert, Sending!TypeOK
  <2>5. Sending!LaterSenderSkips' BY DEF Sending!LaterSenderSkips, Sending!TypeOK, StoresUnknown
  <2>6. Sending!PendingHasAnOwner'
    <3>1. pos[s] \in unmarked'[s] /\ sender'[s] # "done" BY DEF Sending!TypeOK
    <3>2. unmarked[s] \subseteq unmarked'[s] BY DEF Sending!TypeOK, UnmarkedIsMine
    <3>3. \A r \in Senders \ {s} : unmarked'[r] = unmarked[r] /\ sender'[r] = sender[r]
        BY DEF Sending!TypeOK
    <3>4. \A a \in Sending!Alerts \ {pos[s]} : alert'[a] = alert[a] BY DEF Sending!TypeOK
    <3> QED BY <3>1, <3>2, <3>3, <3>4 DEF Sending!PendingHasAnOwner
  <2>7. Sending!SentIsAnnounced'
    <3>1. mine[s] \subseteq mine'[s] /\ sender'[s] \in Sending!Working BY DEF Sending!TypeOK, Sending!Working
    <3>2. \A r \in Senders \ {s} : mine'[r] = mine[r] /\ sender'[r] = sender[r] BY DEF Sending!TypeOK
    <3>3. \A a \in Sending!Alerts : alert'[a] = "sent" => alert[a] = "sent" BY DEF Sending!TypeOK
    <3> QED BY <3>1, <3>2, <3>3 DEF Sending!SentIsAnnounced
  <2> QED BY <2>1, <2>i, <2>2, <2>3, <2>4, <2>5, <2>6, <2>7
<1>6. ASSUME NEW s \in Senders, Sending!MarkSent(s) PROVE AlertsInv'
  <2> PICK a \in unmarked[s] :
          /\ alert' = [alert EXCEPT ![a] = "sent"]
          /\ unmarked' = [unmarked EXCEPT ![s] = @ \ {a}]
          /\ sender' = [sender EXCEPT ![s] = IF unmarked[s] = {a} THEN "notifying" ELSE "marking"]
      BY <1>6 DEF Sending!MarkSent
  <2>0. /\ sender[s] = "marking" /\ a \in Sending!Alerts
        /\ UNCHANGED <<linked, pos, mine, digest, known>>
      BY <1>6 DEF Sending!MarkSent, AlertsInv, Sending!TypeOK
  <2> USE <2>0 DEF AlertsInv
  <2>1. Sending!TypeOK' BY DEF Sending!TypeOK, Sending!Working, Sending!Statuses
  <2>i. IdleIsFresh' BY DEF IdleIsFresh, Sending!TypeOK
  <2>2. KnownIsTaken' /\ NeverFailed' BY DEF KnownIsTaken, NeverFailed, Sending!TypeOK, Sending!Taken
  <2>3. StoresUnknown' /\ UnmarkedIsMine' /\ AllMarked'
      BY DEF Sending!TypeOK, StoresUnknown, UnmarkedIsMine, AllMarked
  <2>4. PosIsAlert' /\ Sending!LaterSenderSkips' BY DEF PosIsAlert, Sending!LaterSenderSkips, Sending!TypeOK
  <2>6. Sending!PendingHasAnOwner' BY DEF Sending!PendingHasAnOwner, Sending!TypeOK
  <2>7. Sending!SentIsAnnounced' BY DEF Sending!SentIsAnnounced, Sending!TypeOK, Sending!Working, UnmarkedIsMine
  <2> QED BY <2>1, <2>i, <2>2, <2>3, <2>4, <2>6, <2>7
<1>7. ASSUME NEW s \in Senders, NEW result \in {"delivered", "lost"}, Sending!Notify(s, result) PROVE AlertsInv'
  <2> USE <1>7 DEF Sending!Notify, AlertsInv
  <2>1. Sending!TypeOK' BY DEF Sending!TypeOK
  <2>i. IdleIsFresh' BY DEF IdleIsFresh, Sending!TypeOK
  <2>2. KnownIsTaken' /\ NeverFailed' /\ UnmarkedIsMine' /\ Sending!LaterSenderSkips'
      BY DEF KnownIsTaken, NeverFailed, UnmarkedIsMine, Sending!LaterSenderSkips
  <2>3. StoresUnknown' /\ PosIsAlert' /\ AllMarked'
      BY DEF Sending!TypeOK, StoresUnknown, PosIsAlert, AllMarked
  <2>6. Sending!PendingHasAnOwner' BY DEF Sending!PendingHasAnOwner, Sending!TypeOK, AllMarked
  <2>7. Sending!SentIsAnnounced' BY DEF Sending!SentIsAnnounced, Sending!TypeOK
  <2> QED BY <2>1, <2>i, <2>2, <2>3, <2>6, <2>7
<1>8. ASSUME NEW s \in Senders, Sending!Die(s) PROVE AlertsInv'
  <2> USE <1>8 DEF Sending!Die, AlertsInv
  <2>1. Sending!TypeOK' BY DEF Sending!TypeOK
  <2>i. IdleIsFresh' BY DEF IdleIsFresh, Sending!TypeOK
  <2>2. KnownIsTaken' /\ NeverFailed' /\ UnmarkedIsMine' /\ Sending!LaterSenderSkips'
      BY DEF KnownIsTaken, NeverFailed, UnmarkedIsMine, Sending!LaterSenderSkips
  <2>3. StoresUnknown' /\ PosIsAlert' /\ AllMarked'
      BY DEF Sending!TypeOK, StoresUnknown, PosIsAlert, AllMarked
  <2>6. Sending!PendingHasAnOwner' BY DEF Sending!PendingHasAnOwner, Sending!TypeOK
  <2>7. Sending!SentIsAnnounced' BY DEF Sending!SentIsAnnounced, Sending!TypeOK
  <2> QED BY <2>1, <2>i, <2>2, <2>3, <2>6, <2>7
<1>9. CASE UNCHANGED Sending!vars
    BY <1>9 DEF Sending!vars, AlertsInv, Sending!TypeOK, IdleIsFresh, KnownIsTaken, StoresUnknown, NeverFailed, UnmarkedIsMine,
        PosIsAlert, AllMarked, Sending!LaterSenderSkips, Sending!PendingHasAnOwner, Sending!SentIsAnnounced, Sending!Stored
<1> QED BY <1>1, <1>2, <1>3, <1>4, <1>5, <1>6, <1>7, <1>8, <1>9 DEF Sending!Next, Sending!Work

(* Types, and what the senders hold, are as TypeOK says in every state. *)
THEOREM AlertTypesCorrect == Sending!Spec => []Sending!TypeOK
<1>1. AlertsInv => Sending!TypeOK BY DEF AlertsInv
<1> QED BY <1>1, AlertsInvInit, AlertsInvNext, PTL DEF Sending!Spec

(* However calls of the sender overlap or die, one that begins after an    *)
(* alert was stored leaves that alert alone.                               *)
THEOREM CallsAreIdempotent == Sending!Spec => []Sending!LaterSenderSkips
<1>1. AlertsInv => Sending!LaterSenderSkips BY DEF AlertsInv
<1> QED BY <1>1, AlertsInvInit, AlertsInvNext, PTL DEF Sending!Spec

LEMMA AlertsMove == MCSpec => Sending!Spec
<1>1. MCInit => Sending!Init BY DEF MCInit
<1>2. [MCNext]_all => [Sending!Next]_(Sending!vars)
    BY DEF MCNext, LoopStep, ScheduleStep, AlertStep, AlertsEnd, all, sending, Sending!vars
<1> QED BY <1>1, <1>2, PTL DEF MCSpec, Sending!Spec

(* However many senders overlap, no alert is left pending by senders that  *)
(* ended (service.py:72-84).                                               *)
THEOREM NothingLeftPending == MCSpec => []PendingHasAnOwner
<1>1. AlertsInv => PendingHasAnOwner BY DEF AlertsInv, PendingHasAnOwner
<1> QED BY <1>1, AlertsInvInit, AlertsInvNext, AlertsMove, PTL DEF Sending!Spec

(* However many senders overlap, each alert that is marked as sent has a   *)
(* sender that puts it into its digest, or that died.                      *)
THEOREM SentMeansAnnounced == Sending!Spec => []Sending!SentIsAnnounced
<1>1. AlertsInv => Sending!SentIsAnnounced BY DEF AlertsInv
<1> QED BY <1>1, AlertsInvInit, AlertsInvNext, PTL DEF Sending!Spec
=============================================================================
