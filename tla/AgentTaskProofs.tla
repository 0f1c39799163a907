--------------------------- MODULE AgentTaskProofs ---------------------------
(***************************************************************************)
(* Proofs about AgentTask, for every set of tasks and callers.             *)
(***************************************************************************)
EXTENDS AgentTask, TLAPS

(* A call in flight is one that is used on its task, and has read a status *)
(* its operation accepts.                                                  *)
CallsPassedTheirGuard ==
    \A c \in Callers : call[c] # Idle => /\ call[c].op \in Ops[call[c].task]
                                         /\ call[c].seen \in Allowed(call[c].op)

(* The inductive strengthening of the invariants below: how far the owner  *)
(* is bounds what the row can say, when the task is only ever cancelled.   *)
OwnerBoundsRow ==
    /\ \A t \in Tasks : owner[t] = "none" => t \notin registered
    /\ \A t \in CancelOnly :
        /\ owner[t] \in {"created", "ready"} => status[t] \in {"pending", "cancelled"}
        /\ owner[t] \in {"cleanup", "done"} => status[t] \in TERMINAL_STATUSES
        /\ owner[t] \notin {"cleanup", "done", "killed"}
              => status[t] # "completed" /\ ~hasResult[t]

IInv ==
    /\ TypeOK
    /\ CallsPassedTheirGuard
    /\ OwnerBoundsRow
    /\ CompletedMatchesOutcome
    /\ RegistryTracksThreads

-----------------------------------------------------------------------------
(* A step of a task's owner, a caller or the process keeps the types; this *)
(* holds for every set of operations.                                      *)
LEMMA TypeStep == TypeOK /\ CallsPassedTheirGuard /\ [Next]_vars
                    => TypeOK' /\ CallsPassedTheirGuard'
<1> SUFFICES ASSUME TypeOK, CallsPassedTheirGuard, [Next]_vars
             PROVE  TypeOK' /\ CallsPassedTheirGuard'
    OBVIOUS
<1> USE OpsAssumption, MaxRestartsAssumption
    DEF TypeOK, VALID_STATUSES, TERMINAL_STATUSES, OwnerStates, Outcomes
<1>1. ASSUME NEW t \in Tasks, NEW k \in {"background", "inline"}, CreateTask(t, k)
      PROVE  TypeOK' /\ CallsPassedTheirGuard'
      BY <1>1 DEF CreateTask, CallsPassedTheirGuard
<1>2. ASSUME NEW t \in Tasks, OwnerStep(t)
      PROVE  TypeOK' /\ CallsPassedTheirGuard'
  <2>1. UNCHANGED <<call, restarts, kind>> /\ status' \in [Tasks -> VALID_STATUSES \union {"absent"}]
        BY <1>2 DEF OwnerStep, LaunchThread, WriteRunning, WriteRunningFails, FunctionEnds,
                    WriteOutcome, WriteOutcomeFails, Unregister
  <2>2. hasResult' \in [Tasks -> BOOLEAN]
    <3>1. CASE WriteOutcome(t)
      <4>1. (hasResult[t] \/ (Succeeded(t) /\ outcome[t] = "data")) \in BOOLEAN
            BY DEF Succeeded
      <4> QED BY <3>1, <4>1, Zenon DEF WriteOutcome
    <3>2. CASE ~WriteOutcome(t)
          BY <1>2, <3>2 DEF OwnerStep, LaunchThread, WriteRunning, WriteRunningFails,
                            FunctionEnds, WriteOutcomeFails, Unregister
    <3> QED BY <3>1, <3>2
  <2>3. owner' \in [Tasks -> OwnerStates] /\ outcome' \in [Tasks -> Outcomes]
        BY <1>2 DEF OwnerStep, LaunchThread, WriteRunning, WriteRunningFails, FunctionEnds,
                    WriteOutcome, WriteOutcomeFails, Unregister
  <2>4. registered' \subseteq Tasks
        BY <1>2 DEF OwnerStep, LaunchThread, WriteRunning, WriteRunningFails, FunctionEnds,
                    WriteOutcome, WriteOutcomeFails, Unregister
  <2> QED BY <2>1, <2>2, <2>3, <2>4 DEF CallsPassedTheirGuard
<1>3. ASSUME NEW c \in Callers, CallerStep(c)
      PROVE  TypeOK' /\ CallsPassedTheirGuard'
  <2>1. ASSUME NEW t \in Tasks, NEW op \in Ops[t], CallRead(c, op, t)
        PROVE  TypeOK' /\ CallsPassedTheirGuard'
    <3>1. op \in Operations
          BY OpsAssumption
    <3>2. status[t] \in VALID_STATUSES
          BY <2>1, <3>1 DEF CallRead, Allowed, Operations
    <3>3. [op |-> op, task |-> t, seen |-> status[t]] \in Calls
          BY <3>1, <3>2 DEF Calls
    <3> QED BY <2>1, <3>3 DEF CallRead, CallsPassedTheirGuard
  <2>2. CASE CallWrite(c)
    <3>1. call[c].task \in Tasks /\ call[c].op \in Operations /\ call[c].seen \in VALID_STATUSES
          BY <2>2 DEF CallWrite, Calls
    <3>2. Target(call[c]) \in VALID_STATUSES
          BY <3>1 DEF Target, Operations
    <3>3. (hasResult[call[c].task] \/ call[c].op = "complete") \in BOOLEAN
          BY <3>1
    <3>4. hasResult' \in [Tasks -> BOOLEAN]
          BY <2>2, <3>1, <3>3, Zenon DEF CallWrite
    <3> QED BY <2>2, <3>1, <3>2, <3>4 DEF CallWrite, CallsPassedTheirGuard, Calls
  <2>3. CASE CallWriteFails(c)
        BY <2>3 DEF CallWriteFails, CallsPassedTheirGuard, Calls
  <2> QED BY <1>3, <2>1, <2>2, <2>3 DEF CallerStep
<1>4. CASE Restart
      BY <1>4 DEF Restart, CallsPassedTheirGuard, Calls
<1>5. CASE UNCHANGED vars
      BY <1>5 DEF vars, CallsPassedTheirGuard
<1> QED BY <1>1, <1>2, <1>3, <1>4, <1>5 DEF Next

LEMMA TypeInit == Init => TypeOK /\ CallsPassedTheirGuard
BY DEF Init, TypeOK, CallsPassedTheirGuard, VALID_STATUSES, OwnerStates, Outcomes, Calls

(* The variables keep their types in every behaviour (all of               *)
(* agent_services.py as modelled).                                         *)
THEOREM TypeCorrect == Spec => []TypeOK
<1>1. Spec => [](TypeOK /\ CallsPassedTheirGuard)
      BY TypeInit, TypeStep, PTL DEF Spec
<1> QED BY <1>1, PTL

-----------------------------------------------------------------------------
(* After the owner's last write, a terminal status is overwritten only by  *)
(* a guarded call that had read another status: no operation's guard       *)
(* accepts a terminal status it would then change.                         *)
THEOREM OutcomeLossNeedsStaleCall == Spec => OutcomeOnlyLostToStaleCall
<1> DEFINE Lost(t) == /\ owner[t] \in {"cleanup", "done"}
                      /\ status[t] \in TERMINAL_STATUSES
                      /\ status'[t] # status[t]
           Stale(t) == \E c \in Callers : /\ call[c] # Idle /\ call'[c] = Idle
                                          /\ call[c].task = t
                                          /\ call[c].seen # status[t]
<1>1. ASSUME TypeOK, CallsPassedTheirGuard, [Next]_vars, NEW t \in Tasks, Lost(t)
      PROVE  Stale(t)
  <2>1. PICK c \in Callers : CallWrite(c) /\ call[c].task = t
    <3>2. \A u \in Tasks, k \in {"background", "inline"} : ~CreateTask(u, k)
          BY <1>1 DEF CreateTask, TypeOK
    <3>3. \A u \in Tasks : ~OwnerStep(u)
          BY <1>1 DEF OwnerStep, LaunchThread, WriteRunning, WriteRunningFails, FunctionEnds,
                      WriteOutcome, WriteOutcomeFails, Unregister, TypeOK
    <3>4. ~Restart /\ ~(UNCHANGED vars)
          BY <1>1 DEF Restart, vars
    <3>5. PICK c \in Callers : CallerStep(c)
          BY <1>1, <3>2, <3>3, <3>4 DEF Next
    <3>6. CallWrite(c)
          BY <1>1, <3>5 DEF CallerStep, CallRead, CallWriteFails
    <3>7. call[c].task = t
          BY <1>1, <3>6 DEF CallWrite, TypeOK
    <3> QED BY <3>6, <3>7
  <2>2. call[c] # Idle /\ call'[c] = Idle
        BY <1>1, <2>1 DEF CallWrite, TypeOK
  <2>3. status'[t] = Target(call[c])
        BY <1>1, <2>1 DEF CallWrite, TypeOK
  <2>4. call[c].seen \in Allowed(call[c].op) /\ call[c].op \in Operations
        BY <1>1, <2>1, <2>2 DEF CallsPassedTheirGuard, TypeOK, Calls
  <2>5. call[c].seen # status[t]
        BY <1>1, <2>3, <2>4
           DEF Operations, Allowed, Target, TERMINAL_STATUSES, VALID_STATUSES
  <2> QED BY <2>1, <2>2, <2>5
<1>2. TypeOK /\ CallsPassedTheirGuard /\ [Next]_vars
         => [\A t \in Tasks : Lost(t) => Stale(t)]_vars
      BY <1>1
<1> QED BY <1>2, TypeInit, TypeStep, PTL DEF Spec, OutcomeOnlyLostToStaleCall

-----------------------------------------------------------------------------
(* The inductive step of IInv. *)
LEMMA OwnerKeepsIInv ==
    ASSUME IInv, TypeOK', CallsPassedTheirGuard',
           NEW t \in Tasks, OwnerStep(t)
    PROVE  IInv'
<1> USE DEF TypeOK, OwnerBoundsRow, TERMINAL_STATUSES, Live, CancelOnly
<1>1. CASE LaunchThread(t)
      BY <1>1 DEF IInv, LaunchThread, CompletedMatchesOutcome, RegistryTracksThreads, Succeeded
<1>2. CASE WriteRunning(t)
      BY <1>2 DEF IInv, WriteRunning, CompletedMatchesOutcome, RegistryTracksThreads, Succeeded
<1>3. CASE WriteRunningFails(t)
      BY <1>3 DEF IInv, WriteRunningFails, CompletedMatchesOutcome, RegistryTracksThreads, Succeeded
<1>4. ASSUME NEW o \in {"data", "nodata", "raised"}, FunctionEnds(t, o) PROVE IInv'
      BY <1>4 DEF IInv, FunctionEnds, CompletedMatchesOutcome, RegistryTracksThreads, Succeeded
<1>5. CASE WriteOutcome(t)
  <2>1. status'[t] = (IF Succeeded(t) THEN "completed" ELSE "failed")
        BY <1>5 DEF WriteOutcome, IInv
  <2>2. ASSUME t \in CancelOnly
        PROVE  hasResult'[t] = (Succeeded(t) /\ outcome[t] = "data")
    <3>1. ~hasResult[t]
          BY <1>5, <2>2 DEF WriteOutcome, IInv
    <3>2. hasResult'[t] = (hasResult[t] \/ (Succeeded(t) /\ outcome[t] = "data"))
          BY <1>5, Zenon DEF WriteOutcome, IInv
    <3> QED BY <3>1, <3>2, Zenon
  <2>3. \A u \in Tasks \ {t} : /\ status'[u] = status[u] /\ hasResult'[u] = hasResult[u]
                               /\ owner'[u] = owner[u]
        BY <1>5 DEF WriteOutcome, IInv
  <2>4. owner'[t] = "cleanup" /\ UNCHANGED <<kind, outcome, registered>>
        BY <1>5 DEF WriteOutcome, IInv
  <2>5. CompletedMatchesOutcome'
    <3>1. \A u \in Tasks : Succeeded(u)' = Succeeded(u)
          BY <2>4 DEF Succeeded
    <3>2. ASSUME NEW u \in CancelOnly, status'[u] = "completed"
          PROVE  Succeeded(u) /\ hasResult'[u] = (outcome[u] = "data")
      <4>1. CASE u = t
            BY <2>1, <2>2, <3>2, <4>1, Zenon
      <4>2. CASE u # t
            BY <2>3, <3>2, <4>2 DEF IInv, CompletedMatchesOutcome
      <4> QED BY <4>1, <4>2
    <3> QED BY <2>4, <3>1, <3>2 DEF CompletedMatchesOutcome
  <2>6. OwnerBoundsRow'
        BY <2>1, <2>3, <2>4 DEF IInv
  <2>7. RegistryTracksThreads'
        BY <2>3, <2>4, <1>5 DEF IInv, RegistryTracksThreads, WriteOutcome
  <2> QED BY <2>5, <2>6, <2>7 DEF IInv
<1>6. CASE WriteOutcomeFails(t)
      BY <1>6 DEF IInv, WriteOutcomeFails, CompletedMatchesOutcome, RegistryTracksThreads, Succeeded
<1>7. CASE Unregister(t)
      BY <1>7 DEF IInv, Unregister, CompletedMatchesOutcome, RegistryTracksThreads, Succeeded
<1> QED BY <1>1, <1>2, <1>3, <1>4, <1>5, <1>6, <1>7 DEF OwnerStep

LEMMA CallerKeepsIInv ==
    ASSUME IInv, TypeOK', CallsPassedTheirGuard',
           NEW c \in Callers, CallerStep(c)
    PROVE  IInv'
<1> USE DEF TypeOK, OwnerBoundsRow, TERMINAL_STATUSES, Live,
            CompletedMatchesOutcome, RegistryTracksThreads, Succeeded, CancelOnly
<1>1. ASSUME NEW t \in Tasks, NEW op \in Ops[t], CallRead(c, op, t) PROVE IInv'
      BY <1>1 DEF IInv, CallRead
<1>2. CASE CallWrite(c)
  <2>1. /\ call[c].task \in Tasks
        /\ call[c].task \in CancelOnly => call[c].op = "cancel"
        BY <1>2 DEF IInv, CallWrite, Calls, CallsPassedTheirGuard, CancelOnly
  <2>2. call[c].task \in CancelOnly => Target(call[c]) = "cancelled"
        BY <2>1 DEF Target
  <2>3. \A t \in Tasks : status'[t] = IF t = call[c].task THEN Target(call[c]) ELSE status[t]
        BY <1>2 DEF CallWrite, IInv
  <2>4. \A t \in CancelOnly : hasResult'[t] = hasResult[t]
    <3>1. \A t \in Tasks : t # call[c].task => hasResult'[t] = hasResult[t]
          BY <1>2 DEF CallWrite, IInv
    <3>2. ASSUME call[c].task \in CancelOnly
          PROVE  hasResult'[call[c].task] = hasResult[call[c].task]
      <4>1. (hasResult[call[c].task] \/ call[c].op = "complete") = hasResult[call[c].task]
            BY <2>1, <3>2 DEF IInv
      <4>2. hasResult' = [hasResult EXCEPT ![call[c].task] = hasResult[call[c].task]]
            BY <1>2, <4>1, Zenon DEF CallWrite
      <4>3. hasResult \in [Tasks -> BOOLEAN]
            BY DEF IInv
      <4> QED BY <2>1, <4>2, <4>3
    <3> QED BY <3>1, <3>2 DEF CancelOnly
  <2>5. UNCHANGED <<kind, owner, outcome, registered>>
        BY <1>2 DEF CallWrite
  <2>6. OwnerBoundsRow'
        BY <2>2, <2>3, <2>4, <2>5 DEF IInv
  <2>7. CompletedMatchesOutcome'
        BY <2>2, <2>3, <2>4, <2>5 DEF IInv
  <2>8. RegistryTracksThreads'
        BY <2>2, <2>3, <2>5 DEF IInv
  <2> QED BY <2>6, <2>7, <2>8 DEF IInv
<1>3. CASE CallWriteFails(c)
      BY <1>3 DEF IInv, CallWriteFails
<1> QED BY <1>1, <1>2, <1>3 DEF CallerStep

LEMMA IInvStep == IInv /\ [Next]_vars => IInv'
<1> SUFFICES ASSUME IInv, [Next]_vars PROVE IInv'
    OBVIOUS
<1>1. TypeOK' /\ CallsPassedTheirGuard'
      BY TypeStep DEF IInv
<1> USE DEF TypeOK, OwnerBoundsRow, CompletedMatchesOutcome, RegistryTracksThreads,
            Succeeded, TERMINAL_STATUSES, Live, CancelOnly
<1>2. ASSUME NEW t \in Tasks, NEW k \in {"background", "inline"}, CreateTask(t, k) PROVE IInv'
      BY <1>1, <1>2 DEF IInv, CreateTask
<1>3. ASSUME NEW t \in Tasks, OwnerStep(t) PROVE IInv'
      BY <1>1, <1>3, OwnerKeepsIInv
<1>4. ASSUME NEW c \in Callers, CallerStep(c) PROVE IInv'
      BY <1>1, <1>4, CallerKeepsIInv
<1>5. CASE Restart
      BY <1>1, <1>5 DEF IInv, Restart
<1>6. CASE UNCHANGED vars
      BY <1>1, <1>6 DEF IInv, vars
<1> QED BY <1>2, <1>3, <1>4, <1>5, <1>6 DEF Next

LEMMA IInvInit == Init => IInv
BY TypeInit DEF Init, IInv, OwnerBoundsRow, CancelOnly, CompletedMatchesOutcome,
               RegistryTracksThreads

(* The owner of a task that is only cancelled, as the routes do it, leaves *)
(* a terminal row when it has run to its end (agent_services.py:196-210).  *)
THEOREM OwnerSettlesTask == Spec => []FinishedOwnerSettlesTask
<1>1. IInv => FinishedOwnerSettlesTask
      BY DEF IInv, OwnerBoundsRow, FinishedOwnerSettlesTask
<1>2. IInv /\ [Next]_vars => IInv'
      BY IInvStep
<1> QED BY <1>1, <1>2, IInvInit, PTL DEF Spec

(* The completed row of such a task is the outcome its owner computed.     *)
THEOREM CompletedIsGenuine == Spec => []CompletedMatchesOutcome
<1>1. IInv => CompletedMatchesOutcome
      BY DEF IInv
<1>2. IInv /\ [Next]_vars => IInv'
      BY IInvStep
<1> QED BY <1>1, <1>2, IInvInit, PTL DEF Spec

(* _running_tasks holds the threads with work left, and no finished one.   *)
THEOREM RegistryCorrect == Spec => []RegistryTracksThreads
<1>1. IInv => RegistryTracksThreads
      BY DEF IInv
<1>2. IInv /\ [Next]_vars => IInv'
      BY IInvStep
<1> QED BY <1>1, <1>2, IInvInit, PTL DEF Spec
=============================================================================
