------------------------- MODULE BackgroundJobsProofs -------------------------
(***************************************************************************)
(* What the threads of the background keep, for any nodes and graph, runs, *)
(* dates, jobs and queries, and for all bounds: the task document shows    *)
(* every report that was saved and a polling client misses no event, a     *)
(* stored review has public data of its own date and is pushed once, and a *)
(* statement that a fetch reports as saved is in the archive.  The fourth  *)
(* part, the graph of a trade decision, has its proofs in TradeGraphProofs.*)
(***************************************************************************)
EXTENDS MCBackgroundJobs, Sequences, TLAPS

(* The document of a graph task.                                           *)

(* What the document shows of a node that is where phase says.             *)
Shows(n) ==
    CASE threads[n] \in {"waiting", "starting", "in_start"} -> "pending"
      [] threads[n] \in {"running", "ending", "in_end"} -> "running"
      [] OTHER -> IF outcome[n] = "raised" THEN "failed" ELSE outcome[n]

InLock(n) == threads[n] \in {"in_start", "in_end"}
Reading == {"in_init", "in_run", "in_sync", "in_fail", "in_done", "in_mark"}
Before == {"created", "in_init", "queued", "in_run"}
After == {"in_sync", "in_fail", "synced", "failed", "in_done", "in_mark", "over"}

ProgressTyped ==
    /\ DOMAIN taskDoc = {"status", "snap", "seq", "events"}
    /\ DOMAIN taskDoc.snap = {"nodes", "current", "graph"} /\ DOMAIN taskDoc.snap.nodes = TaskNodes
    /\ DOMAIN threads = TaskNodes
    /\ outcome \in [TaskNodes -> Progress!Traced \union {"none", "raised"}]
    /\ \A n \in TaskNodes : threads[n] \in {"waiting", "starting", "in_start", "running", "ending", "in_end", "over"}
    /\ runner \in Before \union {"graph"} \union After \union {"dead", "swept"}

(* Only the node that has the lock is in it, the runner writes before and  *)
(* after the nodes, and who is about to write has read what is stored.     *)
OneWriter ==
    /\ Progress!Alive => \A n \in TaskNodes : InLock(n) => lock = n /\ copy = taskDoc
    /\ Progress!Alive /\ lock # NoNode => lock \in TaskNodes /\ InLock(lock)
    /\ runner \in Before => \A n \in TaskNodes : threads[n] = "waiting"
    /\ runner \in After => Progress!AtRest
    /\ runner \in Reading => copy = taskDoc

NodesAreShown ==
    /\ \A n \in TaskNodes : taskDoc.snap.nodes[n] = Shows(n)
    /\ \A n \in TaskNodes : threads[n] \in {"ending", "in_end", "over"} => outcome[n] # "none"

PInv == ProgressTyped /\ OneWriter /\ NodesAreShown

LEMMA PInvShowsReports == PInv => Progress!NoReportIsLost
  BY DEF PInv, ProgressTyped, NodesAreShown, Shows, Progress!NoReportIsLost

LEMMA PInvInit == Progress!Init => PInv
  <1> SUFFICES ASSUME Progress!Init PROVE PInv
    OBVIOUS
  <1>1. ProgressTyped
    BY DEF Progress!Init, ProgressTyped, Progress!NewTask, Progress!NewSnapshot, Before
  <1>2. OneWriter
    BY DEF Progress!Init, OneWriter, Progress!Alive, InLock, Before, After, Reading
  <1>3. NodesAreShown
    BY DEF Progress!Init, NodesAreShown, Shows, Progress!NewTask, Progress!NewSnapshot
  <1> QED
    BY <1>1, <1>2, <1>3 DEF PInv

(* What an operation on the document leaves of the rest.                   *)
Documented(d) ==
    /\ DOMAIN d = {"status", "snap", "seq", "events"}
    /\ DOMAIN d.snap = {"nodes", "current", "graph"} /\ DOMAIN d.snap.nodes = TaskNodes

LEMMA LoggingKeepsSnapshot ==
  ASSUME NEW d, Documented(d), NEW type, NEW n
  PROVE  Documented(Progress!Logged(d, type, n)) /\ Progress!Logged(d, type, n).snap = d.snap
  BY DEF Documented, Progress!Logged

EventTypes == {"graph_initialized", "node_started", "node_finished", "node_failed",
               "graph_synced", "graph_failed"}
LogEntries == [seq : Nat, type : EventTypes, node : TaskNodes \union {NoNode}]

(* The numbers of the log rise, and the last is the document's.            *)
LogSorted(d) ==
    /\ d.seq \in Nat /\ d.events \in Seq(LogEntries)
    /\ \A i \in DOMAIN d.events : d.events[i].seq <= d.seq
    /\ \A i, j \in DOMAIN d.events : i < j => d.events[i].seq < d.events[j].seq
LogRises(d) == LogSorted(d) /\ (Len(d.events) > 0 => d.events[Len(d.events)].seq = d.seq)

(* What e has more than d has higher numbers than d has given.             *)
LogGrows(d, e) ==
    /\ LogRises(e) /\ d.seq <= e.seq
    /\ \A i \in DOMAIN e.events :
          \/ e.events[i].seq > d.seq
          \/ \E j \in DOMAIN d.events : e.events[i].seq = d.events[j].seq

(* _append_graph_event: the event has the next number, and the oldest are  *)
(* dropped (agent_task_repository.py:186-197).                             *)
LEMMA LoggingGrows ==
  ASSUME NEW d, Documented(d), LogSorted(d), NEW type \in EventTypes, NEW n \in TaskNodes \union {NoNode}
  PROVE  LogGrows(d, Progress!Logged(d, type, n))
  <1>a. PICK x : x = [seq |-> d.seq + 1, type |-> type, node |-> n]
    OBVIOUS
  <1>b. PICK long : long = Append(d.events, x)
    OBVIOUS
  <1>c. PICK surplus : surplus = IF Len(long) > MaxEvents THEN Len(long) - MaxEvents ELSE 0
    OBVIOUS
  <1>d. PICK kept : kept = SubSeq(long, surplus + 1, Len(long))
    OBVIOUS
  <1>1. Progress!Logged(d, type, n) = [d EXCEPT !.seq = @ + 1, !.events = kept]
    BY <1>a, <1>b, <1>c, <1>d DEF Progress!Logged
  <1>e. PICK e : e = Progress!Logged(d, type, n)
    OBVIOUS
  <1>2. e.seq = d.seq + 1 /\ e.events = kept
    BY <1>1, <1>e DEF Documented
  <1>3. d.seq \in Nat /\ d.events \in Seq(LogEntries) /\ x \in LogEntries /\ x.seq = d.seq + 1
    BY <1>a DEF LogRises, LogSorted, LogEntries
  <1>4. /\ long \in Seq(LogEntries) /\ Len(long) = Len(d.events) + 1 /\ long[Len(long)] = x
        /\ \A i \in 1 .. Len(d.events) : long[i] = d.events[i]
    BY <1>3, <1>b
  <1>5. surplus \in Nat /\ surplus < Len(long)
    BY <1>4, <1>c, ProgressAssumption
  <1>6. /\ kept \in Seq(LogEntries) /\ Len(kept) = Len(long) - surplus /\ Len(kept) > 0
        /\ \A i \in 1 .. Len(kept) : kept[i] = long[surplus + i]
    <2>a. PICK m \in Nat : m = Len(long)
      BY <1>4
    <2>1. surplus + 1 \in 1 .. m /\ m - surplus \in Nat /\ m - surplus > 0
      BY <1>5, <2>a
    <2>2. /\ kept = [i \in 1 .. (m - surplus) |-> long[surplus + i]]
      BY <1>d, <2>1, <2>a, <1>5
    <2>3. \A i \in 1 .. (m - surplus) : surplus + i \in 1 .. m
      BY <1>5, <2>1
    <2>4. \A i \in 1 .. m : long[i] \in LogEntries
      BY <1>4, <2>a
    <2>5. kept \in [1 .. (m - surplus) -> LogEntries]
      BY <2>2, <2>3, <2>4
    <2>6. kept \in Seq(LogEntries) /\ Len(kept) = m - surplus
      BY <2>1, <2>5
    <2> QED
      BY <2>1, <2>2, <2>6, <2>a
  <1>f. PICK last : last = Len(d.events)
    OBVIOUS
  <1>g. /\ last \in Nat /\ DOMAIN d.events = 1 .. last /\ Len(long) = last + 1
        /\ \A i \in 1 .. last : d.events[i] \in LogEntries /\ long[i] = d.events[i]
    BY <1>3, <1>4, <1>f
  <1>h. \A i \in 1 .. last : long[i].seq \in Nat /\ long[i].seq <= d.seq
    BY <1>g DEF LogSorted, LogEntries
  <1>7. \A i \in 1 .. Len(long) : long[i].seq <= d.seq + 1
    <2> SUFFICES ASSUME NEW i \in 1 .. Len(long) PROVE long[i].seq <= d.seq + 1
      OBVIOUS
    <2>1. i = last + 1 \/ i \in 1 .. last
      BY <1>g
    <2> QED
      BY <1>3, <1>4, <1>g, <1>h, <2>1
  <1>8. \A i, j \in 1 .. Len(long) : i < j => long[i].seq < long[j].seq
    <2> SUFFICES ASSUME NEW i \in 1 .. Len(long), NEW j \in 1 .. Len(long), i < j PROVE long[i].seq < long[j].seq
      OBVIOUS
    <2>1. i \in 1 .. last /\ (j = last + 1 \/ j \in 1 .. last)
      BY <1>g
    <2>2. CASE j = last + 1
      <3>1. long[i].seq \in Nat /\ long[i].seq <= d.seq
        BY <1>h, <2>1
      <3>2. long[j] = x /\ x.seq = d.seq + 1 /\ d.seq \in Nat
        BY <1>3, <1>4, <1>g, <2>2
      <3> QED
        BY <3>1, <3>2
    <2>3. CASE j \in 1 .. last
      BY <1>g, <2>1, <2>3 DEF LogRises, LogSorted
    <2> QED
      BY <2>1, <2>2, <2>3
  <1>9. kept[Len(kept)].seq = d.seq + 1
    <2>1. Len(kept) \in 1 .. Len(kept) /\ surplus + Len(kept) = Len(long)
      BY <1>4, <1>5, <1>6
    <2> QED
      BY <1>3, <1>4, <1>6, <2>1
  <1>10. \A i \in 1 .. Len(kept) : surplus + i \in 1 .. Len(long)
    BY <1>4, <1>5, <1>6
  <1>11. LogRises(e)
    <2>1. e.seq \in Nat /\ e.events \in Seq(LogEntries) /\ DOMAIN e.events = 1 .. Len(kept)
      BY <1>2, <1>3, <1>6
    <2>2. \A i \in DOMAIN e.events : e.events[i].seq <= e.seq
      BY <1>2, <1>6, <1>7, <1>10, <2>1
    <2>3. ASSUME NEW i \in DOMAIN e.events, NEW j \in DOMAIN e.events, i < j
          PROVE  e.events[i].seq < e.events[j].seq
      <3>1. e.events[i] = long[surplus + i] /\ e.events[j] = long[surplus + j]
        BY <1>2, <1>6, <2>1
      <3>2. surplus + i \in 1 .. Len(long) /\ surplus + j \in 1 .. Len(long)
        BY <1>10, <2>1
      <3>3. surplus + i < surplus + j
        BY <1>5, <1>6, <2>1, <2>3
      <3> QED
        BY <1>8, <3>1, <3>2, <3>3
    <2> QED
      BY <1>2, <1>6, <1>9, <2>1, <2>2, <2>3 DEF LogRises, LogSorted
  <1>12. ASSUME NEW i \in DOMAIN e.events
         PROVE  e.events[i].seq > d.seq \/ \E j \in DOMAIN d.events : e.events[i].seq = d.events[j].seq
    <2>1. i \in 1 .. Len(kept) /\ e.events[i] = long[surplus + i] /\ surplus + i \in 1 .. Len(long)
      BY <1>2, <1>6, <1>10, <1>12
    <2>2. CASE surplus + i = Len(long)
      BY <1>3, <1>4, <2>1, <2>2
    <2>3. CASE surplus + i # Len(long)
      <3>1. surplus + i \in 1 .. Len(d.events)
        BY <1>3, <1>4, <1>5, <2>1, <2>3
      <3>2. surplus + i \in DOMAIN d.events /\ e.events[i].seq = d.events[surplus + i].seq
        BY <1>3, <1>4, <2>1, <3>1
      <3> QED
        BY <3>2
    <2> QED
      BY <2>2, <2>3
  <1> QED
    BY <1>2, <1>3, <1>11, <1>12, <1>e DEF LogGrows

LEMMA RecordingGrows ==
  ASSUME NEW d, Documented(d), LogRises(d), NEW s, DOMAIN s = {"nodes", "current", "graph"},
         DOMAIN s.nodes = TaskNodes, NEW type \in EventTypes, NEW n \in TaskNodes \union {NoNode}
  PROVE  LogGrows(d, Progress!Recorded(d, s, type, n))
  <1>a. PICK e : e = [d EXCEPT !.snap = s, !.seq = @ + 1]
    OBVIOUS
  <1>b. PICK f : f = Progress!Recorded(d, s, type, n)
    OBVIOUS
  <1>1. Documented(e) /\ e.events = d.events /\ e.seq = d.seq + 1
    BY <1>a DEF Documented
  <1>2. d.seq \in Nat /\ \A i \in DOMAIN d.events : d.events[i].seq \in Nat
    <2>1. d.seq \in Nat /\ d.events \in Seq(LogEntries)
      BY DEF LogRises, LogSorted
    <2>2. \A i \in DOMAIN d.events : d.events[i] \in LogEntries
      BY <2>1
    <2> QED
      BY <2>1, <2>2 DEF LogEntries
  <1>3. LogSorted(e) /\ LogRises(d) /\ Progress!Recorded(d, s, type, n) = Progress!Logged(e, type, n)
    BY <1>1, <1>2, <1>a DEF LogSorted, Progress!Recorded, LogRises
  <1>4. LogGrows(e, f)
    BY <1>1, <1>3, <1>b, LoggingGrows
  <1>5. ASSUME NEW i \in DOMAIN f.events
        PROVE  f.events[i].seq > d.seq \/ \E j \in DOMAIN d.events : f.events[i].seq = d.events[j].seq
    <2>1. f.events \in Seq(LogEntries)
      BY <1>4 DEF LogGrows, LogRises, LogSorted
    <2>2. f.events[i] \in LogEntries
      BY <1>5, <2>1
    <2>3. f.events[i].seq \in Nat
      BY <2>2 DEF LogEntries
    <2> QED
      BY <1>1, <1>2, <1>4, <1>5, <2>3 DEF LogGrows
  <1>6. d.seq <= f.seq
    BY <1>1, <1>2, <1>4 DEF LogGrows, LogRises, LogSorted
  <1> QED
    BY <1>4, <1>5, <1>6, <1>b DEF LogGrows
LEMMA RecordingSetsSnapshot ==
  ASSUME NEW d, Documented(d), NEW s, DOMAIN s = {"nodes", "current", "graph"}, DOMAIN s.nodes = TaskNodes,
         NEW type \in EventTypes, NEW n \in TaskNodes \union {NoNode}
  PROVE  /\ Documented(Progress!Recorded(d, s, type, n)) /\ Progress!Recorded(d, s, type, n).snap = s
         /\ LogRises(d) => LogGrows(d, Progress!Recorded(d, s, type, n))
  <1> DEFINE e == [d EXCEPT !.snap = s, !.seq = @ + 1]
  <1>1. Documented(e) /\ e.snap = s
    BY DEF Documented
  <1>2. Progress!Recorded(d, s, type, n) = Progress!Logged(e, type, n)
    BY DEF Progress!Recorded
  <1> HIDE DEF e
  <1> QED
    BY <1>1, <1>2, LoggingKeepsSnapshot, RecordingGrows

(* What is recorded as the snapshot s.                                     *)
RecordedAs(d, e, s) ==
    /\ DOMAIN s = {"nodes", "current", "graph"} /\ DOMAIN s.nodes = TaskNodes
    /\ \E type \in EventTypes, n \in TaskNodes \union {NoNode} : e = Progress!Recorded(d, s, type, n)

LEMMA RecordedIsShown ==
  ASSUME NEW d, Documented(d), NEW e, NEW s, RecordedAs(d, e, s)
  PROVE  Documented(e) /\ e.snap = s /\ (LogRises(d) => LogGrows(d, e))
  BY RecordingSetsSnapshot DEF RecordedAs

LEMMA StartingShows ==
  ASSUME NEW d, Documented(d), NEW n \in TaskNodes
  PROVE  /\ Documented(Progress!NodeRunning(d, n))
         /\ LogRises(d) => LogGrows(d, Progress!NodeRunning(d, n))
         /\ Progress!NodeRunning(d, n).snap.nodes = [d.snap.nodes EXCEPT ![n] = "running"]
  <1> DEFINE s == [nodes |-> [d.snap.nodes EXCEPT ![n] = "running"], current |-> {}, graph |-> "running"]
  <1>b. PICK t : t = [s EXCEPT !.current = Progress!WithStatus(s, "running")]
    OBVIOUS
  <1>1. DOMAIN t = {"nodes", "current", "graph"} /\ t.nodes = [d.snap.nodes EXCEPT ![n] = "running"]
    BY <1>b
  <1>2. Progress!NodeRunning(d, n) = Progress!Recorded(d, t, "node_started", n)
    BY <1>b DEF Progress!NodeRunning
  <1>3. DOMAIN t.nodes = TaskNodes
    BY <1>b, <1>1 DEF Documented
  <1>9. RecordedAs(d, Progress!NodeRunning(d, n), t)
    BY <1>1, <1>2, <1>3 DEF RecordedAs, EventTypes
  <1> QED
    BY <1>1, <1>2, <1>3, <1>9, RecordedIsShown

LEMMA FinishingShows ==
  ASSUME NEW d, Documented(d), NEW n \in TaskNodes, NEW o
  PROVE  /\ Documented(Progress!NodeFinished(d, n, o))
         /\ LogRises(d) => LogGrows(d, Progress!NodeFinished(d, n, o))
         /\ Progress!NodeFinished(d, n, o).snap.nodes = [d.snap.nodes EXCEPT ![n] = o]
  <1>a. PICK s : s = [d.snap EXCEPT !.nodes[n] = o]
    OBVIOUS
  <1>1. DOMAIN s = {"nodes", "current", "graph"} /\ s.nodes = [d.snap.nodes EXCEPT ![n] = o]
    BY <1>a DEF Documented
  <1>b. PICK t : t = [s EXCEPT !.current = Progress!WithStatus(s, "running"), !.graph = Progress!Inferred(s)]
    OBVIOUS
  <1>2. DOMAIN t = {"nodes", "current", "graph"} /\ t.nodes = [d.snap.nodes EXCEPT ![n] = o]
    BY <1>a, <1>b, <1>1
  <1>3. Progress!NodeFinished(d, n, o) = Progress!Recorded(d, t, "node_finished", n)
    BY <1>a, <1>b DEF Progress!NodeFinished
  <1>4. DOMAIN t.nodes = TaskNodes
    BY <1>a, <1>b, <1>2 DEF Documented
  <1>9. RecordedAs(d, Progress!NodeFinished(d, n, o), t)
    BY <1>2, <1>3, <1>4 DEF RecordedAs, EventTypes
  <1> QED
    BY <1>2, <1>3, <1>4, <1>9, RecordedIsShown

LEMMA FailingShows ==
  ASSUME NEW d, Documented(d), NEW n \in TaskNodes
  PROVE  /\ Documented(Progress!NodeFailed(d, n))
         /\ LogRises(d) => LogGrows(d, Progress!NodeFailed(d, n))
         /\ Progress!NodeFailed(d, n).snap.nodes = [d.snap.nodes EXCEPT ![n] = "failed"]
  <1>b. PICK t : t = [nodes |-> [d.snap.nodes EXCEPT ![n] = "failed"], current |-> {}, graph |-> "failed"]
    OBVIOUS
  <1>1. Progress!NodeFailed(d, n) = Progress!Recorded(d, t, "node_failed", n)
    BY <1>b DEF Progress!NodeFailed
  <1>2. /\ DOMAIN t = {"nodes", "current", "graph"} /\ DOMAIN t.nodes = TaskNodes
        /\ t.nodes = [d.snap.nodes EXCEPT ![n] = "failed"]
    BY <1>b DEF Documented
  <1>9. RecordedAs(d, Progress!NodeFailed(d, n), t)
    BY <1>1, <1>2 DEF RecordedAs, EventTypes
  <1> QED
    BY <1>1, <1>2, <1>9, RecordedIsShown

LEMMA SyncingShows ==
  ASSUME NEW d, Documented(d)
  PROVE  /\ Documented(Progress!Synced(d)) /\ (LogRises(d) => LogGrows(d, Progress!Synced(d)))
         /\ Progress!Synced(d).snap.nodes = d.snap.nodes
  <1>b. PICK t : t = [d.snap EXCEPT !.current = {}, !.graph = Progress!Inferred(d.snap)]
    OBVIOUS
  <1>1. Progress!Synced(d) = Progress!Recorded(d, t, "graph_synced", NoNode)
    BY <1>b DEF Progress!Synced
  <1>2. DOMAIN t = {"nodes", "current", "graph"} /\ t.nodes = d.snap.nodes /\ DOMAIN t.nodes = TaskNodes
    BY <1>b DEF Documented
  <1>9. RecordedAs(d, Progress!Synced(d), t)
    BY <1>1, <1>2 DEF RecordedAs, EventTypes
  <1> QED
    BY <1>1, <1>2, <1>9, RecordedIsShown

LEMMA GraphFailingShows ==
  ASSUME NEW d, Documented(d)
  PROVE  /\ Documented(Progress!GraphFailed(d)) /\ (LogRises(d) => LogGrows(d, Progress!GraphFailed(d)))
         /\ \A n \in TaskNodes : d.snap.nodes[n] # "running" => Progress!GraphFailed(d).snap.nodes[n] = d.snap.nodes[n]
  <1>b. PICK t : t = [nodes |-> [n \in TaskNodes |-> IF d.snap.nodes[n] = "running" THEN "failed"
                                               ELSE d.snap.nodes[n]],
                    current |-> {}, graph |-> "failed"]
    OBVIOUS
  <1>1. Progress!GraphFailed(d) = Progress!Recorded(d, t, "graph_failed", NoNode)
    BY <1>b DEF Progress!GraphFailed
  <1>2. DOMAIN t = {"nodes", "current", "graph"} /\ DOMAIN t.nodes = TaskNodes
    BY <1>b DEF Documented
  <1>3. \A n \in TaskNodes : d.snap.nodes[n] # "running" => t.nodes[n] = d.snap.nodes[n]
    BY <1>b
  <1>9. RecordedAs(d, Progress!GraphFailed(d), t)
    BY <1>1, <1>2, <1>3 DEF RecordedAs, EventTypes
  <1> QED
    BY <1>1, <1>2, <1>3, <1>9, RecordedIsShown

LEMMA StoredIsDocumented == ASSUME ProgressTyped PROVE Documented(taskDoc)
  BY DEF ProgressTyped, Documented

(* A node that is at work has the graph at work.                           *)
LEMMA NodesWorkInTheGraph ==
  ASSUME PInv, Progress!Alive, NEW n \in TaskNodes, threads[n] \notin {"waiting", "over"}
  PROVE  runner = "graph"
  BY DEF PInv, ProgressTyped, OneWriter, Progress!AtRest, Progress!Alive

LEMMA OneInLock ==
  ASSUME PInv, Progress!Alive, NEW n \in TaskNodes, InLock(n)
  PROVE  lock = n /\ copy = taskDoc /\ \A m \in TaskNodes \ {n} : ~InLock(m)
  BY DEF PInv, OneWriter

LEMMA BeginKeepsPInv ==
  ASSUME PInv, NEW n \in TaskNodes, Progress!Begin(n)
  PROVE  PInv'
  <1>1. /\ runner = "graph" /\ threads[n] = "waiting" /\ threads' = [threads EXCEPT ![n] = "starting"]
        /\ UNCHANGED <<taskDoc, copy, lock, outcome, runner>>
    BY DEF Progress!Begin, Progress!Goto
  <1>2. threads'[n] = "starting" /\ (\A m \in TaskNodes \ {n} : threads'[m] = threads[m]) /\ DOMAIN threads' = TaskNodes
    BY <1>1 DEF PInv, ProgressTyped
  <1>3. ProgressTyped'
    BY <1>1, <1>2 DEF PInv, ProgressTyped
  <1>4. OneWriter'
    BY <1>1, <1>2 DEF PInv, OneWriter, InLock, Progress!Alive, Before, After, Reading
  <1>5. NodesAreShown'
    BY <1>1, <1>2 DEF PInv, NodesAreShown, Shows
  <1> QED
    BY <1>3, <1>4, <1>5 DEF PInv

LEMMA EnterKeepsPInv ==
  ASSUME PInv, NEW n \in TaskNodes, Progress!Enter(n)
  PROVE  PInv'
  <1>1. /\ Progress!Alive /\ threads[n] \in {"starting", "ending"} /\ lock = NoNode /\ lock' = n /\ copy' = taskDoc
        /\ threads' = [threads EXCEPT ![n] = IF threads[n] = "starting" THEN "in_start" ELSE "in_end"]
        /\ UNCHANGED <<taskDoc, outcome, runner>>
    BY DEF Progress!Enter, Progress!Goto, Progress!TakeLock, Progress!Asking
  <1>2. /\ threads'[n] = IF threads[n] = "starting" THEN "in_start" ELSE "in_end"
        /\ (\A m \in TaskNodes \ {n} : threads'[m] = threads[m]) /\ DOMAIN threads' = TaskNodes
    BY <1>1 DEF PInv, ProgressTyped
  <1>3. runner = "graph"
    BY <1>1, NodesWorkInTheGraph
  <1>4. ProgressTyped'
    BY <1>1, <1>2 DEF PInv, ProgressTyped
  <1>5. \A m \in TaskNodes : ~InLock(m)
    BY <1>1, ProgressAssumption DEF PInv, OneWriter
  <1>6. OneWriter'
    BY <1>1, <1>2, <1>3, <1>5 DEF PInv, OneWriter, InLock, Progress!Alive, Before, After, Reading
  <1>7. NodesAreShown'
    BY <1>1, <1>2 DEF PInv, NodesAreShown, Shows
  <1> QED
    BY <1>4, <1>6, <1>7 DEF PInv

(* A node in the lock has read what is stored, and shows its own change in *)
(* it (agent_task_repository.py:96-155).                                   *)
LEMMA SaveStartKeepsPInv ==
  ASSUME PInv, NEW n \in TaskNodes, Progress!SaveStart(n)
  PROVE  PInv'
  <1>1. /\ Progress!Alive /\ threads[n] = "in_start" /\ taskDoc' = Progress!NodeRunning(copy, n) /\ lock' = NoNode
        /\ threads' = [threads EXCEPT ![n] = "running"] /\ UNCHANGED <<outcome, runner>>
    BY DEF Progress!SaveStart, Progress!Goto
  <1>2. threads'[n] = "running" /\ (\A m \in TaskNodes \ {n} : threads'[m] = threads[m]) /\ DOMAIN threads' = TaskNodes
    BY <1>1 DEF PInv, ProgressTyped
  <1>3. runner = "graph"
    BY <1>1, NodesWorkInTheGraph
  <1>4. copy = taskDoc /\ \A m \in TaskNodes \ {n} : ~InLock(m)
    BY <1>1, OneInLock DEF InLock
  <1>5. Documented(taskDoc') /\ taskDoc'.snap.nodes = [taskDoc.snap.nodes EXCEPT ![n] = "running"]
    BY <1>1, <1>4, StoredIsDocumented, StartingShows DEF PInv
  <1>6. ProgressTyped'
    BY <1>1, <1>2, <1>5 DEF PInv, ProgressTyped, Documented
  <1>7. OneWriter'
    BY <1>1, <1>2, <1>3, <1>4 DEF OneWriter, InLock, Before, After, Reading
  <1>8. DOMAIN taskDoc.snap.nodes = TaskNodes
    BY DEF PInv, ProgressTyped
  <1>9. NodesAreShown'
    BY <1>1, <1>2, <1>5, <1>8 DEF PInv, NodesAreShown, Shows
  <1> QED
    BY <1>6, <1>7, <1>9 DEF PInv

LEMMA NodeEndsKeepsPInv ==
  ASSUME PInv, NEW n \in TaskNodes, NEW o \in Progress!Traced \union {"raised"}, Progress!NodeEnds(n, o)
  PROVE  PInv'
  <1>1. /\ Progress!Alive /\ threads[n] = "running" /\ outcome' = [outcome EXCEPT ![n] = o]
        /\ threads' = [threads EXCEPT ![n] = "ending"] /\ UNCHANGED <<taskDoc, copy, lock, runner>>
    BY DEF Progress!NodeEnds, Progress!Goto
  <1>2. /\ threads'[n] = "ending" /\ (\A m \in TaskNodes \ {n} : threads'[m] = threads[m]) /\ DOMAIN threads' = TaskNodes
        /\ outcome'[n] = o /\ \A m \in TaskNodes \ {n} : outcome'[m] = outcome[m]
    BY <1>1 DEF PInv, ProgressTyped
  <1>3. runner = "graph"
    BY <1>1, NodesWorkInTheGraph
  <1>4. ProgressTyped'
    BY <1>1, <1>2 DEF PInv, ProgressTyped
  <1>5. OneWriter'
    BY <1>1, <1>2, <1>3 DEF PInv, OneWriter, InLock, Progress!Alive, Before, After, Reading
  <1>6. NodesAreShown'
    BY <1>1, <1>2 DEF PInv, NodesAreShown, Shows, Progress!Traced
  <1> QED
    BY <1>4, <1>5, <1>6 DEF PInv

LEMMA SaveEndKeepsPInv ==
  ASSUME PInv, NEW n \in TaskNodes, Progress!SaveEnd(n)
  PROVE  PInv'
  <1>1. /\ Progress!Alive /\ threads[n] = "in_end" /\ lock' = NoNode
        /\ taskDoc' = IF outcome[n] = "raised" THEN Progress!NodeFailed(copy, n) ELSE Progress!NodeFinished(copy, n, outcome[n])
        /\ threads' = [threads EXCEPT ![n] = "over"] /\ UNCHANGED <<outcome, runner>>
    BY DEF Progress!SaveEnd, Progress!Goto
  <1>2. threads'[n] = "over" /\ (\A m \in TaskNodes \ {n} : threads'[m] = threads[m]) /\ DOMAIN threads' = TaskNodes
    BY <1>1 DEF PInv, ProgressTyped
  <1>3. runner = "graph"
    BY <1>1, NodesWorkInTheGraph
  <1>4. copy = taskDoc /\ \A m \in TaskNodes \ {n} : ~InLock(m)
    BY <1>1, OneInLock DEF InLock
  <1>5. /\ Documented(taskDoc')
        /\ taskDoc'.snap.nodes = [taskDoc.snap.nodes EXCEPT ![n] = IF outcome[n] = "raised" THEN "failed" ELSE outcome[n]]
    BY <1>1, <1>4, StoredIsDocumented, FailingShows, FinishingShows DEF PInv
  <1>6. ProgressTyped'
    BY <1>1, <1>2, <1>5 DEF PInv, ProgressTyped, Documented
  <1>7. OneWriter'
    BY <1>1, <1>2, <1>3, <1>4 DEF OneWriter, InLock, Before, After, Reading
  <1>8. DOMAIN taskDoc.snap.nodes = TaskNodes
    BY DEF PInv, ProgressTyped
  <1>9. NodesAreShown'
    BY <1>1, <1>2, <1>5, <1>8 DEF PInv, NodesAreShown, Shows
  <1> QED
    BY <1>6, <1>7, <1>9 DEF PInv

(* The runner: it reads, and nothing is written before it writes.          *)
LEMMA RunnerReadsKeepsPInv ==
  ASSUME PInv, NEW from, NEW to, Progress!RunnerReads(from, to),
         \/ from \in Before /\ to \in Before
         \/ from \in After /\ to \in After
         \/ from = "graph" /\ to \in After /\ Progress!AtRest
  PROVE  PInv'
  <1>1. runner = from /\ runner' = to /\ copy' = taskDoc /\ UNCHANGED <<taskDoc, lock, threads, outcome>>
    BY DEF Progress!RunnerReads
  <1>2. ProgressTyped'
    BY <1>1 DEF PInv, ProgressTyped
  <1>3. \A n \in TaskNodes : ~InLock(n)
    BY <1>1 DEF PInv, OneWriter, InLock, Progress!AtRest
  <1>4. Progress!Alive
    BY <1>1 DEF Progress!Alive, Before, After
  <1>5. lock = NoNode
    BY <1>3, <1>4 DEF PInv, OneWriter
  <1>6. Before \intersect After = {} /\ "graph" \notin Before \union After
    BY DEF Before, After
  <1>7. (\A n \in TaskNodes : InLock(n)' = InLock(n)) /\ Progress!AtRest' = Progress!AtRest
    BY <1>1 DEF InLock, Progress!AtRest
  <1>8. OneWriter'
    BY <1>1, <1>3, <1>5, <1>6, <1>7 DEF PInv, OneWriter
  <1>9. NodesAreShown'
    BY <1>1 DEF PInv, NodesAreShown, Shows
  <1> QED
    BY <1>2, <1>8, <1>9 DEF PInv

LEMMA RunnerWritesKeepsPInv ==
  ASSUME PInv, NEW from, NEW d, NEW to, Progress!RunnerWrites(from, d, to), Documented(d),
         to \notin Reading,
         \/ from \in Before /\ to \in Before \union {"graph"}
         \/ from \in After /\ to \in After,
         \A n \in TaskNodes : d.snap.nodes[n] = Shows(n)
  PROVE  PInv'
  <1>1. runner = from /\ runner' = to /\ taskDoc' = d /\ UNCHANGED <<lock, threads, outcome>>
    BY DEF Progress!RunnerWrites
  <1>2. ProgressTyped'
    BY <1>1 DEF PInv, ProgressTyped, Documented
  <1>3. \A n \in TaskNodes : ~InLock(n)
    BY <1>1 DEF PInv, OneWriter, InLock, Progress!AtRest
  <1>4. Progress!Alive
    BY <1>1 DEF Progress!Alive, Before, After
  <1>5. lock = NoNode
    BY <1>3, <1>4 DEF PInv, OneWriter
  <1>6. Before \intersect After = {} /\ "graph" \notin Before \union After
    BY DEF Before, After
  <1>7. (\A n \in TaskNodes : InLock(n)' = InLock(n)) /\ Progress!AtRest' = Progress!AtRest
    BY <1>1 DEF InLock, Progress!AtRest
  <1>8. OneWriter'
    BY <1>1, <1>3, <1>5, <1>6, <1>7 DEF PInv, OneWriter
  <1>9. NodesAreShown'
    BY <1>1 DEF PInv, NodesAreShown, Shows
  <1> QED
    BY <1>2, <1>8, <1>9 DEF PInv

LEMMA InitGraphKeepsPInv ==
  ASSUME PInv, Progress!InitGraph
  PROVE  PInv'
  <1>1. CASE Progress!RunnerReads("created", "in_init")
    BY <1>1, RunnerReadsKeepsPInv DEF Before
  <1>2. CASE Progress!RunnerWrites("in_init", Progress!Logged([copy EXCEPT !.snap = Progress!NewSnapshot], "graph_initialized", NoNode), "queued")
    <2>1. runner = "in_init"
      BY <1>2 DEF Progress!RunnerWrites
    <2>2. copy = taskDoc /\ \A n \in TaskNodes : threads[n] = "waiting"
      BY <2>1 DEF PInv, OneWriter, Before, Reading
    <2>3. Documented([copy EXCEPT !.snap = Progress!NewSnapshot]) /\ [copy EXCEPT !.snap = Progress!NewSnapshot].snap = Progress!NewSnapshot
      BY <2>2, StoredIsDocumented DEF PInv, Documented, Progress!NewSnapshot
    <2> DEFINE d == Progress!Logged([copy EXCEPT !.snap = Progress!NewSnapshot], "graph_initialized", NoNode)
    <2>4. Documented(d) /\ d.snap = Progress!NewSnapshot
      BY <2>3, LoggingKeepsSnapshot
    <2>5. \A n \in TaskNodes : d.snap.nodes[n] = Shows(n)
      BY <2>2, <2>4 DEF Progress!NewSnapshot, Shows
    <2> HIDE DEF d
    <2> QED
      BY <1>2, <2>4, <2>5, RunnerWritesKeepsPInv DEF d, Before, Reading
  <1> QED
    BY <1>1, <1>2 DEF Progress!InitGraph

(* The status alone is written.                                            *)
LEMMA StatusKeepsPInv ==
  ASSUME PInv, NEW from \in Reading, NEW to \in {"graph", "over"}, NEW s,
         Progress!RunnerWrites(from, [copy EXCEPT !.status = s], to),
         \/ from \in Before /\ to = "graph"
         \/ from \in After /\ to = "over"
  PROVE  PInv'
  <1>1. copy = taskDoc
    BY DEF PInv, OneWriter, Progress!RunnerWrites
  <1>2. Documented([copy EXCEPT !.status = s]) /\ [copy EXCEPT !.status = s].snap = taskDoc.snap
    BY <1>1, StoredIsDocumented DEF PInv, Documented
  <1>3. \A n \in TaskNodes : [copy EXCEPT !.status = s].snap.nodes[n] = Shows(n)
    BY <1>2 DEF PInv, NodesAreShown
  <1>4. to \notin Reading /\ ("over" \in After)
    BY DEF Reading, After
  <1> QED
    BY <1>2, <1>3, <1>4, RunnerWritesKeepsPInv

LEMMA MarkRunningKeepsPInv ==
  ASSUME PInv, Progress!MarkRunning
  PROVE  PInv'
  <1>1. CASE Progress!RunnerReads("queued", "in_run")
    BY <1>1, RunnerReadsKeepsPInv DEF Before
  <1>2. CASE Progress!RunnerWrites("in_run", [copy EXCEPT !.status = "running"], "graph")
    BY <1>2, StatusKeepsPInv DEF Before, Reading
  <1> QED
    BY <1>1, <1>2 DEF Progress!MarkRunning

LEMMA GraphEndsKeepsPInv ==
  ASSUME PInv, Progress!GraphEnds
  PROVE  PInv'
  <1>1. PICK to \in {"in_fail", "in_sync"} : Progress!RunnerReads("graph", to) /\ Progress!AtRest
    BY DEF Progress!GraphEnds
  <1> QED
    BY <1>1, RunnerReadsKeepsPInv DEF After

(* No node is running when the graph is over, so no status is changed.     *)
LEMMA SyncKeepsPInv ==
  ASSUME PInv, Progress!Sync
  PROVE  PInv'
  <1>1. copy = taskDoc /\ Progress!AtRest
    BY DEF PInv, OneWriter, Progress!Sync, Progress!RunnerWrites, Reading, After
  <1>2. Documented(copy)
    BY <1>1, StoredIsDocumented DEF PInv
  <1>3. \A n \in TaskNodes : copy.snap.nodes[n] = Shows(n)
    BY <1>1 DEF PInv, NodesAreShown
  <1>4. CASE Progress!RunnerWrites("in_sync", Progress!Synced(copy), "synced")
    <2>1. Documented(Progress!Synced(copy)) /\ Progress!Synced(copy).snap.nodes = copy.snap.nodes
      BY <1>2, SyncingShows
    <2> QED
      BY <1>3, <1>4, <2>1, RunnerWritesKeepsPInv DEF After, Reading
  <1>5. CASE Progress!RunnerWrites("in_fail", Progress!GraphFailed(copy), "failed")
    <2>1. \A n \in TaskNodes : copy.snap.nodes[n] # "running"
      BY <1>1, <1>3 DEF PInv, ProgressTyped, Progress!AtRest, Shows, Progress!Traced
    <2>2. Documented(Progress!GraphFailed(copy)) /\ \A n \in TaskNodes : Progress!GraphFailed(copy).snap.nodes[n] = copy.snap.nodes[n]
      BY <1>2, <2>1, GraphFailingShows
    <2> QED
      BY <1>3, <1>5, <2>2, RunnerWritesKeepsPInv DEF After, Reading
  <1> QED
    BY <1>4, <1>5 DEF Progress!Sync

LEMMA SettleKeepsPInv ==
  ASSUME PInv, Progress!Settle
  PROVE  PInv'
  <1>1. CASE Progress!RunnerReads("synced", "in_done") \/ Progress!RunnerReads("failed", "in_mark")
    BY <1>1, RunnerReadsKeepsPInv DEF After
  <1>2. CASE \/ Progress!RunnerWrites("in_done", [copy EXCEPT !.status = "completed"], "over")
             \/ Progress!RunnerWrites("in_mark", [copy EXCEPT !.status = "failed"], "over")
    BY <1>2, StatusKeepsPInv DEF After, Reading
  <1> QED
    BY <1>1, <1>2 DEF Progress!Settle

LEMMA DyingKeepsPInv ==
  ASSUME PInv, Progress!Die \/ Progress!MarkStale
  PROVE  PInv'
  <1>1. runner' \in {"dead", "swept"} /\ UNCHANGED <<taskDoc, threads, outcome>>
    BY DEF Progress!Die, Progress!MarkStale
  <1>2. ProgressTyped'
    BY <1>1 DEF PInv, ProgressTyped
  <1>3. OneWriter'
    BY <1>1 DEF OneWriter, Progress!Alive, Before, After, Reading
  <1>4. NodesAreShown'
    BY <1>1 DEF PInv, NodesAreShown, Shows
  <1> QED
    BY <1>2, <1>3, <1>4 DEF PInv

LEMMA PollingKeepsPInv ==
  ASSUME PInv, UNCHANGED <<taskDoc, copy, lock, threads, outcome, runner>>
  PROVE  PInv'
  BY DEF PInv, ProgressTyped, OneWriter, NodesAreShown, Shows, InLock, Progress!Alive, Progress!AtRest

LEMMA PInvNext == PInv /\ [Progress!Next]_(Progress!vars) => PInv'
  <1> SUFFICES ASSUME PInv, [Progress!Next]_(Progress!vars) PROVE PInv'
    OBVIOUS
  <1>1. CASE Progress!Poll \/ UNCHANGED Progress!vars
    BY <1>1, PollingKeepsPInv DEF Progress!Poll, Progress!vars
  <1>2. CASE Progress!Die \/ Progress!MarkStale
    BY <1>2, DyingKeepsPInv
  <1>3. CASE Progress!Run
    BY <1>3, InitGraphKeepsPInv, MarkRunningKeepsPInv, GraphEndsKeepsPInv, SyncKeepsPInv, SettleKeepsPInv
       DEF Progress!Run
  <1>4. ASSUME NEW n \in TaskNodes, Progress!Begin(n) \/ Progress!Report(n) PROVE PInv'
    BY <1>4, BeginKeepsPInv, EnterKeepsPInv, SaveStartKeepsPInv, SaveEndKeepsPInv, NodeEndsKeepsPInv
       DEF Progress!Report
  <1> QED
    BY <1>1, <1>2, <1>3, <1>4 DEF Progress!Next

(* The log of a task's document: the numbers of its events rise, and what  *)
(* a client that polls has not seen is above its cursor.                   *)
PollInv ==
    /\ LogRises(taskDoc)
    /\ cursor \in Nat /\ cursor <= taskDoc.seq
    /\ \A i \in DOMAIN taskDoc.events : taskDoc.events[i].seq > cursor \/ taskDoc.events[i].seq \in heard

LEMMA PollInvMissesNothing == PollInv => Progress!PollingMissesNothing
  BY DEF PollInv, LogRises, LogSorted, LogEntries, Progress!PollingMissesNothing, Progress!Last

LEMMA PollInvInit == Progress!Init => PollInv
  <1> SUFFICES ASSUME Progress!Init PROVE PollInv
    OBVIOUS
  <1>1. taskDoc.seq = 0 /\ taskDoc.events = <<>> /\ cursor = 0
    BY DEF Progress!Init, Progress!NewTask
  <1>2. <<>> \in Seq(LogEntries) /\ Len(<<>>) = 0 /\ DOMAIN <<>> = {}
    OBVIOUS
  <1> QED
    BY <1>1, <1>2 DEF PollInv, LogRises, LogSorted


LEMMA GrowingKeepsPollInv ==
  ASSUME PollInv, LogGrows(taskDoc, taskDoc'), UNCHANGED <<cursor, heard>>
  PROVE  PollInv'
  <1>1. /\ LogRises(taskDoc') /\ taskDoc.seq <= taskDoc'.seq /\ taskDoc.seq \in Nat /\ taskDoc'.seq \in Nat
        /\ cursor \in Nat /\ cursor <= taskDoc.seq
    BY DEF PollInv, LogGrows, LogRises, LogSorted
  <1>2. ASSUME NEW i \in DOMAIN taskDoc'.events
        PROVE  taskDoc'.events[i].seq > cursor \/ taskDoc'.events[i].seq \in heard
    <2>1. taskDoc'.events \in Seq(LogEntries)
      BY <1>1 DEF LogRises, LogSorted
    <2>2. taskDoc'.events[i] \in LogEntries
      BY <1>2, <2>1
    <2>3. taskDoc'.events[i].seq \in Nat
      BY <2>2 DEF LogEntries
    <2> QED
      BY <1>1, <1>2, <2>3 DEF PollInv, LogGrows
  <1> QED
    BY <1>1, <1>2 DEF PollInv

LEMMA SameLogGrows ==
  ASSUME NEW d, LogRises(d), NEW e, e.seq = d.seq, e.events = d.events
  PROVE  LogGrows(d, e)
  <1>1. LogRises(e) /\ d.seq <= e.seq
    BY DEF LogRises, LogSorted
  <1> QED
    BY <1>1 DEF LogGrows

(* Who writes has read what is stored.                                     *)
LEMMA NodesGrow ==
  ASSUME PInv, PollInv, NEW n \in TaskNodes, Progress!SaveStart(n) \/ Progress!SaveEnd(n)
  PROVE  LogGrows(taskDoc, taskDoc')
  <1>1. copy = taskDoc
    BY OneInLock DEF Progress!SaveStart, Progress!SaveEnd, InLock
  <1>2. Documented(taskDoc) /\ LogRises(taskDoc)
    BY StoredIsDocumented DEF PInv, PollInv
  <1>3. CASE Progress!SaveStart(n)
    BY <1>1, <1>2, <1>3, StartingShows DEF Progress!SaveStart
  <1>4. CASE Progress!SaveEnd(n)
    BY <1>1, <1>2, <1>4, FinishingShows, FailingShows DEF Progress!SaveEnd
  <1> QED
    BY <1>3, <1>4

LEMMA RunnerGrows ==
  ASSUME PInv, PollInv, Progress!Run
  PROVE  LogGrows(taskDoc, taskDoc')
  <1>1. Documented(taskDoc) /\ LogRises(taskDoc)
    BY StoredIsDocumented DEF PInv, PollInv
  <1>2. runner \in Reading => copy = taskDoc
    BY DEF PInv, OneWriter
  <1>3. CASE UNCHANGED taskDoc
    BY <1>1, <1>3, SameLogGrows
  <1>4. CASE Progress!RunnerWrites("in_init", Progress!Logged([copy EXCEPT !.snap = Progress!NewSnapshot], "graph_initialized", NoNode), "queued")
    <2>a. PICK d : d = [taskDoc EXCEPT !.snap = Progress!NewSnapshot]
      OBVIOUS
    <2>1. Documented(d) /\ LogSorted(d) /\ d.seq = taskDoc.seq /\ d.events = taskDoc.events
      BY <1>1, <2>a DEF Documented, LogRises, LogSorted, Progress!NewSnapshot
    <2>2. taskDoc' = Progress!Logged(d, "graph_initialized", NoNode)
      BY <1>2, <1>4, <2>a DEF Progress!RunnerWrites, Reading
    <2>3. LogGrows(d, taskDoc')
      BY <2>1, <2>2, LoggingGrows DEF EventTypes
    <2> QED
      BY <2>1, <2>3 DEF LogGrows
  <1>5. ASSUME NEW s, NEW from \in Reading, NEW to, Progress!RunnerWrites(from, [copy EXCEPT !.status = s], to)
        PROVE  LogGrows(taskDoc, taskDoc')
    <2>1. taskDoc' = [taskDoc EXCEPT !.status = s]
      BY <1>2, <1>5 DEF Progress!RunnerWrites
    <2> QED
      BY <1>1, <2>1, SameLogGrows DEF Documented
  <1>6. CASE Progress!RunnerWrites("in_sync", Progress!Synced(copy), "synced")
    BY <1>1, <1>2, <1>6, SyncingShows DEF Progress!RunnerWrites, Reading
  <1>7. CASE Progress!RunnerWrites("in_fail", Progress!GraphFailed(copy), "failed")
    BY <1>1, <1>2, <1>7, GraphFailingShows DEF Progress!RunnerWrites, Reading
  <1>8. CASE Progress!InitGraph
    BY <1>3, <1>4, <1>8 DEF Progress!InitGraph, Progress!RunnerReads
  <1>9. CASE Progress!MarkRunning
    BY <1>3, <1>5, <1>9 DEF Progress!MarkRunning, Progress!RunnerReads, Reading
  <1>10. CASE Progress!GraphEnds
    BY <1>3, <1>10 DEF Progress!GraphEnds, Progress!RunnerReads
  <1>11. CASE Progress!Sync
    BY <1>6, <1>7, <1>11 DEF Progress!Sync
  <1>12. CASE Progress!Settle
    BY <1>3, <1>5, <1>12 DEF Progress!Settle, Progress!RunnerReads, Reading
  <1> QED
    BY <1>8, <1>9, <1>10, <1>11, <1>12 DEF Progress!Run

(* list_graph_events: the client has heard all that was in the log.        *)
LEMMA PollKeepsPollInv ==
  ASSUME PollInv, Progress!Poll
  PROVE  PollInv'
  <1>a. PICK new : new = {taskDoc.events[i].seq : i \in {j \in DOMAIN taskDoc.events : taskDoc.events[j].seq > cursor}}
    OBVIOUS
  <1>1. /\ new # {} /\ heard' = heard \union new /\ cursor' = taskDoc.events[Len(taskDoc.events)].seq /\ taskDoc' = taskDoc
    BY <1>a DEF Progress!Poll, Progress!Last
  <1>2. taskDoc.events \in Seq(LogEntries) /\ taskDoc.seq \in Nat /\ LogRises(taskDoc)
    BY DEF PollInv, LogRises, LogSorted
  <1>3. Len(taskDoc.events) > 0
    BY <1>1, <1>2, <1>a
  <1>4. cursor' = taskDoc.seq
    BY <1>1, <1>2, <1>3 DEF LogRises
  <1>5. \A i \in DOMAIN taskDoc.events : taskDoc.events[i].seq \in heard'
    BY <1>1, <1>a DEF PollInv
  <1> QED
    BY <1>1, <1>2, <1>4, <1>5 DEF PollInv

LEMMA PollInvNext == PInv /\ PollInv /\ [Progress!Next]_(Progress!vars) => PollInv'
  <1> SUFFICES ASSUME PInv, PollInv, [Progress!Next]_(Progress!vars) PROVE PollInv'
    OBVIOUS
  <1>1. LogRises(taskDoc)
    BY DEF PollInv
  <1>2. CASE UNCHANGED <<taskDoc, cursor, heard>>
    BY <1>1, <1>2, SameLogGrows, GrowingKeepsPollInv
  <1>3. CASE Progress!Run
    <2>1. UNCHANGED <<cursor, heard>>
      BY <1>3 DEF Progress!Run, Progress!InitGraph, Progress!MarkRunning, Progress!GraphEnds, Progress!Sync, Progress!Settle, Progress!RunnerReads, Progress!RunnerWrites
    <2> QED
      BY <1>3, <2>1, RunnerGrows, GrowingKeepsPollInv
  <1>4. ASSUME NEW n \in TaskNodes, Progress!SaveStart(n) \/ Progress!SaveEnd(n) PROVE PollInv'
    <2>1. UNCHANGED <<cursor, heard>>
      BY <1>4 DEF Progress!SaveStart, Progress!SaveEnd
    <2> QED
      BY <1>4, <2>1, NodesGrow, GrowingKeepsPollInv
  <1>5. ASSUME NEW n \in TaskNodes, Progress!Begin(n) \/ Progress!Report(n) PROVE PollInv'
    <2>1. CASE Progress!SaveStart(n) \/ Progress!SaveEnd(n)
      BY <1>4, <2>1
    <2>2. CASE Progress!Begin(n) \/ Progress!Enter(n) \/ \E o \in Progress!Traced \union {"raised"} : Progress!NodeEnds(n, o)
      BY <1>2, <2>2 DEF Progress!Begin, Progress!Enter, Progress!NodeEnds
    <2> QED
      BY <1>5, <2>1, <2>2 DEF Progress!Report
  <1>6. CASE Progress!Poll
    BY <1>6, PollKeepsPollInv
  <1>7. CASE Progress!Die \/ Progress!MarkStale \/ UNCHANGED Progress!vars
    BY <1>2, <1>7 DEF Progress!Die, Progress!MarkStale, Progress!vars
  <1> QED
    BY <1>3, <1>5, <1>6, <1>7 DEF Progress!Next

LEMMA ProgressMoves ==
  MCSpec => Progress!Init /\ [][Progress!Next]_(Progress!vars)
  <1>1. MCInit => Progress!Init
    BY DEF MCInit
  <1>2. [MCNext]_all => [Progress!Next]_(Progress!vars)
    BY DEF MCNext, ReportStep, ProgressStep, GraphStep, FlexStep, all, progress, Progress!vars
  <1> QED
    BY <1>1, <1>2, PTL DEF MCSpec

(* The document shows every start and end that a node has saved, although  *)
(* every save writes the whole document and siblings save meanwhile        *)
(* (agent_task_repository.py:96-155).                                      *)
THEOREM ReportsAreKept == MCSpec => []NoReportIsLost
  <1>1. PInv => NoReportIsLost
    BY PInvShowsReports DEF NoReportIsLost
  <1> QED
    BY <1>1, PInvInit, PInvNext, ProgressMoves, PTL

(* A client that polls with the last number it was sent misses no event    *)
(* that is in the log (agent_task_repository.py:192, 319).                 *)
THEOREM PollingIsComplete == MCSpec => []PollingMissesNothing
  <1>1. PollInv => PollingMissesNothing
    BY PollInvMissesNothing DEF PollingMissesNothing
  <1> QED
    BY <1>1, PInvInit, PInvNext, PollInvInit, PollInvNext, ProgressMoves, PTL


-----------------------------------------------------------------------------
(* The report agents.                                                      *)

LEMMA GotoMoves ==
  ASSUME DOMAIN at = Runs, NEW r \in Runs, NEW place, Agents!Goto(r, place)
  PROVE  DOMAIN at' = Runs /\ at'[r] = place /\ \A q \in Runs \ {r} : at'[q] = at[q]
  BY DEF Agents!Goto

Pushing(r) == at[r] \in {"send", "sent"}

PushTyped ==
    /\ DOMAIN at = Runs /\ DOMAIN about = Runs
    /\ pushes \in [Dates -> Nat] /\ restarts \in Nat
    /\ \A r \in Runs : kind[r] = "daily_review" /\ at[r] # "idle" => about[r] \in Dates
    /\ \A r \in Runs : Pushing(r) => kind[r] = "daily_review"

(* A date of which no two runs were in the notifier at once: one push for  *)
(* every restart, and one that is remembered or about to be.               *)
OnePush(d) ==
    /\ \A r, q \in Agents!Notifying(d) : r = q
    /\ Agents!Notifying(d) # {} => d \notin sent
    /\ pushes[d] <= restarts + 1
    /\ d \notin sent /\ (\A r \in Agents!Notifying(d) : at[r] = "send") => pushes[d] <= restarts

PushInv == PushTyped /\ \A d \in Dates \ raced : OnePush(d)

LEMMA PushInvPushesOnce == PushInv => Agents!DateIsPushedOnce
  BY DEF PushInv, PushTyped, OnePush, Agents!DateIsPushedOnce

LEMMA PushInvInit == Agents!Init => PushInv
  BY DEF Agents!Init, PushInv, PushTyped, Pushing, OnePush, Agents!Notifying

(* A step outside of the notifier.                                         *)
LEMMA ElsewhereKeepsPushInv ==
  ASSUME PushInv, NEW r \in Runs, NEW place, Agents!Goto(r, place), ~Pushing(r), place \notin {"send", "sent"},
         UNCHANGED <<kind, sent, pushes, raced, restarts>>,
         DOMAIN about' = Runs, \A q \in Runs \ {r} : about'[q] = about[q],
         kind[r] = "daily_review" => about'[r] \in Dates
  PROVE  PushInv'
  <1>1. DOMAIN at' = Runs /\ at'[r] = place /\ \A q \in Runs \ {r} : at'[q] = at[q]
    BY GotoMoves DEF PushInv, PushTyped
  <1>2. PushTyped'
    BY <1>1 DEF PushInv, PushTyped, Pushing
  <1>3. ASSUME NEW d PROVE Agents!Notifying(d)' = Agents!Notifying(d) /\ \A q \in Agents!Notifying(d) : at'[q] = at[q]
    BY <1>1 DEF Agents!Notifying, Pushing
  <1>4. ASSUME NEW d \in Dates \ raced PROVE OnePush(d)'
    BY <1>3 DEF PushInv, OnePush
  <1> QED
    BY <1>2, <1>4 DEF PushInv

LEMMA LoadKeepsPushInv ==
  ASSUME PushInv, NEW r \in Runs, Agents!Load(r)
  PROVE  PushInv'
  <1>1. PICK s \in Agents!Subjects(kind[r]) : about' = [about EXCEPT ![r] = s]
    BY DEF Agents!Load
  <1>2. /\ DOMAIN about' = Runs /\ (\A q \in Runs \ {r} : about'[q] = about[q])
        /\ kind[r] = "daily_review" => about'[r] \in Dates
    BY <1>1 DEF PushInv, PushTyped, Agents!Subjects
  <1>3. PICK place \in {"cache", "skipped", "chat", "save", "ask"} : Agents!Goto(r, place)
    BY DEF Agents!Load
  <1>4. ~Pushing(r) /\ UNCHANGED <<kind, sent, pushes, raced, restarts>>
    BY DEF Agents!Load, Pushing, Agents!pushed
  <1> QED
    BY <1>2, <1>3, <1>4, ElsewhereKeepsPushInv

LEMMA WorkKeepsPushInv ==
  ASSUME PushInv, NEW r \in Runs,
         \/ Agents!LookUp(r) \/ Agents!Reuse(r) \/ Agents!Fetch(r) \/ Agents!Keep(r) \/ Agents!Stamp(r)
         \/ Agents!Ask(r) \/ Agents!Chat(r) \/ Agents!WriteFiles(r) \/ Agents!Save(r)
  PROVE  PushInv'
  <1>1. PICK place \in {"reuse", "fetch", "ask", "keep", "stamp", "files", "save", "failed", "done", "notify"} :
            Agents!Goto(r, place)
    BY DEF Agents!LookUp, Agents!Reuse, Agents!Fetch, Agents!Keep, Agents!Stamp, Agents!Ask, Agents!Chat, Agents!WriteFiles, Agents!Save, Agents!AfterModel, Agents!AfterSave
  <1>2. /\ at[r] \in {"cache", "reuse", "fetch", "keep", "stamp", "ask", "chat", "files", "save"}
        /\ UNCHANGED <<kind, about, sent, pushes, raced, restarts>>
    BY DEF Agents!LookUp, Agents!Reuse, Agents!Fetch, Agents!Keep, Agents!Stamp, Agents!Ask, Agents!Chat, Agents!WriteFiles, Agents!Save, Agents!local, Agents!pushed
  <1>3. DOMAIN about = Runs /\ (kind[r] = "daily_review" => about[r] \in Dates)
    BY <1>2 DEF PushInv, PushTyped
  <1> QED
    BY <1>1, <1>2, <1>3, ElsewhereKeepsPushInv DEF Pushing

LEMMA NotifyKeepsPushInv ==
  ASSUME PushInv, NEW r \in Runs, Agents!Notify(r)
  PROVE  PushInv'
  <1>1. at[r] = "notify" /\ UNCHANGED <<kind, about, sent, pushes, restarts>>
    BY DEF Agents!Notify, Agents!local
  <1>2. DOMAIN about = Runs /\ (kind[r] = "daily_review" => about[r] \in Dates)
    BY <1>1 DEF PushInv, PushTyped
  <1>3. CASE Agents!Goto(r, "done") /\ UNCHANGED raced
    BY <1>1, <1>2, <1>3, ElsewhereKeepsPushInv DEF Pushing
  <1>4. CASE /\ kind[r] = "daily_review" /\ about[r] \notin sent /\ Agents!Goto(r, "send")
             /\ raced' = IF Agents!Notifying(about[r]) = {} THEN raced ELSE raced \union {about[r]}
    <2>1. DOMAIN at' = Runs /\ at'[r] = "send" /\ \A q \in Runs \ {r} : at'[q] = at[q]
      BY <1>4, GotoMoves DEF PushInv, PushTyped
    <2>2. PushTyped'
      BY <1>1, <1>4, <2>1 DEF PushInv, PushTyped, Pushing
    <2>3. ASSUME NEW d \in Dates \ raced', d # about[r] PROVE OnePush(d)'
      <3>1. Agents!Notifying(d)' = Agents!Notifying(d) /\ (\A q \in Agents!Notifying(d) : at'[q] = at[q]) /\ d \notin raced
        BY <1>1, <1>4, <2>1, <2>3 DEF Agents!Notifying
      <3> QED
        BY <1>1, <3>1 DEF PushInv, OnePush
    <2>4. ASSUME about[r] \in Dates \ raced' PROVE OnePush(about[r])'
      <3>1. Agents!Notifying(about[r]) = {} /\ about[r] \notin raced
        BY <1>4, <2>4
      <3>2. Agents!Notifying(about[r])' = {r}
        BY <1>1, <1>4, <2>1, <3>1 DEF Agents!Notifying
      <3>3. OnePush(about[r])
        BY <2>4, <3>1 DEF PushInv
      <3> QED
        BY <1>1, <1>4, <2>1, <3>1, <3>2, <3>3 DEF OnePush
    <2> QED
      BY <1>1, <2>2, <2>3, <2>4 DEF PushInv
  <1> QED
    BY <1>3, <1>4 DEF Agents!Notify

LEMMA SendKeepsPushInv ==
  ASSUME PushInv, NEW r \in Runs, Agents!Send(r)
  PROVE  PushInv'
  <1>1. /\ at[r] = "send" /\ pushes' = [pushes EXCEPT ![about[r]] = @ + 1] /\ Agents!Goto(r, "sent")
        /\ UNCHANGED <<kind, about, sent, raced, restarts>>
    BY DEF Agents!Send, Agents!local
  <1>2. DOMAIN at' = Runs /\ at'[r] = "sent" /\ \A q \in Runs \ {r} : at'[q] = at[q]
    BY <1>1, GotoMoves DEF PushInv, PushTyped
  <1>3. kind[r] = "daily_review" /\ about[r] \in Dates
    BY <1>1 DEF PushInv, PushTyped, Pushing
  <1>4. PushTyped'
    BY <1>1, <1>2, <1>3 DEF PushInv, PushTyped, Pushing
  <1>5. ASSUME NEW d \in Dates \ raced PROVE OnePush(d)'
    <2>1. OnePush(d) /\ Agents!Notifying(d)' = Agents!Notifying(d) /\ pushes[d] \in Nat /\ restarts \in Nat
      BY <1>1, <1>2, <1>3 DEF PushInv, PushTyped, Agents!Notifying
    <2>2. CASE d # about[r]
      BY <1>1, <1>2, <2>1, <2>2 DEF OnePush, Agents!Notifying
    <2>3. CASE d = about[r]
      <3>1. r \in Agents!Notifying(d)
        BY <1>1, <1>3, <2>3 DEF Agents!Notifying
      <3>2. d \notin sent /\ pushes[d] <= restarts
        BY <1>1, <2>1, <3>1 DEF OnePush
      <3>3. pushes'[d] = pushes[d] + 1
        BY <1>1, <2>3 DEF PushInv, PushTyped
      <3> QED
        BY <1>1, <1>2, <2>1, <3>1, <3>2, <3>3 DEF OnePush
    <2> QED
      BY <2>2, <2>3
  <1> QED
    BY <1>1, <1>4, <1>5 DEF PushInv

LEMMA RememberKeepsPushInv ==
  ASSUME PushInv, NEW r \in Runs, Agents!Remember(r)
  PROVE  PushInv'
  <1>1. /\ at[r] = "sent" /\ sent' = sent \union {about[r]} /\ Agents!Goto(r, "done")
        /\ UNCHANGED <<kind, about, pushes, raced, restarts>>
    BY DEF Agents!Remember, Agents!local
  <1>2. DOMAIN at' = Runs /\ at'[r] = "done" /\ \A q \in Runs \ {r} : at'[q] = at[q]
    BY <1>1, GotoMoves DEF PushInv, PushTyped
  <1>3. kind[r] = "daily_review"
    BY <1>1 DEF PushInv, PushTyped, Pushing
  <1>4. PushTyped'
    BY <1>1, <1>2, <1>3 DEF PushInv, PushTyped, Pushing
  <1>5. ASSUME NEW d \in Dates \ raced PROVE OnePush(d)'
    <2>1. OnePush(d)
      BY <1>5 DEF PushInv
    <2>2. Agents!Notifying(d)' = Agents!Notifying(d) \ {r}
      BY <1>1, <1>2 DEF Agents!Notifying
    <2>3. CASE d # about[r]
      BY <1>1, <1>2, <2>1, <2>2, <2>3 DEF OnePush, Agents!Notifying
    <2>4. CASE d = about[r]
      <3>1. r \in Agents!Notifying(d)
        BY <1>1, <1>3, <2>4 DEF Agents!Notifying
      <3> QED
        BY <1>1, <2>1, <2>2, <2>4, <3>1 DEF OnePush
    <2> QED
      BY <2>3, <2>4
  <1> QED
    BY <1>1, <1>4, <1>5 DEF PushInv

(* A restart ends every run in the notifier.                               *)
LEMMA RestartKeepsPushInv ==
  ASSUME PushInv, Agents!Restart
  PROVE  PushInv'
  <1>1. /\ restarts' = restarts + 1 /\ sent' = {} /\ UNCHANGED <<kind, about, pushes, raced>>
        /\ at' = [r \in Runs |-> IF Agents!Active(r) THEN "killed" ELSE at[r]]
    BY DEF Agents!Restart, Agents!local
  <1>2. \A r \in Runs : ~Pushing(r)' /\ (at'[r] # "idle" => at[r] # "idle")
    BY <1>1 DEF Pushing, Agents!Active, Agents!Ended
  <1>3. PushTyped'
    BY <1>1, <1>2 DEF PushInv, PushTyped
  <1>4. ASSUME NEW d \in Dates \ raced PROVE OnePush(d)'
    <2>1. Agents!Notifying(d)' = {}
      BY <1>2 DEF Agents!Notifying, Pushing
    <2>2. pushes[d] <= restarts + 1 /\ pushes[d] \in Nat /\ restarts \in Nat
      BY <1>4 DEF PushInv, PushTyped, OnePush
    <2> QED
      BY <1>1, <2>1, <2>2 DEF OnePush
  <1> QED
    BY <1>1, <1>3, <1>4 DEF PushInv

LEMMA PushInvNext == PushInv /\ [Agents!Next]_(Agents!vars) => PushInv'
  <1> SUFFICES ASSUME PushInv, [Agents!Next]_(Agents!vars) PROVE PushInv'
    OBVIOUS
  <1>1. CASE UNCHANGED Agents!vars
    BY <1>1 DEF Agents!vars, Agents!local, Agents!pushed, PushInv, PushTyped, Pushing, OnePush, Agents!Notifying
  <1>2. ASSUME NEW r \in Runs, Agents!Load(r) \/ Agents!Step(r) PROVE PushInv'
    BY <1>2, LoadKeepsPushInv, WorkKeepsPushInv, NotifyKeepsPushInv, SendKeepsPushInv, RememberKeepsPushInv
       DEF Agents!Step
  <1> QED
    BY <1>1, <1>2, RestartKeepsPushInv DEF Agents!Next

(* The data of a run and of the cache is of one date: a stamper has filled *)
(* the cache, and who is about to read it has compared it.                 *)
PublicTyped ==
    /\ DOMAIN at = Runs /\ DOMAIN context = Runs /\ DOMAIN about = Runs /\ DOMAIN reviews = Dates

Stamping == {r \in Runs : at[r] = "stamp"}

CacheFits ==
    /\ \A r \in Stamping : cache = about[r]
    /\ Stamping = {} => cache \in {NoValue, cacheDate}
    /\ \A r \in Runs : at[r] = "reuse" => cache \in {NoValue, about[r]}

ContextFits ==
    \A r \in Runs : /\ at[r] = "idle" => context[r] = NoValue
                    /\ at[r] = "keep" => context[r] = about[r]
                    /\ at[r] # "idle" => context[r] \in {NoValue, about[r]}

ReviewsFit == \A d \in Dates : reviews[d] # NoValue => reviews[d].public \in {d, NoValue}

PubInv == PublicTyped /\ (mixed \/ (CacheFits /\ ContextFits /\ ReviewsFit))

LEMMA PubInvIsOfTheDate == PubInv => Agents!PublicDataIsOfTheDate
  BY DEF PubInv, ReviewsFit, Agents!PublicDataIsOfTheDate

LEMMA PubInvInit == Agents!Init => PubInv
  BY DEF Agents!Init, PubInv, PublicTyped, CacheFits, Stamping, ContextFits, ReviewsFit

(* The step of a run that leaves the cache alone.                          *)
LEMMA AwayFromCacheKeepsPubInv ==
  ASSUME PubInv, NEW r \in Runs, NEW place, Agents!Goto(r, place), at[r] \notin {"idle", "stamp"},
         place \notin {"idle", "reuse", "keep", "stamp"},
         UNCHANGED <<about, Agents!public, reviews>>
  PROVE  PubInv'
  <1>1. DOMAIN at' = Runs /\ at'[r] = place /\ \A q \in Runs \ {r} : at'[q] = at[q]
    BY GotoMoves DEF PubInv, PublicTyped
  <1>2. PublicTyped'
    BY <1>1 DEF PubInv, PublicTyped, Agents!public
  <1>3. Stamping' = Stamping
    BY <1>1 DEF Stamping
  <1>4. ASSUME CacheFits PROVE CacheFits'
    BY <1>1, <1>3, <1>4 DEF CacheFits, Stamping, Agents!public
  <1>5. ASSUME ContextFits PROVE ContextFits'
    BY <1>1, <1>5 DEF ContextFits, Agents!public
  <1> QED
    BY <1>2, <1>4, <1>5 DEF PubInv, ReviewsFit, Agents!public

LEMMA LoadKeepsPubInv ==
  ASSUME PubInv, NEW r \in Runs, Agents!Load(r)
  PROVE  PubInv'
  <1>1. at[r] = "idle" /\ UNCHANGED <<Agents!public, reviews>>
    BY DEF Agents!Load, Agents!stored
  <1>2. PICK s : about' = [about EXCEPT ![r] = s]
    BY DEF Agents!Load
  <1>3. PICK place \in {"cache", "skipped", "chat", "save", "ask"} : Agents!Goto(r, place)
    BY DEF Agents!Load
  <1>4. DOMAIN at' = Runs /\ at'[r] = place /\ \A q \in Runs \ {r} : at'[q] = at[q] /\ about'[q] = about[q]
    BY <1>2, <1>3, GotoMoves DEF PubInv, PublicTyped
  <1>5. PublicTyped'
    BY <1>1, <1>2, <1>4 DEF PubInv, PublicTyped, Agents!public
  <1>6. Stamping' = Stamping /\ r \notin Stamping
    BY <1>1, <1>4 DEF Stamping
  <1>7. ASSUME CacheFits PROVE CacheFits'
    BY <1>1, <1>4, <1>6, <1>7 DEF CacheFits, Stamping, Agents!public
  <1>8. ASSUME ContextFits PROVE ContextFits'
    BY <1>1, <1>4, <1>8 DEF ContextFits, Agents!public
  <1> QED
    BY <1>1, <1>5, <1>7, <1>8 DEF PubInv, ReviewsFit, Agents!public

(* The cache is compared while no run of another date is about to stamp it.*)
LEMMA LookUpKeepsPubInv ==
  ASSUME PubInv, NEW r \in Runs, Agents!LookUp(r)
  PROVE  PubInv'
  <1>1. /\ at[r] = "cache" /\ UNCHANGED <<about, context, cache, cacheDate, reviews>>
        /\ mixed' = (mixed \/ Agents!Fetching(r, {"stamp"}))
        /\ Agents!Goto(r, IF cacheDate = about[r] /\ cache # NoValue THEN "reuse" ELSE "fetch")
    BY DEF Agents!LookUp, Agents!local, Agents!stored
  <1>2. /\ DOMAIN at' = Runs /\ \A q \in Runs \ {r} : at'[q] = at[q]
        /\ at'[r] = IF cacheDate = about[r] /\ cache # NoValue THEN "reuse" ELSE "fetch"
    BY <1>1, GotoMoves DEF PubInv, PublicTyped
  <1>3. PublicTyped'
    BY <1>1, <1>2 DEF PubInv, PublicTyped
  <1>4. Stamping' = Stamping /\ r \notin Stamping
    BY <1>1, <1>2 DEF Stamping
  <1>5. ASSUME CacheFits, ~Agents!Fetching(r, {"stamp"}) PROVE CacheFits'
    <2>1. \A q \in Stamping : about[q] = about[r]
      BY <1>4, <1>5 DEF Stamping, Agents!Fetching
    <2>2. at'[r] = "reuse" => cache \in {NoValue, about[r]}
      BY <1>2, <1>5, <2>1 DEF CacheFits
    <2> QED
      BY <1>1, <1>2, <1>4, <1>5, <2>2 DEF CacheFits, Stamping
  <1>6. ASSUME ContextFits PROVE ContextFits'
    BY <1>1, <1>2, <1>6 DEF ContextFits
  <1> QED
    BY <1>1, <1>3, <1>5, <1>6 DEF PubInv, ReviewsFit

LEMMA ReuseKeepsPubInv ==
  ASSUME PubInv, NEW r \in Runs, Agents!Reuse(r)
  PROVE  PubInv'
  <1>1. /\ at[r] = "reuse" /\ UNCHANGED <<about, cache, cacheDate, mixed, reviews>> /\ Agents!Goto(r, "ask")
        /\ context' = [context EXCEPT ![r] = cache]
    BY DEF Agents!Reuse, Agents!local, Agents!stored
  <1>2. DOMAIN at' = Runs /\ at'[r] = "ask" /\ \A q \in Runs \ {r} : at'[q] = at[q]
    BY <1>1, GotoMoves DEF PubInv, PublicTyped
  <1>3. PublicTyped' /\ context'[r] = cache /\ \A q \in Runs \ {r} : context'[q] = context[q]
    BY <1>1, <1>2 DEF PubInv, PublicTyped
  <1>4. Stamping' = Stamping
    BY <1>1, <1>2 DEF Stamping
  <1>5. ASSUME CacheFits PROVE CacheFits'
    BY <1>1, <1>2, <1>4, <1>5 DEF CacheFits, Stamping
  <1>6. ASSUME CacheFits, ContextFits PROVE ContextFits'
    <2>1. context'[r] \in {NoValue, about'[r]}
      BY <1>1, <1>3, <1>6 DEF CacheFits
    <2> QED
      BY <1>1, <1>2, <1>3, <1>6, <2>1 DEF ContextFits
  <1>7. mixed' = mixed /\ (ReviewsFit => ReviewsFit')
    BY <1>1 DEF ReviewsFit
  <1> QED
    BY <1>3, <1>5, <1>6, <1>7 DEF PubInv

LEMMA FetchKeepsPubInv ==
  ASSUME PubInv, NEW r \in Runs, Agents!Fetch(r)
  PROVE  PubInv'
  <1>1. at[r] = "fetch" /\ UNCHANGED <<about, cache, cacheDate, mixed, reviews>>
    BY DEF Agents!Fetch, Agents!local, Agents!stored
  <1>2. CASE context' = [context EXCEPT ![r] = about[r]] /\ Agents!Goto(r, "keep")
    <2>1. DOMAIN at' = Runs /\ at'[r] = "keep" /\ \A q \in Runs \ {r} : at'[q] = at[q]
      BY <1>2, GotoMoves DEF PubInv, PublicTyped
    <2>2. PublicTyped' /\ context'[r] = about[r] /\ \A q \in Runs \ {r} : context'[q] = context[q]
      BY <1>1, <1>2, <2>1 DEF PubInv, PublicTyped
    <2>3. Stamping' = Stamping
      BY <1>1, <2>1 DEF Stamping
    <2>4. ASSUME CacheFits PROVE CacheFits'
      BY <1>1, <2>1, <2>3, <2>4 DEF CacheFits, Stamping
    <2>5. ASSUME ContextFits PROVE ContextFits'
      BY <1>1, <2>1, <2>2, <2>5 DEF ContextFits
    <2> QED
      BY <1>1, <2>2, <2>4, <2>5 DEF PubInv, ReviewsFit
  <1>3. CASE UNCHANGED context /\ Agents!Goto(r, "ask")
    BY <1>1, <1>3, AwayFromCacheKeepsPubInv DEF Agents!public
  <1> QED
    BY <1>2, <1>3 DEF Agents!Fetch

(* The cache is filled while no run of another date is about to read or to *)
(* stamp it.                                                               *)
LEMMA KeepKeepsPubInv ==
  ASSUME PubInv, NEW r \in Runs, Agents!Keep(r)
  PROVE  PubInv'
  <1>1. /\ at[r] = "keep" /\ UNCHANGED <<about, context, cacheDate, reviews>> /\ Agents!Goto(r, "stamp")
        /\ cache' = context[r] /\ mixed' = (mixed \/ Agents!Fetching(r, {"reuse", "stamp"}))
    BY DEF Agents!Keep, Agents!local, Agents!stored
  <1>2. DOMAIN at' = Runs /\ at'[r] = "stamp" /\ \A q \in Runs \ {r} : at'[q] = at[q]
    BY <1>1, GotoMoves DEF PubInv, PublicTyped
  <1>3. PublicTyped'
    BY <1>1, <1>2 DEF PubInv, PublicTyped
  <1>4. r \in Stamping' /\ Stamping' \subseteq Stamping \union {r}
    BY <1>1, <1>2 DEF Stamping
  <1>5. ASSUME ContextFits, ~Agents!Fetching(r, {"reuse", "stamp"}) PROVE CacheFits'
    <2>1. cache' = about[r]
      BY <1>1, <1>5 DEF ContextFits
    <2>2. \A q \in Runs \ {r} : at[q] \in {"reuse", "stamp"} => about[q] = about[r]
      BY <1>5 DEF Agents!Fetching
    <2> QED
      BY <1>1, <1>2, <1>4, <2>1, <2>2 DEF CacheFits, Stamping
  <1>6. ASSUME ContextFits PROVE ContextFits'
    BY <1>1, <1>2, <1>6 DEF ContextFits
  <1> QED
    BY <1>1, <1>3, <1>5, <1>6 DEF PubInv, ReviewsFit

LEMMA StampKeepsPubInv ==
  ASSUME PubInv, NEW r \in Runs, Agents!Stamp(r)
  PROVE  PubInv'
  <1>1. /\ at[r] = "stamp" /\ UNCHANGED <<about, context, cache, mixed, reviews>> /\ Agents!Goto(r, "ask")
        /\ cacheDate' = about[r]
    BY DEF Agents!Stamp, Agents!local, Agents!stored
  <1>2. DOMAIN at' = Runs /\ at'[r] = "ask" /\ \A q \in Runs \ {r} : at'[q] = at[q]
    BY <1>1, GotoMoves DEF PubInv, PublicTyped
  <1>3. PublicTyped'
    BY <1>1, <1>2 DEF PubInv, PublicTyped
  <1>4. r \in Stamping /\ Stamping' = Stamping \ {r}
    BY <1>1, <1>2 DEF Stamping
  <1>5. ASSUME CacheFits PROVE CacheFits'
    BY <1>1, <1>2, <1>4, <1>5 DEF CacheFits
  <1>6. ASSUME ContextFits PROVE ContextFits'
    BY <1>1, <1>2, <1>6 DEF ContextFits
  <1> QED
    BY <1>1, <1>3, <1>5, <1>6 DEF PubInv, ReviewsFit

LEMMA SaveKeepsPubInv ==
  ASSUME PubInv, NEW r \in Runs, Agents!Save(r)
  PROVE  PubInv'
  <1>1. at[r] = "save" /\ UNCHANGED <<about, context, cache, cacheDate, mixed>>
    BY DEF Agents!Save, Agents!local, Agents!public
  <1>2. PICK place \in {"done", "notify", "failed"} : Agents!Goto(r, place)
    BY DEF Agents!Save, Agents!AfterSave
  <1>3. CASE UNCHANGED reviews
    BY <1>1, <1>2, <1>3, AwayFromCacheKeepsPubInv DEF Agents!public
  <1>4. CASE reviews' = [reviews EXCEPT ![about[r]] = Agents!Document(r)]
    <2>1. DOMAIN at' = Runs /\ at'[r] = place /\ \A q \in Runs \ {r} : at'[q] = at[q]
      BY <1>2, GotoMoves DEF PubInv, PublicTyped
    <2>2. PublicTyped'
      BY <1>1, <1>4, <2>1 DEF PubInv, PublicTyped
    <2>3. Stamping' = Stamping
      BY <1>1, <2>1 DEF Stamping
    <2>4. ASSUME CacheFits PROVE CacheFits'
      BY <1>1, <2>1, <2>3, <2>4 DEF CacheFits, Stamping
    <2>5. ASSUME ContextFits PROVE ContextFits'
      BY <1>1, <2>1, <2>5 DEF ContextFits
    <2>6. ASSUME ContextFits, ReviewsFit PROVE ReviewsFit'
      <3>1. Agents!Document(r).public \in {about[r], NoValue}
        BY <1>1, <2>6 DEF ContextFits, Agents!Document
      <3>2. ASSUME NEW d \in Dates PROVE reviews'[d] = IF d = about[r] THEN Agents!Document(r) ELSE reviews[d]
        BY <1>4 DEF PubInv, PublicTyped
      <3> QED
        BY <2>6, <3>1, <3>2 DEF ReviewsFit
    <2> QED
      BY <1>1, <2>2, <2>4, <2>5, <2>6 DEF PubInv
  <1> QED
    BY <1>3, <1>4 DEF Agents!Save, Agents!stored

LEMMA RestKeepsPubInv ==
  ASSUME PubInv, NEW r \in Runs,
         Agents!Ask(r) \/ Agents!Chat(r) \/ Agents!WriteFiles(r) \/ Agents!Notify(r) \/ Agents!Send(r) \/ Agents!Remember(r)
  PROVE  PubInv'
  <1>1. PICK place \in {"ask", "files", "save", "failed", "done", "send", "sent"} : Agents!Goto(r, place)
    BY DEF Agents!Ask, Agents!Chat, Agents!WriteFiles, Agents!Notify, Agents!Send, Agents!Remember, Agents!AfterModel
  <1>2. /\ at[r] \in {"ask", "chat", "files", "notify", "send", "sent"}
        /\ UNCHANGED <<about, Agents!public, reviews>>
    BY DEF Agents!Ask, Agents!Chat, Agents!WriteFiles, Agents!Notify, Agents!Send, Agents!Remember, Agents!local, Agents!stored
  <1> QED
    BY <1>1, <1>2, AwayFromCacheKeepsPubInv

LEMMA RestartKeepsPubInv ==
  ASSUME PubInv, Agents!Restart
  PROVE  PubInv'
  <1>1. /\ cache' = NoValue /\ UNCHANGED <<about, context, mixed, reviews>>
        /\ at' = [r \in Runs |-> IF Agents!Active(r) THEN "killed" ELSE at[r]]
    BY DEF Agents!Restart, Agents!local, Agents!stored
  <1>2. \A r \in Runs : at'[r] \in Agents!Ended \union {"idle"} /\ (at'[r] = "idle" => at[r] = "idle")
                        /\ (at[r] = "idle" => at'[r] = "idle")
    BY <1>1 DEF Agents!Active, Agents!Ended
  <1>3. PublicTyped' /\ CacheFits'
    BY <1>1, <1>2 DEF PubInv, PublicTyped, CacheFits, Stamping, Agents!Ended
  <1>4. ASSUME ContextFits PROVE ContextFits'
    BY <1>1, <1>2, <1>4 DEF ContextFits, Agents!Ended
  <1> QED
    BY <1>1, <1>3, <1>4 DEF PubInv, ReviewsFit

LEMMA PubInvNext == PubInv /\ [Agents!Next]_(Agents!vars) => PubInv'
  <1> SUFFICES ASSUME PubInv, [Agents!Next]_(Agents!vars) PROVE PubInv'
    OBVIOUS
  <1>1. CASE UNCHANGED Agents!vars
    BY <1>1 DEF Agents!vars, Agents!local, Agents!public, Agents!stored, PubInv, PublicTyped, CacheFits, Stamping, ContextFits, ReviewsFit
  <1>2. ASSUME NEW r \in Runs, Agents!Load(r) \/ Agents!Step(r) PROVE PubInv'
    BY <1>2, LoadKeepsPubInv, LookUpKeepsPubInv, ReuseKeepsPubInv, FetchKeepsPubInv, KeepKeepsPubInv,
       StampKeepsPubInv, SaveKeepsPubInv, RestKeepsPubInv
       DEF Agents!Step
  <1> QED
    BY <1>1, <1>2, RestartKeepsPubInv DEF Agents!Next

LEMMA AgentsMove ==
  MCSpec => Agents!Init /\ [][Agents!Next]_(Agents!vars)
  <1>1. MCInit => Agents!Init
    BY DEF MCInit
  <1>2. [MCNext]_all => [Agents!Next]_(Agents!vars)
    BY DEF MCNext, ReportStep, ProgressStep, GraphStep, FlexStep, all, agents, Agents!vars, Agents!local, Agents!public, Agents!stored, Agents!pushed
  <1> QED
    BY <1>1, <1>2, PTL DEF MCSpec

(* Unless two runs of a date were in the notifier at once, its review is   *)
(* pushed once in the life of a process (notification_service.py:57-101).  *)
THEOREM DatesArePushedOnce == MCSpec => []DateIsPushedOnce
  <1>1. PushInv => DateIsPushedOnce
    BY PushInvPushesOnce DEF DateIsPushedOnce
  <1> QED
    BY <1>1, PushInvInit, PushInvNext, AgentsMove, PTL

(* Unless fetches of different dates have overlapped, a stored review has  *)
(* public data of its own date or none (daily_review/agent.py:40-130).     *)
THEOREM PublicDataFitsTheDate == MCSpec => []PublicDataIsOfTheDate
  <1>1. PubInv => PublicDataIsOfTheDate
    BY PubInvIsOfTheDate DEF PublicDataIsOfTheDate
  <1> QED
    BY <1>1, PubInvInit, PubInvNext, AgentsMove, PTL


-----------------------------------------------------------------------------
(* The jobs that fetch Flex statements.                                    *)

Results == {"none", "cached", "saved", "failed", "pending"}
Contents == [state : {"absent", "empty", "short", "whole", "broken"}, of : Int]

JobsTyped ==
    /\ jobPhase \in [Jobs -> Flex!Phases] /\ since \in [Jobs -> Flex!Times] /\ query \in [Jobs -> Flex!Queries]
    /\ code \in [Jobs -> Int] /\ result \in [Jobs -> [Flex!Queries -> Results]]

FlexTyped ==
    /\ JobsTyped
    /\ now \in Flex!Times /\ file \in [Flex!Queries -> [Flex!Days -> Contents]]
    /\ ref \in [Flex!Queries -> [code : Int, at : Int]]

(* A job takes the queries in their order.                                 *)
Ahead(j) ==
    /\ jobPhase[j] = "idle" => \A q \in Flex!Queries : result[j][q] = "none"
    /\ jobPhase[j] \in Flex!Working \union {"raised", "dead"} =>
          \A q \in Flex!Queries : q >= query[j] => result[j][q] = "none"

(* A reference that is kept or polled with is a code.                      *)
CodesFit ==
    /\ \A j \in Jobs : jobPhase[j] = "polling" => code[j] # Flex!Never
    /\ \A q \in Flex!Queries : ref[q] # Flex!NoRef => ref[q].code # Flex!Never

Company(j, q, d) == \E k \in Jobs : Flex!Met(j, k, q, d)
Sound == {"short", "whole"}

(* What a job that met nobody has made of its file.                        *)
FileFits(j) ==
    /\ jobPhase[j] = "writing" => Flex!Target(j).state = "empty" \/ Company(j, query[j], Flex!Day(j))
    /\ jobPhase[j] = "clearing" => Flex!Target(j).state \in Sound \/ Company(j, query[j], Flex!Day(j))
    /\ \A q \in Flex!Queries : result[j][q] = "saved" => file[q][Flex!Day(j)].state \in Sound \/ Company(j, q, Flex!Day(j))

CutOff(q, d) ==
    file[q][d].state = "broken" =>
        \/ \E j \in Jobs : jobPhase[j] = "dead" /\ query[j] = q /\ Flex!Day(j) = d
        \/ \E j \in Jobs : Company(j, q, d)

(* A statement in a file was written by a job that is through with it, is  *)
(* about to remove the reference to it, or was killed.                     *)
HasWritten(j, q) == result[j][q] = "saved" \/ (query[j] = q /\ jobPhase[j] \in {"clearing", "dead"})
Untouched(q) == \A d \in Flex!Days : file[q][d].of = Flex!Never
WrittenBySomebody(q) == Untouched(q) \/ \E j \in Jobs : HasWritten(j, q)

Crowded(q) == \E j, k \in Jobs : j # k /\ Flex!WasAt(j, q) /\ Flex!WasAt(k, q)
Busy(q) == \E j \in Jobs : jobPhase[j] \in {"writing", "clearing", "dead"} /\ query[j] = q

RefFits(q) == Crowded(q) \/ Busy(q) \/ ref[q] = Flex!NoRef \/ Untouched(q)

FlexInv ==
    /\ FlexTyped /\ CodesFit
    /\ \A j \in Jobs : Ahead(j) /\ FileFits(j)
    /\ \A q \in Flex!Queries : WrittenBySomebody(q) /\ RefFits(q)
    /\ \A q \in Flex!Queries, d \in Flex!Days : CutOff(q, d)

LEMMA DayIsADay == ASSUME JobsTyped, NEW j \in Jobs PROVE Flex!Day(j) \in Flex!Days
  BY DEF JobsTyped, Flex!Day, Flex!Days

LEMMA FlexInvArchives == FlexInv => Flex!SavedIsArchived
  <1> SUFFICES ASSUME FlexInv, NEW q \in Flex!Queries, NEW d \in Flex!Days
               PROVE  /\ \A j \in Jobs : result[j][q] = "saved" /\ Flex!Day(j) = d =>
                            file[q][d].state \in {"short", "whole"} \/ \E k \in Jobs : Flex!Met(j, k, q, d)
                      /\ file[q][d].state = "broken" =>
                            \/ \E j \in Jobs : jobPhase[j] = "dead" /\ query[j] = q /\ Flex!Day(j) = d
                            \/ \E j, k \in Jobs : Flex!Met(j, k, q, d)
                      /\ ref[q] # Flex!NoRef /\ file[q][d].of = ref[q].code =>
                            \/ \E j \in Jobs : jobPhase[j] \in {"writing", "clearing", "dead"} /\ query[j] = q
                            \/ \E j, k \in Jobs : j # k /\ Flex!WasAt(j, q) /\ Flex!WasAt(k, q)
    BY DEF Flex!SavedIsArchived
  <1>1. ASSUME NEW j \in Jobs, result[j][q] = "saved", Flex!Day(j) = d
        PROVE  file[q][d].state \in {"short", "whole"} \/ \E k \in Jobs : Flex!Met(j, k, q, d)
    BY <1>1 DEF FlexInv, FileFits, Sound, Company
  <1>2. CutOff(q, d)
    BY DEF FlexInv
  <1>3. ref[q] # Flex!NoRef /\ file[q][d].of = ref[q].code => Busy(q) \/ Crowded(q)
    BY DEF FlexInv, CodesFit, RefFits, Untouched
  <1> QED
    BY <1>1, <1>2, <1>3 DEF CutOff, Company, Busy, Crowded

LEMMA FlexInvInit == Flex!Init => FlexInv
  <1> SUFFICES ASSUME Flex!Init PROVE FlexInv
    OBVIOUS
  <1>1. 1 \in Flex!Queries /\ 0 \in Flex!Times
    BY FlexAssumption DEF Flex!Queries, Flex!Times
  <1>2. Flex!NoFile \in Contents /\ Flex!NoRef \in [code : Int, at : Int] /\ Flex!Never \in Int
    BY DEF Flex!NoFile, Flex!NoRef, Flex!Never, Contents
  <1>3. FlexTyped
    BY <1>1, <1>2 DEF Flex!Init, FlexTyped, JobsTyped, Flex!Phases, Results
  <1>4. CodesFit
    BY DEF Flex!Init, CodesFit
  <1>5. ASSUME NEW j \in Jobs PROVE Ahead(j) /\ FileFits(j)
    BY DEF Flex!Init, Ahead, FileFits, Flex!Working
  <1>6. ASSUME NEW q \in Flex!Queries PROVE WrittenBySomebody(q) /\ RefFits(q)
    BY DEF Flex!Init, WrittenBySomebody, Untouched, RefFits, Flex!NoFile
  <1>7. ASSUME NEW q \in Flex!Queries, NEW d \in Flex!Days PROVE CutOff(q, d)
    BY DEF Flex!Init, CutOff, Flex!NoFile
  <1> QED
    BY <1>3, <1>4, <1>5, <1>6, <1>7 DEF FlexInv

(* The steps of one job.                                                   *)

Alone(j) ==
    \A k \in Jobs \ {j} : /\ jobPhase'[k] = jobPhase[k] /\ query'[k] = query[k] /\ result'[k] = result[k]
                          /\ code'[k] = code[k]

(* It stays at its query, or leaves it for the next or for good.           *)
Stays(j) == query'[j] = query[j] /\ result'[j] = result[j]
Leaves(j, res) ==
    /\ result'[j] = [result[j] EXCEPT ![query[j]] = res]
    /\ \/ jobPhase'[j] = "query" /\ query'[j] = query[j] + 1
       \/ jobPhase'[j] = "done" /\ query'[j] = query[j]

Moves(j, outcomes) ==
    /\ JobsTyped' /\ since' = since /\ Alone(j)
    /\ Stays(j) \/ \E res \in outcomes : Leaves(j, res)

LEMMA LeaveMoves ==
  ASSUME JobsTyped, NEW j \in Jobs, NEW res \in Results, Flex!Leave(j, res), since' = since
  PROVE  Moves(j, {res}) /\ Leaves(j, res) /\ jobPhase'[j] \in {"query", "done"}
  <1>1. /\ result' = [result EXCEPT ![j][query[j]] = res] /\ code' = [code EXCEPT ![j] = Flex!Never]
        /\ query[j] \in Flex!Queries /\ NumQueries \in Nat /\ query[j] \in 1 .. NumQueries
    BY FlexAssumption DEF Flex!Leave, JobsTyped, Flex!Queries
  <1>2. /\ result' \in [Jobs -> [Flex!Queries -> Results]] /\ code' \in [Jobs -> Int]
        /\ result'[j] = [result[j] EXCEPT ![query[j]] = res]
        /\ \A k \in Jobs \ {j} : result'[k] = result[k] /\ code'[k] = code[k]
    BY <1>1 DEF JobsTyped, Flex!Never
  <1>3. CASE query[j] < NumQueries
    <2>1. query' = [query EXCEPT ![j] = @ + 1] /\ jobPhase' = [jobPhase EXCEPT ![j] = "query"]
      BY <1>3 DEF Flex!Leave
    <2>2. query[j] + 1 \in Flex!Queries
      BY <1>1, <1>3 DEF Flex!Queries
    <2>3. /\ query' \in [Jobs -> Flex!Queries] /\ jobPhase' \in [Jobs -> Flex!Phases]
          /\ query'[j] = query[j] + 1 /\ jobPhase'[j] = "query"
          /\ \A k \in Jobs \ {j} : query'[k] = query[k] /\ jobPhase'[k] = jobPhase[k]
      BY <2>1, <2>2 DEF JobsTyped, Flex!Phases
    <2> QED
      BY <1>2, <2>3 DEF Moves, Leaves, Alone, JobsTyped
  <1>4. CASE ~(query[j] < NumQueries)
    <2>1. query' = query /\ jobPhase' = [jobPhase EXCEPT ![j] = "done"]
      BY <1>4 DEF Flex!Leave
    <2>2. /\ jobPhase' \in [Jobs -> Flex!Phases] /\ jobPhase'[j] = "done"
          /\ \A k \in Jobs \ {j} : jobPhase'[k] = jobPhase[k]
      BY <2>1 DEF JobsTyped, Flex!Phases
    <2> QED
      BY <1>2, <2>1, <2>2 DEF Moves, Leaves, Alone, JobsTyped
  <1> QED
    BY <1>3, <1>4

LEMMA StayMoves ==
  ASSUME JobsTyped, NEW j \in Jobs, NEW p \in Flex!Phases, jobPhase' = [jobPhase EXCEPT ![j] = p],
         UNCHANGED <<since, query, result>>, NEW c \in Int, code' = [code EXCEPT ![j] = c]
  PROVE  Moves(j, {}) /\ jobPhase'[j] = p /\ code'[j] = c
  BY DEF Moves, Stays, Alone, JobsTyped

LEMMA StayMovesWithItsCode ==
  ASSUME JobsTyped, NEW j \in Jobs, NEW p \in Flex!Phases, jobPhase' = [jobPhase EXCEPT ![j] = p],
         UNCHANGED <<since, query, result, code>>
  PROVE  Moves(j, {}) /\ jobPhase'[j] = p /\ code'[j] = code[j]
  BY DEF Moves, Stays, Alone, JobsTyped

LEMMA TryAgainMoves ==
  ASSUME JobsTyped, NEW j \in Jobs, Flex!TryAgain(j), since' = since
  PROVE  Moves(j, {"failed"}) /\ jobPhase'[j] \in {"asking", "query", "done"}
  <1>1. CASE attempt[j] < MaxAttempts
    <2>1. /\ jobPhase' = [jobPhase EXCEPT ![j] = "asking"] /\ code' = [code EXCEPT ![j] = Flex!Never]
          /\ UNCHANGED <<query, result>>
      BY <1>1 DEF Flex!TryAgain
    <2>2. "asking" \in Flex!Phases /\ Flex!Never \in Int
      BY DEF Flex!Phases, Flex!Never
    <2>3. Moves(j, {}) /\ jobPhase'[j] = "asking"
      BY <2>1, <2>2, StayMoves
    <2> QED
      BY <2>3 DEF Moves
  <1>2. CASE ~(attempt[j] < MaxAttempts)
    BY <1>2, LeaveMoves DEF Flex!TryAgain, Results
  <1> QED
    BY <1>1, <1>2

(* Where a job was is not forgotten, so whom it met stays met.             *)
Remembers ==
    \A j \in Jobs, q \in Flex!Queries : Flex!WasAt(j, q) => Flex!WasAt(j, q)' /\ Flex!Day(j)' = Flex!Day(j)

LEMMA MovingRemembers ==
  ASSUME FlexInv, NEW j \in Jobs, NEW outcomes, outcomes \subseteq Results \ {"none"},
         Moves(j, outcomes), jobPhase[j] \in Flex!Working, jobPhase'[j] # "idle"
  PROVE  Remembers /\ (\A k \in Jobs : Ahead(k)') /\ \A k \in Jobs : Flex!Day(k)' = Flex!Day(k)
  <1>1. \A k \in Jobs : Flex!Day(k)' = Flex!Day(k)
    BY DEF Moves, Flex!Day
  <1>2. query[j] \in Nat /\ query[j] \in Flex!Queries /\ Flex!Queries \subseteq Nat /\ result[j] \in [Flex!Queries -> Results]
    BY FlexAssumption DEF FlexInv, FlexTyped, JobsTyped, Flex!Queries
  <1>3. ASSUME NEW k \in Jobs, NEW q \in Flex!Queries, Flex!WasAt(k, q) PROVE Flex!WasAt(k, q)'
    <2>1. CASE k # j
      BY <1>3, <2>1 DEF Moves, Alone, Flex!WasAt
    <2>2. CASE k = j
      BY <1>2, <1>3, <2>2 DEF Moves, Stays, Leaves, Flex!WasAt
    <2> QED
      BY <2>1, <2>2
  <1>4. Ahead(j) /\ \A q \in Flex!Queries : q >= query[j] => result[j][q] = "none"
    BY DEF FlexInv, Ahead
  <1>5. Ahead(j)'
    <2>1. CASE Stays(j)
      BY <1>4, <2>1 DEF Stays, Ahead
    <2>2. ASSUME NEW res \in outcomes, Leaves(j, res) PROVE Ahead(j)'
      BY <1>2, <1>4, <2>2 DEF Leaves, Ahead, Flex!Working
    <2> QED
      BY <2>1, <2>2 DEF Moves
  <1>6. ASSUME NEW k \in Jobs \ {j} PROVE Ahead(k)'
    BY DEF FlexInv, Moves, Alone, Ahead
  <1> QED
    BY <1>1, <1>3, <1>5, <1>6 DEF Remembers

LEMMA CompanyStays ==
  ASSUME Remembers, NEW j \in Jobs, NEW q \in Flex!Queries, NEW d, Company(j, q, d)
  PROVE  Company(j, q, d)'
  BY DEF Remembers, Company, Flex!Met

LEMMA CrowdStays ==
  ASSUME Remembers, NEW q \in Flex!Queries, Crowded(q)
  PROVE  Crowded(q)'
  BY DEF Remembers, Crowded

(* A step that changes no file: the job was not at one, it reports nothing *)
(* as saved, and changes no reference but that of its query.               *)
LEMMA ReadingKeepsFlexInv ==
  ASSUME FlexInv, NEW j \in Jobs, Moves(j, Results \ {"none", "saved"}),
         jobPhase[j] \in {"query", "asking", "polling"},
         jobPhase'[j] \in {"query", "asking", "polling", "done", "raised", "dead"},
         jobPhase'[j] = "polling" => code'[j] # Flex!Never,
         file' = file, now' = now,
         NEW r \in [code : Int, at : Int], r = Flex!NoRef \/ r.code # Flex!Never,
         ref' = [ref EXCEPT ![query[j]] = r]
  PROVE  FlexInv'
  <1>1. FlexTyped /\ JobsTyped /\ query[j] \in Flex!Queries
    BY DEF FlexInv, FlexTyped, JobsTyped
  <1>2. /\ ref' \in [Flex!Queries -> [code : Int, at : Int]] /\ ref'[query[j]] = r
        /\ \A q \in Flex!Queries : q # query[j] => ref'[q] = ref[q]
    BY <1>1 DEF FlexTyped
  <1>3. FlexTyped'
    BY <1>1, <1>2 DEF FlexTyped, Moves
  <1>4. Remembers /\ (\A k \in Jobs : Ahead(k)') /\ \A k \in Jobs : Flex!Day(k)' = Flex!Day(k)
    BY MovingRemembers DEF Flex!Working, Flex!Phases
  <1>5. CodesFit'
    BY <1>2 DEF FlexInv, CodesFit, Moves, Alone
  <1>6. /\ \A k \in Jobs \ {j} : jobPhase'[k] = jobPhase[k] /\ query'[k] = query[k] /\ result'[k] = result[k]
        /\ \A q \in Flex!Queries : result[j][q] = "saved" <=> result'[j][q] = "saved"
    <2>1. result[j] \in [Flex!Queries -> Results] /\ result[j][query[j]] = "none"
      <3>1. result[j] \in [Flex!Queries -> Results] /\ query[j] >= query[j]
        BY <1>1, FlexAssumption DEF JobsTyped, Flex!Queries
      <3>2. Ahead(j) /\ jobPhase[j] \in Flex!Working
        BY DEF FlexInv, Flex!Working, Flex!Phases
      <3> QED
        BY <1>1, <3>1, <3>2 DEF Ahead
    <2>2. \A q \in Flex!Queries : result[j][q] = "saved" <=> result'[j][q] = "saved"
      <3>1. CASE Stays(j)
        BY <3>1 DEF Stays
      <3>2. ASSUME NEW res \in Results \ {"none", "saved"}, Leaves(j, res), NEW q \in Flex!Queries
            PROVE  result[j][q] = "saved" <=> result'[j][q] = "saved"
        <4>1. result'[j][q] = IF q = query[j] THEN res ELSE result[j][q]
          BY <2>1, <3>2 DEF Leaves
        <4> QED
          BY <2>1, <3>2, <4>1
      <3> QED
        BY <3>1, <3>2 DEF Moves
    <2> QED
      BY <2>2 DEF Moves, Alone
  <1>7. \A k \in Jobs : jobPhase'[k] \in {"writing", "clearing"} => k # j
    OBVIOUS
  <1>8. ASSUME NEW k \in Jobs PROVE FileFits(k)'
    <2>1. FileFits(k)
      BY DEF FlexInv
    <2>2. \A q \in Flex!Queries : Company(k, q, Flex!Day(k)) => Company(k, q, Flex!Day(k))'
      BY <1>4, CompanyStays
    <2>3. CASE k # j
      <3>1. query[k] \in Flex!Queries
        BY <1>1 DEF JobsTyped
      <3> QED
        BY <1>4, <1>6, <2>1, <2>2, <2>3, <3>1 DEF FileFits, Flex!Target
    <2>4. CASE k = j
      BY <1>4, <1>6, <2>1, <2>2, <2>4 DEF FileFits
    <2> QED
      BY <2>3, <2>4
  <1>9. ASSUME NEW q \in Flex!Queries, NEW d \in Flex!Days PROVE CutOff(q, d)'
    <2>1. CutOff(q, d)
      BY DEF FlexInv
    <2>2. \A k \in Jobs : Company(k, q, d) => Company(k, q, d)'
      BY <1>4, CompanyStays
    <2> QED
      BY <1>4, <1>6, <2>1, <2>2 DEF CutOff
  <1>10. ASSUME NEW q \in Flex!Queries PROVE WrittenBySomebody(q)'
    <2>1. WrittenBySomebody(q)
      BY DEF FlexInv
    <2>2. ASSUME NEW k \in Jobs, HasWritten(k, q) PROVE HasWritten(k, q)'
      BY <1>6, <2>2 DEF HasWritten
    <2> QED
      BY <2>1, <2>2 DEF WrittenBySomebody, Untouched
  <1>11. ASSUME NEW q \in Flex!Queries PROVE RefFits(q)'
    <2>1. RefFits(q) /\ WrittenBySomebody(q)
      BY DEF FlexInv
    <2>2. CASE q # query[j]
      BY <1>2, <1>4, <1>6, <2>1, <2>2, CrowdStays DEF RefFits, Busy, Untouched
    <2>3. CASE q = query[j] /\ ~Untouched(q)
      <3>1. PICK k \in Jobs : HasWritten(k, q)
        BY <2>1, <2>3 DEF WrittenBySomebody
      <3>2. result[j][q] = "none"
        BY <1>1, <2>3, FlexAssumption DEF FlexInv, Ahead, Flex!Working, Flex!Phases, Flex!Queries
      <3>3. k # j
        BY <3>1, <3>2 DEF HasWritten
      <3>4. Flex!WasAt(j, q)
        BY <2>3 DEF Flex!WasAt
      <3>5. Flex!WasAt(k, q)
        <4>1. Ahead(k)
          BY DEF FlexInv
        <4> QED
          BY <3>1, <4>1 DEF HasWritten, Flex!WasAt, Ahead
      <3>6. Crowded(q)
        BY <3>3, <3>4, <3>5 DEF Crowded
      <3> QED
        BY <1>4, <3>6, CrowdStays DEF RefFits
    <2>4. CASE Untouched(q)
      BY <2>4 DEF RefFits, Untouched
    <2> QED
      BY <2>2, <2>3, <2>4
  <1> QED
    BY <1>3, <1>4, <1>5, <1>8, <1>9, <1>10, <1>11 DEF FlexInv

(* A step that changes the file the job is at: jobs that were at the same  *)
(* file have met it.                                                       *)
LEMMA TouchingKeepsFlexInv ==
  ASSUME FlexInv, NEW j \in Jobs, Moves(j, {}), jobPhase[j] \in Flex!Working,
         jobPhase'[j] \in {"writing", "clearing", "dead"},
         jobPhase'[j] = "writing" => jobPhase[j] = "polling",
         NEW c \in Contents, file' = [file EXCEPT ![query[j]][Flex!Day(j)] = c],
         ref' = ref, now' = now,
         jobPhase'[j] = "writing" => c.state = "empty",
         jobPhase'[j] = "clearing" => c.state \in Sound \/ Company(j, query[j], Flex!Day(j)),
         c.state = "broken" => jobPhase'[j] = "dead" \/ Company(j, query[j], Flex!Day(j)),
         c.of = Flex!Never \/ jobPhase'[j] \in {"clearing", "dead"}
  PROVE  FlexInv'
  <1>1. FlexTyped /\ JobsTyped /\ query[j] \in Flex!Queries /\ Flex!Day(j) \in Flex!Days
    BY DayIsADay DEF FlexInv, FlexTyped, JobsTyped
  <1>2. /\ file' \in [Flex!Queries -> [Flex!Days -> Contents]] /\ file'[query[j]][Flex!Day(j)] = c
        /\ \A q \in Flex!Queries, d \in Flex!Days : q # query[j] \/ d # Flex!Day(j) => file'[q][d] = file[q][d]
    BY <1>1 DEF FlexTyped
  <1>3. FlexTyped'
    BY <1>1, <1>2 DEF FlexTyped, Moves
  <1>4. Remembers /\ (\A k \in Jobs : Ahead(k)') /\ \A k \in Jobs : Flex!Day(k)' = Flex!Day(k)
    BY MovingRemembers DEF Flex!Working, Flex!Phases
  <1>5. CodesFit'
    BY DEF FlexInv, CodesFit, Moves, Alone
  <1>6. /\ query' = query /\ result' = result
        /\ \A k \in Jobs \ {j} : jobPhase'[k] = jobPhase[k]
    <2>1. \A k \in Jobs : query'[k] = query[k] /\ result'[k] = result[k]
      BY DEF Moves, Stays, Alone
    <2>2. DOMAIN query' = Jobs /\ DOMAIN query = Jobs /\ DOMAIN result' = Jobs /\ DOMAIN result = Jobs
      BY <1>1 DEF JobsTyped, Moves
    <2>3. query' \in [Jobs -> Flex!Queries] /\ query \in [Jobs -> Flex!Queries]
      BY <1>1 DEF JobsTyped, Moves
    <2>4. result' \in [Jobs -> [Flex!Queries -> Results]] /\ result \in [Jobs -> [Flex!Queries -> Results]]
      BY <1>1 DEF JobsTyped, Moves
    <2> QED
      BY <2>1, <2>3, <2>4 DEF Moves, Alone
  <1>7. Ahead(j) /\ \A q \in Flex!Queries : result[j][q] # "none" => q # query[j]
    <2>1. Ahead(j) /\ query[j] >= query[j]
      BY <1>1, FlexAssumption DEF FlexInv, Flex!Queries
    <2> QED
      BY <1>1, <2>1 DEF Ahead
  <1>8. Flex!WasAt(j, query[j])
    BY DEF Flex!WasAt, Flex!Working
  <1>9. ASSUME NEW k \in Jobs \ {j}, Flex!WasAt(k, query[j]), Flex!Day(k) = Flex!Day(j)
        PROVE  Company(k, query[j], Flex!Day(k)) /\ Company(j, query[j], Flex!Day(j))
    BY <1>8, <1>9 DEF Company, Flex!Met
  <1>10. ASSUME NEW k \in Jobs PROVE FileFits(k)'
    <2>1. FileFits(k) /\ Ahead(k) /\ Flex!Day(k) \in Flex!Days /\ query[k] \in Flex!Queries
      BY <1>1, DayIsADay DEF FlexInv, JobsTyped
    <2>2. \A q \in Flex!Queries : Company(k, q, Flex!Day(k)) => Company(k, q, Flex!Day(k))'
      BY <1>4, CompanyStays
    <2>3. CASE k # j
      <3>1. ASSUME NEW q \in Flex!Queries, Flex!WasAt(k, q)
            PROVE  file'[q][Flex!Day(k)] = file[q][Flex!Day(k)] \/ Company(k, q, Flex!Day(k))'
        BY <1>2, <1>9, <2>1, <2>2, <2>3, <3>1
      <3>2. \A q \in Flex!Queries : result[k][q] = "saved" => Flex!WasAt(k, q)
        BY <2>1 DEF Ahead, Flex!WasAt
      <3>3. jobPhase[k] \in {"writing", "clearing"} => Flex!WasAt(k, query[k])
        BY DEF Flex!WasAt
      <3> QED
        BY <1>4, <1>6, <2>1, <2>2, <2>3, <3>1, <3>2, <3>3 DEF FileFits, Flex!Target
    <2>4. CASE k = j
      <3>1. Flex!Target(j)' = c
        BY <1>2, <1>4, <1>6 DEF Flex!Target
      <3>2. \A q \in Flex!Queries : result[j][q] = "saved" => file'[q][Flex!Day(j)] = file[q][Flex!Day(j)]
        BY <1>1, <1>2, <1>7
      <3> QED
        BY <1>1, <1>4, <1>6, <2>1, <2>2, <2>4, <3>1, <3>2 DEF FileFits
    <2> QED
      BY <2>3, <2>4
  <1>11. ASSUME NEW q \in Flex!Queries, NEW d \in Flex!Days PROVE CutOff(q, d)'
    <2>1. CutOff(q, d)
      BY DEF FlexInv
    <2>2. \A k \in Jobs : Company(k, q, d) => Company(k, q, d)'
      BY <1>4, CompanyStays
    <2>3. CASE q = query[j] /\ d = Flex!Day(j)
      BY <1>2, <1>4, <1>6, <2>2, <2>3 DEF CutOff
    <2>4. CASE q # query[j] \/ d # Flex!Day(j)
      <3>1. \A k \in Jobs : jobPhase[k] = "dead" => jobPhase'[k] = "dead"
        BY <1>6 DEF Flex!Working
      <3> QED
        BY <1>2, <1>4, <1>6, <2>1, <2>2, <2>4, <3>1 DEF CutOff
    <2> QED
      BY <2>3, <2>4
  <1>12. ASSUME NEW q \in Flex!Queries PROVE WrittenBySomebody(q)'
    <2>1. WrittenBySomebody(q)
      BY DEF FlexInv
    <2>2. ASSUME NEW k \in Jobs, HasWritten(k, q) PROVE HasWritten(k, q)'
      BY <1>6, <2>2 DEF HasWritten
    <2>3. CASE jobPhase'[j] \in {"clearing", "dead"} /\ q = query[j]
      BY <1>6, <2>3 DEF WrittenBySomebody, HasWritten
    <2>4. CASE c.of = Flex!Never \/ q # query[j]
      <3>1. Untouched(q) => Untouched(q)'
        BY <1>2, <2>4 DEF Untouched
      <3> QED
        BY <2>1, <2>2, <3>1 DEF WrittenBySomebody
    <2> QED
      BY <2>3, <2>4
  <1>13. ASSUME NEW q \in Flex!Queries PROVE RefFits(q)'
    <2>1. RefFits(q)
      BY DEF FlexInv
    <2>2. CASE q = query[j]
      BY <1>6, <2>2 DEF RefFits, Busy
    <2>3. CASE q # query[j]
      <3>1. Untouched(q) => Untouched(q)'
        BY <1>2, <2>3 DEF Untouched
      <3>2. Busy(q) => Busy(q)'
        BY <1>6, <2>3 DEF Busy
      <3> QED
        BY <1>4, <2>1, <3>1, <3>2, CrowdStays DEF RefFits
    <2> QED
      BY <2>2, <2>3
  <1> QED
    BY <1>3, <1>4, <1>5, <1>10, <1>11, <1>12, <1>13 DEF FlexInv

LEMMA ClearRefKeepsFlexInv ==
  ASSUME FlexInv, NEW j \in Jobs, Flex!ClearRef(j)
  PROVE  FlexInv'
  <1>1. FlexTyped /\ JobsTyped /\ query[j] \in Flex!Queries /\ Flex!Day(j) \in Flex!Days /\ Flex!NoRef \in [code : Int, at : Int]
    BY DayIsADay DEF FlexInv, FlexTyped, JobsTyped, Flex!NoRef, Flex!Never
  <1>2. /\ jobPhase[j] = "clearing" /\ ref' = [ref EXCEPT ![query[j]] = Flex!NoRef] /\ Flex!Leave(j, "saved")
        /\ UNCHANGED <<now, file, since>>
    BY DEF Flex!ClearRef
  <1>3. Moves(j, {"saved"}) /\ Leaves(j, "saved") /\ jobPhase'[j] \in {"query", "done"}
    BY <1>1, <1>2, LeaveMoves DEF Results
  <1>4. Remembers /\ (\A k \in Jobs : Ahead(k)') /\ \A k \in Jobs : Flex!Day(k)' = Flex!Day(k)
    BY <1>2, <1>3, MovingRemembers DEF Flex!Working, Flex!Phases, Results
  <1>5. /\ ref' \in [Flex!Queries -> [code : Int, at : Int]] /\ ref'[query[j]] = Flex!NoRef
        /\ \A q \in Flex!Queries : q # query[j] => ref'[q] = ref[q]
    BY <1>1, <1>2 DEF FlexTyped
  <1>6. FlexTyped'
    BY <1>1, <1>2, <1>3, <1>5 DEF FlexTyped, Moves
  <1>7. CodesFit'
    BY <1>3, <1>5 DEF FlexInv, CodesFit, Moves, Alone
  <1>8. /\ \A k \in Jobs \ {j} : jobPhase'[k] = jobPhase[k] /\ query'[k] = query[k] /\ result'[k] = result[k]
        /\ \A q \in Flex!Queries : result'[j][q] = IF q = query[j] THEN "saved" ELSE result[j][q]
    BY <1>1, <1>3 DEF Moves, Alone, Leaves, JobsTyped
  <1>9. ASSUME NEW k \in Jobs PROVE FileFits(k)'
    <2>1. FileFits(k) /\ query[k] \in Flex!Queries
      BY <1>1 DEF FlexInv, JobsTyped
    <2>2. \A q \in Flex!Queries : Company(k, q, Flex!Day(k)) => Company(k, q, Flex!Day(k))'
      BY <1>4, CompanyStays
    <2>3. CASE k # j
      BY <1>2, <1>4, <1>8, <2>1, <2>2, <2>3 DEF FileFits, Flex!Target
    <2>4. CASE k = j
      BY <1>2, <1>3, <1>4, <1>8, <2>1, <2>2, <2>4 DEF FileFits, Flex!Target
    <2> QED
      BY <2>3, <2>4
  <1>10. ASSUME NEW q \in Flex!Queries, NEW d \in Flex!Days PROVE CutOff(q, d)'
    <2>1. CutOff(q, d)
      BY DEF FlexInv
    <2>2. \A k \in Jobs : Company(k, q, d) => Company(k, q, d)'
      BY <1>4, CompanyStays
    <2> QED
      BY <1>2, <1>4, <1>8, <2>1, <2>2 DEF CutOff
  <1>11. ASSUME NEW q \in Flex!Queries PROVE WrittenBySomebody(q)'
    <2>1. WrittenBySomebody(q)
      BY DEF FlexInv
    <2>2. ASSUME NEW k \in Jobs, HasWritten(k, q) PROVE HasWritten(k, q)'
      BY <1>2, <1>8, <2>2 DEF HasWritten
    <2> QED
      BY <1>2, <2>1, <2>2 DEF WrittenBySomebody, Untouched
  <1>12. ASSUME NEW q \in Flex!Queries PROVE RefFits(q)'
    <2>1. RefFits(q)
      BY DEF FlexInv
    <2>2. CASE q = query[j]
      BY <1>5, <2>2 DEF RefFits
    <2>3. CASE q # query[j]
      BY <1>2, <1>4, <1>5, <1>8, <2>1, <2>3, CrowdStays DEF RefFits, Busy, Untouched
    <2> QED
      BY <2>2, <2>3
  <1> QED
    BY <1>4, <1>6, <1>7, <1>9, <1>10, <1>11, <1>12 DEF FlexInv

(* A job begins at a day of its own choice; it was at no file before.      *)
LEMMA BeginKeepsFlexInv ==
  ASSUME FlexInv, NEW j \in Jobs, NEW s \in BOOLEAN, Flex!Begin(j, s)
  PROVE  FlexInv'
  <1>1. FlexTyped /\ JobsTyped /\ Ahead(j)
    BY DEF FlexInv, FlexTyped
  <1>2. /\ jobPhase[j] = "idle" /\ since' = [since EXCEPT ![j] = now] /\ jobPhase' = [jobPhase EXCEPT ![j] = "query"]
        /\ UNCHANGED <<now, file, ref, query, code, result>>
    BY DEF Flex!Begin
  <1>3. /\ jobPhase'[j] = "query" /\ (\A k \in Jobs \ {j} : jobPhase'[k] = jobPhase[k] /\ since'[k] = since[k])
        /\ jobPhase' \in [Jobs -> Flex!Phases] /\ since' \in [Jobs -> Flex!Times]
    BY <1>1, <1>2 DEF FlexTyped, JobsTyped, Flex!Phases
  <1>4. FlexTyped'
    BY <1>1, <1>2, <1>3 DEF FlexTyped, JobsTyped
  <1>5. CodesFit'
    BY <1>2, <1>3 DEF FlexInv, CodesFit
  <1>6. \A k \in Jobs \ {j} : Flex!Day(k)' = Flex!Day(k)
    BY <1>3 DEF Flex!Day
  <1>7. Remembers
    BY <1>2, <1>3, <1>6 DEF Remembers, Flex!WasAt
  <1>8. \A q \in Flex!Queries : result[j][q] = "none"
    BY <1>1, <1>2 DEF Ahead
  <1>9. ASSUME NEW k \in Jobs PROVE Ahead(k)' /\ FileFits(k)'
    <2>1. CASE k = j
      BY <1>2, <1>3, <1>8, <2>1 DEF Ahead, FileFits
    <2>2. CASE k # j
      <3>1. Ahead(k) /\ FileFits(k) /\ query[k] \in Flex!Queries
        BY <1>1 DEF FlexInv, JobsTyped
      <3>2. \A q \in Flex!Queries : Company(k, q, Flex!Day(k)) => Company(k, q, Flex!Day(k))'
        BY <1>6, <1>7, <2>2, CompanyStays
      <3> QED
        BY <1>2, <1>3, <1>6, <2>2, <3>1, <3>2 DEF Ahead, FileFits, Flex!Target
    <2> QED
      BY <2>1, <2>2
  <1>10. ASSUME NEW q \in Flex!Queries, NEW d \in Flex!Days PROVE CutOff(q, d)'
    <2>1. CutOff(q, d)
      BY DEF FlexInv
    <2>2. \A k \in Jobs : Company(k, q, d) => Company(k, q, d)'
      BY <1>7, CompanyStays
    <2> QED
      BY <1>2, <1>3, <1>6, <2>1, <2>2 DEF CutOff
  <1>11. ASSUME NEW q \in Flex!Queries PROVE WrittenBySomebody(q)' /\ RefFits(q)'
    <2>1. WrittenBySomebody(q) /\ RefFits(q)
      BY DEF FlexInv
    <2>2. \A k \in Jobs : HasWritten(k, q) => HasWritten(k, q)'
      BY <1>2, <1>3 DEF HasWritten
    <2>3. Busy(q) => Busy(q)'
      BY <1>2, <1>3 DEF Busy
    <2> QED
      BY <1>2, <1>7, <2>1, <2>2, <2>3, CrowdStays DEF WrittenBySomebody, RefFits, Untouched
  <1> QED
    BY <1>4, <1>5, <1>9, <1>10, <1>11 DEF FlexInv

LEMMA MovesToMore ==
  ASSUME NEW j \in Jobs, NEW few, NEW more, few \subseteq more, Moves(j, few)
  PROVE  Moves(j, more)
  BY DEF Moves

LEMMA LookingKeepsFlexInv ==
  ASSUME FlexInv, NEW j \in Jobs, Moves(j, Results \ {"none", "saved"}),
         jobPhase[j] \in {"query", "asking", "polling"},
         jobPhase'[j] \in {"query", "asking", "polling", "done", "raised", "dead"},
         jobPhase'[j] = "polling" => code'[j] # Flex!Never,
         file' = file, now' = now, ref' = ref
  PROVE  FlexInv'
  <1>a. PICK r : r = ref[query[j]]
    OBVIOUS
  <1>1. query[j] \in Flex!Queries /\ ref \in [Flex!Queries -> [code : Int, at : Int]]
    BY DEF FlexInv, FlexTyped, JobsTyped
  <1>2. r \in [code : Int, at : Int] /\ ref' = [ref EXCEPT ![query[j]] = r]
    BY <1>1, <1>a
  <1>3. r = Flex!NoRef \/ r.code # Flex!Never
    BY <1>1, <1>a DEF FlexInv, CodesFit
  <1> QED
    BY <1>2, <1>3, ReadingKeepsFlexInv

LEMMA QueryStepsKeepFlexInv ==
  ASSUME FlexInv, NEW j \in Jobs, Flex!SkipQuery(j) \/ Flex!TakeQuery(j) \/ Flex!UseRef(j) \/ Flex!NetworkFails(j)
  PROVE  FlexInv'
  <1>1. JobsTyped /\ FlexTyped /\ query[j] \in Flex!Queries
    BY DEF FlexInv, FlexTyped, JobsTyped
  <1>p. {"query", "asking", "polling", "done", "raised", "dead"} \subseteq Flex!Phases
    BY DEF Flex!Phases
  <1>2. CASE Flex!SkipQuery(j)
    <2>1. Moves(j, {"cached"}) /\ jobPhase'[j] \in {"query", "done"}
      BY <1>1, <1>2, LeaveMoves DEF Flex!SkipQuery, Results
    <2>2. Moves(j, Results \ {"none", "saved"})
      BY <2>1, MovesToMore DEF Results
    <2> QED
      BY <1>2, <2>1, <2>2, LookingKeepsFlexInv DEF Flex!SkipQuery
  <1>3. CASE Flex!TakeQuery(j)
    <2>1. Moves(j, {}) /\ jobPhase'[j] = "asking"
      BY <1>1, <1>3, <1>p, StayMovesWithItsCode DEF Flex!TakeQuery
    <2>2. Moves(j, Results \ {"none", "saved"})
      BY <2>1, MovesToMore
    <2> QED
      BY <1>3, <2>1, <2>2, LookingKeepsFlexInv DEF Flex!TakeQuery
  <1>4. CASE Flex!NetworkFails(j)
    <2>1. Moves(j, {}) /\ jobPhase'[j] = "raised"
      BY <1>1, <1>4, <1>p, StayMovesWithItsCode DEF Flex!NetworkFails
    <2>2. Moves(j, Results \ {"none", "saved"})
      BY <2>1, MovesToMore
    <2> QED
      BY <1>4, <2>1, <2>2, LookingKeepsFlexInv DEF Flex!NetworkFails
  <1>5. CASE Flex!UseRef(j)
    <2>a. PICK c : c = ref[query[j]].code
      OBVIOUS
    <2>1. c \in Int /\ c # Flex!Never
      BY <1>1, <1>5, <2>a DEF FlexInv, FlexTyped, CodesFit, Flex!UseRef
    <2>2. Moves(j, {}) /\ jobPhase'[j] = "polling" /\ code'[j] = c
      BY <1>1, <1>5, <1>p, <2>1, <2>a, StayMoves DEF Flex!UseRef
    <2>3. Moves(j, Results \ {"none", "saved"})
      BY <2>2, MovesToMore
    <2> QED
      BY <1>5, <2>1, <2>2, <2>3, LookingKeepsFlexInv DEF Flex!UseRef
  <1> QED
    BY <1>2, <1>3, <1>4, <1>5

LEMMA SendRequestKeepsFlexInv ==
  ASSUME FlexInv, NEW j \in Jobs, NEW reply, Flex!SendRequest(j, reply)
  PROVE  FlexInv'
  <1>1. JobsTyped /\ now \in Int /\ now # Flex!Never /\ Flex!NoRef \in [code : Int, at : Int]
    BY FlexAssumption DEF FlexInv, FlexTyped, Flex!Times, Flex!Never, Flex!NoRef
  <1>2. /\ jobPhase[j] = "asking" /\ ref' = [ref EXCEPT ![query[j]] = Flex!NoRef]
        /\ UNCHANGED <<now, file, since>>
    BY DEF Flex!SendRequest
  <1>3. CASE /\ code' = [code EXCEPT ![j] = now] /\ jobPhase' = [jobPhase EXCEPT ![j] = "polling"]
             /\ UNCHANGED <<query, attempt, result>>
    <2>1. "polling" \in Flex!Phases
      BY DEF Flex!Phases
    <2>2. Moves(j, {}) /\ jobPhase'[j] = "polling" /\ code'[j] = now
      BY <1>1, <1>2, <1>3, <2>1, StayMoves
    <2>3. Moves(j, Results \ {"none", "saved"})
      BY <2>2, MovesToMore
    <2> QED
      BY <1>1, <1>2, <2>2, <2>3, ReadingKeepsFlexInv
  <1>4. CASE Flex!TryAgain(j) \/ Flex!Leave(j, "failed")
    <2>1. Moves(j, {"failed"}) /\ jobPhase'[j] \in {"asking", "query", "done"}
      BY <1>1, <1>2, <1>4, TryAgainMoves, LeaveMoves DEF Results
    <2>2. Moves(j, Results \ {"none", "saved"})
      BY <2>1, MovesToMore DEF Results
    <2> QED
      BY <1>1, <1>2, <2>1, <2>2, ReadingKeepsFlexInv
  <1> QED
    BY <1>3, <1>4 DEF Flex!SendRequest

LEMMA PollKeepsFlexInv ==
  ASSUME FlexInv, NEW j \in Jobs, NEW reply, Flex!PollStatement(j, reply)
  PROVE  FlexInv'
  <1>1. JobsTyped /\ FlexTyped /\ code[j] \in Int /\ code[j] # Flex!Never
    BY DEF FlexInv, FlexTyped, JobsTyped, CodesFit, Flex!PollStatement
  <1>2. jobPhase[j] = "polling" /\ UNCHANGED <<now, since>>
    BY DEF Flex!PollStatement
  <1>3. CASE /\ file' = [file EXCEPT ![query[j]][Flex!Day(j)] = [state |-> "empty", of |-> Flex!Never]]
             /\ jobPhase' = [jobPhase EXCEPT ![j] = "writing"]
             /\ UNCHANGED <<ref, query, attempt, code, result>>
    <2>1. [state |-> "empty", of |-> Flex!Never] \in Contents /\ "writing" \in Flex!Phases
      BY DEF Contents, Flex!Never, Flex!Phases
    <2>2. Moves(j, {}) /\ jobPhase'[j] = "writing"
      BY <1>1, <1>2, <1>3, <2>1, StayMovesWithItsCode
    <2> QED
      BY <1>2, <1>3, <2>1, <2>2, TouchingKeepsFlexInv DEF Flex!Working, Flex!Phases
  <1>4. ASSUME NEW res \in {"failed", "pending"}, Flex!TryAgain(j) \/ Flex!Leave(j, res),
               Flex!SaveRef(j) \/ UNCHANGED ref, UNCHANGED file
        PROVE  FlexInv'
    <2>1. Moves(j, Results \ {"none", "saved"}) /\ jobPhase'[j] \in {"asking", "query", "done"}
      BY <1>1, <1>2, <1>4, TryAgainMoves, LeaveMoves, MovesToMore DEF Results
    <2>2. CASE Flex!SaveRef(j)
      <3>a. PICK r : r = [code |-> code[j], at |-> now]
        OBVIOUS
      <3>1. r \in [code : Int, at : Int] /\ r.code # Flex!Never /\ ref' = [ref EXCEPT ![query[j]] = r]
        BY <1>1, <2>2, <3>a, FlexAssumption DEF Flex!SaveRef, FlexTyped, Flex!Times
      <3> QED
        BY <1>2, <1>4, <2>1, <3>1, ReadingKeepsFlexInv
    <2>3. CASE UNCHANGED ref
      BY <1>2, <1>4, <2>1, <2>3, LookingKeepsFlexInv
    <2> QED
      BY <1>4, <2>2, <2>3
  <1> QED
    BY <1>3, <1>4 DEF Flex!PollStatement

LEMMA WriteKeepsFlexInv ==
  ASSUME FlexInv, NEW j \in Jobs, Flex!WriteStatement(j)
  PROVE  FlexInv'
  <1>1. JobsTyped /\ code[j] \in Int /\ FileFits(j)
    BY DEF FlexInv, FlexTyped, JobsTyped
  <1>2. PICK s \in {"short", "whole"} \union (IF Flex!Target(j).state = "empty" THEN {} ELSE {"broken"}) :
            file' = [file EXCEPT ![query[j]][Flex!Day(j)] = [state |-> s, of |-> code[j]]]
    BY DEF Flex!WriteStatement
  <1>3. /\ jobPhase[j] = "writing" /\ jobPhase' = [jobPhase EXCEPT ![j] = "clearing"]
        /\ UNCHANGED <<now, ref, since, query, code, result>>
    BY DEF Flex!WriteStatement
  <1>c. PICK c : c = [state |-> s, of |-> code[j]]
    OBVIOUS
  <1>4. c \in Contents /\ c.state = s
    BY <1>1, <1>2, <1>c DEF Contents
  <1>5. c.state \in Sound \/ Company(j, query[j], Flex!Day(j))
    BY <1>1, <1>2, <1>3, <1>4 DEF FileFits, Sound
  <1>6. c.state = "broken" => Company(j, query[j], Flex!Day(j))
    BY <1>5 DEF Sound
  <1>7. "clearing" \in Flex!Phases /\ "writing" \in Flex!Working
    BY DEF Flex!Phases, Flex!Working
  <1>8. Moves(j, {}) /\ jobPhase'[j] = "clearing"
    BY <1>1, <1>3, <1>7, StayMovesWithItsCode
  <1> QED
    BY <1>2, <1>3, <1>4, <1>5, <1>6, <1>7, <1>8, <1>c, TouchingKeepsFlexInv

LEMMA DieKeepsFlexInv ==
  ASSUME FlexInv, NEW j \in Jobs, Flex!Die(j)
  PROVE  FlexInv'
  <1>1. JobsTyped /\ FlexTyped /\ code[j] \in Int /\ query[j] \in Flex!Queries /\ Flex!Day(j) \in Flex!Days
    BY DayIsADay DEF FlexInv, FlexTyped, JobsTyped
  <1>2. /\ jobPhase[j] \in Flex!Working /\ jobPhase' = [jobPhase EXCEPT ![j] = "dead"]
        /\ UNCHANGED <<now, ref, since, query, code, result>>
    BY DEF Flex!Die
  <1>3. "dead" \in Flex!Phases
    BY DEF Flex!Phases
  <1>4. Moves(j, {}) /\ jobPhase'[j] = "dead"
    BY <1>1, <1>2, <1>3, StayMovesWithItsCode
  <1>5. CASE file' = [file EXCEPT ![query[j]][Flex!Day(j)] = [state |-> "broken", of |-> code[j]]]
    <2>1. [state |-> "broken", of |-> code[j]] \in Contents
      BY <1>1 DEF Contents
    <2> QED
      BY <1>2, <1>4, <1>5, <2>1, TouchingKeepsFlexInv
  <1>6. CASE file' = file
    <2>a. PICK c : c = file[query[j]][Flex!Day(j)]
      OBVIOUS
    <2>1. c \in Contents /\ file' = [file EXCEPT ![query[j]][Flex!Day(j)] = c]
      BY <1>1, <1>6, <2>a DEF FlexTyped
    <2> QED
      BY <1>2, <1>4, <2>1, TouchingKeepsFlexInv
  <1> QED
    BY <1>5, <1>6 DEF Flex!Die

LEMMA WaitingKeepsFlexInv ==
  ASSUME FlexInv, UNCHANGED <<file, ref, jobPhase, since, query, code, result>>, now' \in Flex!Times
  PROVE  FlexInv'
  <1>1. FlexTyped' /\ CodesFit'
    BY DEF FlexInv, FlexTyped, JobsTyped, CodesFit
  <1>2. ASSUME NEW j \in Jobs PROVE Ahead(j)' /\ FileFits(j)'
    BY DEF FlexInv, Ahead, FileFits, Flex!Target, Flex!Day, Company, Flex!Met, Flex!WasAt
  <1>3. ASSUME NEW q \in Flex!Queries PROVE WrittenBySomebody(q)' /\ RefFits(q)'
    BY DEF FlexInv, WrittenBySomebody, HasWritten, Untouched, RefFits, Crowded, Busy, Flex!WasAt
  <1>4. ASSUME NEW q \in Flex!Queries, NEW d \in Flex!Days PROVE CutOff(q, d)'
    BY DEF FlexInv, CutOff, Company, Flex!Met, Flex!WasAt, Flex!Day
  <1> QED
    BY <1>1, <1>2, <1>3, <1>4 DEF FlexInv

LEMMA FlexInvNext == FlexInv /\ [Flex!Next]_(Flex!vars) => FlexInv'
  <1> SUFFICES ASSUME FlexInv, [Flex!Next]_(Flex!vars) PROVE FlexInv'
    OBVIOUS
  <1>1. now \in Flex!Times
    BY DEF FlexInv, FlexTyped
  <1>2. CASE Flex!Tick
    <2>1. now' \in Flex!Times
      BY <1>1, <1>2, FlexAssumption DEF Flex!Tick, Flex!Times
    <2> QED
      BY <1>2, <2>1, WaitingKeepsFlexInv DEF Flex!Tick
  <1>3. CASE Flex!Finished \/ UNCHANGED Flex!vars
    BY <1>1, <1>3, WaitingKeepsFlexInv DEF Flex!Finished, Flex!vars
  <1>4. ASSUME NEW j \in Jobs, Flex!Work(j) \/ Flex!NetworkFails(j) \/ Flex!Die(j) PROVE FlexInv'
    BY <1>4, QueryStepsKeepFlexInv, SendRequestKeepsFlexInv, PollKeepsFlexInv, WriteKeepsFlexInv,
       ClearRefKeepsFlexInv, DieKeepsFlexInv
       DEF Flex!Work
  <1> QED
    BY <1>2, <1>3, <1>4, BeginKeepsFlexInv DEF Flex!Next

LEMMA FlexMoves ==
  MCSpec => Flex!Init /\ [][Flex!Next]_(Flex!vars)
  <1>1. MCInit => Flex!Init
    BY DEF MCInit
  <1>2. [MCNext]_all => [Flex!Next]_(Flex!vars)
    BY DEF MCNext, ReportStep, ProgressStep, GraphStep, FlexStep, all, flex, Flex!vars
  <1> QED
    BY <1>1, <1>2, PTL DEF MCSpec

(* What a job reports as saved is in the archive and not cut off, unless a *)
(* second job met it at the file; a broken file has a job that was killed, *)
(* or met; and the reference to an archived statement is gone, unless two  *)
(* jobs were at the query or one is about to remove it                     *)
(* (fetch_job.py:156, flex_client.py:246-254).                             *)
THEOREM SavedStatementsAreArchived == MCSpec => []SavedIsArchived
  <1>1. FlexInv => SavedIsArchived
    BY FlexInvArchives DEF SavedIsArchived
  <1> QED
    BY <1>1, FlexInvInit, FlexInvNext, FlexMoves, PTL
===============================================================================
