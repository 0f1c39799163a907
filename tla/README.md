# A formal model of ibkr-dash

TLA+ specifications of the parts of ibkr-dash in which the order of steps, the
interplay of many rules or the overlap of documents matters, the TLC instances
that check them, and TLAPS proofs about eight of them. Paths are relative to the
repository; `agent_services.py:196` means line 196 of the file of that name in
`src/`. Everything is translated from the code; where a document or comment says
something else, the section on disagreements says so.

1. [The system](#1-the-system)
2. [Modules](#2-modules)
3. [What is checked](#3-what-is-checked)
4. [Fairness](#4-fairness)
5. [What is proved](#5-what-is-proved)
6. [Where code and documents disagree](#6-where-code-and-documents-disagree)
7. [What is not modelled](#7-what-is-not-modelled)
8. [Plan](#8-plan)
9. [Running it](#9-running-it)

## 1. The system

ibkr-dash downloads account statements from Interactive Brokers ("Flex"
statements), imports them into SQLite, and shows and analyses the account. A
worker process downloads and imports once a day. The FastAPI backend answers
queries from the database through two in-memory caches, runs LLM agents as
background tasks, and runs a "portfolio manager", whose daily loop is started by
a scheduler thread or by a request: it watches a universe of symbols, asks the
trade decision agent about those that need a decision, reviews the portfolio and
sends alerts. Backend and worker share the SQLite file and the data directory
and nothing else. Route handlers and agents run in threads of one backend
process.

| Component | State | Operations | Interacts with |
|---|---|---|---|
| Agent task service (`services/agent_services.py`) | table `agent_tasks`, dict `_running_tasks` | create, run in background, start / complete / fail / progress / cancel | its threads, the routes of `api/routes/` |
| Task documents (`services/agent_task_repository.py`, graph instrumentation) | one document per graph task, a lock per task, an event log | initialise, report node start / end, sync, complete, fail, poll, sweep | graph nodes, runner, clients |
| Daily loop (`portfolio_manager/daily_loop`) | one run document, one agent task document | create shell, seven steps, progress writes, final write, settle task | watchtower, orchestrator, review, alerts |
| Scheduling of the loop (`core/portfolio_scheduler.py`, `api/routes.py`, `schedule.py`) | the run documents of a date | cron firing, scheduled route (with force), manual route | daily loop, imported snapshots |
| Symbol universe (`universe/service.py`) | one row per symbol | add, edit, exclude, disable, synchronise with the holdings | watchtower, orchestrator |
| Watchtower (`watchtower/`) | run documents, item documents | list kinds, grade by trigger rules, store | universe, orchestrator |
| Decision orchestrator (`decision_orchestrator/`) | run documents, item documents | select, store items, create run, decide, update item, end | watchtower scan, trade decision agent |
| Portfolio review (`portfolio_review/`) | report documents | join a scan and a run of decisions, queue actions | watchtower, orchestrator |
| Action alerts (`action_alerts/`) | alert documents | derive, look up, store, mark sent, push digest | run document, NotifyHub |
| Trade decision graph (`agents/trade_decision_graph`) | graph state of a run, table of decisions | eighteen nodes in supersteps, fallbacks, final save | sub-agents, composer, task document |
| Decision rules (`trade_decision_sub_agents.py`, `_trade_plan_agent.py`, `_composer.py`, `_risk_gate.py`) | none | cards, plan, score, draft, gate, confidence | the graph |
| One-pass decision (`agents/trade_decision/`) | table of decisions | four sub-agents, ratio, draft, gate, save | request |
| Report agents (`agents/daily_review`, `trade_review`, `risk_assessment`, `position_analysis`), structured output runtime | report tables, a cache of public data, a set of dates pushed | read, ask, repair or fall back, store, push | task service, notifications |
| Statement download (`worker/jobs/fetch_job.py`, `clients/flex_client.py`) | archive files, reference-code files | request, poll, save, keep code, retry | IBKR, the import job |
| Statement import (`worker/jobs/import_job.py`, `parsers/`, `clients/sqlite_writer.py`) | `imported_files.txt`, the tables | scan, parse, write row by row, mark | archive, database, backend caches |
| FIFO cost basis (`utils/fifo.py`) | lots of a symbol | apply a trade, close, open | stored trades, cache |
| Query caches (`core/cache.py`, `utils/fifo.py`) | two dicts, a fingerprint | look up, delete, put, invalidate, check freshness | every query, the imports |
| Rate limiter (`core/rate_limit.py`) | a dict of timestamp lists | prune, evict, compare, append | the routes that call a model |
| Longbridge token and MCP client | the token file and its copy, a session | authorize, call back, refresh, disconnect, call a tool | authorization server, agents |
| Constitution, evaluation and improvement reports, other graphs, copilot, market data clients | documents, or none | computed or edited in one call | daily loop, agents |
| Numerical services, auth, settings, frontend | little | pure computations, checks, presentation | |

What is hard about each component, and what makes it correct:

* **Agent tasks.** The owner of a row writes it twice without looking; other
  calls read the row, test the status and write in a second database call. A row
  must still end terminal, completed must mean that the work was done, and an
  outcome should not be overwritten. Writes may fail and the process may restart.
* **Task documents.** Parallel nodes rewrite one document under a lock that the
  runner does not take; the event log is bounded and polled by number. No report
  may be lost, and polling must see what the log kept.
* **Daily loop.** A chain of steps that fail independently, each followed by a
  read-modify-write of the run document, under an except clause that writes two
  documents itself. After any failure the document must be an honest prefix of
  the run, and the task must not claim more than the run achieved.
* **Scheduling.** "Is there a run of this date?" and "create a run" are two
  steps of several concurrent triggers, and a dead run stays `running`.
* **Universe and watchtower.** Users and synchronisations read a row and write
  it whole; scans and selections list the kinds of symbols in separate queries
  while symbols change kind. An exclusion must be kept and a symbol that did not
  move must not be missed; what a rule requires must survive the selector's own
  tests.
* **Orchestrator.** Overlapping runs look at each other's decisions of the last
  days; items fail one at a time; the budget is the smaller of two.
* **Portfolio review.** A report joins a scan and a run of decisions by ids that
  may be missing; what it queues must belong together.
* **Alerts.** Two senders derive the same alerts and store them under the same
  ids, and rows are marked as sent before the digest is sent.
* **Trade decision.** Nodes fail and are replaced by substitutes, or raise and
  end the run; whatever happens, one conservative or complete document must be
  answered and be the row that is stored. Two dozen rules rewrite one action in
  order, so a condition tested by one of them has to survive the others; a
  second copy of the gate has gone its own way.
* **Report agents.** Threads share a value and its date in two variables, and a
  set that is tested before and extended after a push.
* **Download.** Rate limits, statements that are not ready, reference codes
  that outlive the process and expire, and jobs that overlap at one file.
* **Import.** Many transactions per file, a marker file written last,
  overlapping passes, files that change under their name; statements whose rows
  overlap and are upserted under ids that the formats make differently.
* **FIFO.** Partial closings, shorts, and trades that turn a position around.
* **Caches, limiter, token.** No locks; invalidation clears two dicts one after
  the other; a limiter's thread keeps a list that another has replaced; a token
  call writes back what it read before another wrote.

`PROJECT.json` lists each of these hazards at its line with the properties
that would be violated if it were handled wrongly.

## 2. Modules

| Module | Models | Proofs |
|---|---|---|
| `AgentTask` | task rows, owners, guarded operations, restarts | `AgentTaskProofs` |
| `TaskProgress` | the document of a graph task | `BackgroundJobsProofs` |
| `RunLifecycle` | what a run document promises its readers (abstract) | |
| `DailyLoop` | one run of the daily loop and its task; instantiates `RunLifecycle` | `DailyLoopProofs` |
| `DailyLoopSchedule` | the triggers of one date | `DailyLoopProofs` |
| `Universe` | rows of symbols, edits, synchronisations | `ImportsProofs` |
| `Watchtower` | scans and selections; extends `Universe` | `ImportsProofs` |
| `AutoDecision` | runs of the decision orchestrator | `AutoDecisionProofs` |
| `PortfolioReview` | loops, users' scans and decisions, reports that join them | `TradeDecisionProofs` |
| `ActionAlerts` | senders of one run's alerts | `DailyLoopProofs` |
| `GraphRun` | what an agent graph promises its caller (abstract) | |
| `TradeGraph` | the trade decision graph and its runner; instantiates `GraphRun` | `TradeGraphProofs` |
| `DecisionCards` | evidence cards | |
| `RiskGate`, `TradePlan` | the gate's rules, the sanitising of the plan; extend `DecisionCards` | |
| `DecisionComposer` | score, draft, final decision; extends both | |
| `TradeDecision` | one decision from evidence to publication; extends `DecisionComposer` | `TradeDecisionProofs` |
| `OnePassDecision` | the decision a route answers with at once; extends `DecisionCards` | `TradeDecisionProofs` |
| `StructuredOutput`, `RiskReport` | repairing of answers, risk cards (operators) | |
| `ReportAgents` | overlapping runs of the report agents; extends both | `BackgroundJobsProofs` |
| `FlexFetch` | download jobs, archive and reference codes | `BackgroundJobsProofs` |
| `FlexImport` | import passes | `ImportsProofs` |
| `Ledger` | the rows statements leave in the tables | `ImportsProofs` |
| `Fifo` | lots of one symbol | `ImportsProofs` |
| `QueryCache` | requests, imports, the two caches, the freshness check | `RequestsProofs` |
| `RateLimiter` | checks of one client | `RequestsProofs` |
| `LongbridgeAuth` | the token, its file and the MCP client | `RequestsProofs` |
| `MC...` | the instances for TLC | |

Every stateful module has one action per database, file, cache or network access
of the code, because those are the points at which threads and processes meet.
`phase`, `at`, `pc` or `owner` is the program counter of a thread, and the
comment of each action names what it does in the code. The rules of decisions
and reports are operators, one per rule, named after it.

Five MC modules hold several modules that share no state: a variable `part`,
chosen at the start, says which of them moves, and the others stay where they
begin. `MCDailyLoop` holds `DailyLoop`, `DailyLoopSchedule` and `ActionAlerts`;
`MCImports` holds `FlexImport`, `Universe`, `Watchtower`, `Ledger` and
`Fifo`; `MCRequests` holds `QueryCache`, `RateLimiter` and `LongbridgeAuth`;
`MCBackgroundJobs` holds `TradeGraph`, `TaskProgress`, `ReportAgents` and
`FlexFetch`; `MCTradeDecision` holds `TradeDecision`, `OnePassDecision` and
`PortfolioReview`. The state spaces add up and do not multiply. The theorems
about these modules are theorems of the composed specification, so that run and
theorem speak of the same formula.

**AgentTask.** `status` and `hasResult` are the columns; `owner` is the
thread of `run_in_background` (`CreateTask`, `LaunchThread`, `WriteRunning`,
`FunctionEnds`, `WriteOutcome`, `Unregister`) or the handler of a "generate"
route, which does the same without a thread. They differ in two places that the
model keeps: a thread calls a result of `None` a success and a handler does not,
and a thread whose write of "completed" raises goes on to write "failed".
`CallRead` and `CallWrite` are the two database calls of the five guarded
operations; `Ops` says which of these are used on which task. The routes only
use `cancel`, so the invariants about settled rows speak of the tasks in
`CancelOnly`; what holds under all operations is said of all tasks.

**TaskProgress** keeps the document a report has read beside the stored one, so
an overlap shows. Nodes take the lock, the runner's `RunnerWrites` do not.
LangGraph is external: it starts a node when its predecessors have ended, and
returns when no node runs any more.

**DailyLoop and RunLifecycle.** `steps` is the list in the memory of
`run_daily_loop`, `runStatus`, `runSteps`, `runLinks` the document, `taskStatus`,
`graphStatus` and `nodes` the agent task. A run is direct (the scheduler thread or a
request) or in the background. A background run reports the beginning and the end
of each of its nine nodes (`ReportStart`, `ReportEnd`), and each report is a write
that recomputes the status of the graph from the nodes (`Inferred`). The last node is
reported before the run is stored, so the graph shows a success for a while, or after
a kill for good, of a run that is still `running`; `SyncGraph` overwrites it in the end,
and alone writes "fallback". What the steps do is any of the results
that their code can report (`Reports`), which depends on the step. `Raises` may
strike at any write: inside the runner's try block it leads to the two writes of
the except clause, elsewhere the thread is lost. `RunLifecycle` is the abstract
promise: created once, grows by the next step, ends at most once, whole, with
a status that fits. `DocumentIsAppendOnly == Lifecycle!Spec` is the refinement;
the mapping is the identity on the document.

**DailyLoopSchedule** takes a run as its type and status, ended by its
driver with any terminal status; that a run does end so is `DailyLoop`'s
business. A manual request looks for no other run and chooses its type
(`TypesFor`), so it may begin a second scheduled run; the property counts that as an
excuse. `Window` is the number of newest runs the search looks at (20).

**Universe and Watchtower.** Of a row the model keeps kind, enabled and the two
frequencies that readers test. A writer holds the row it has read (`pc`, `edit`,
`work`), and writes it whole. `Watchtower` adds the readers: `listed` counts the
kinds listed, `scanned` and `known` are the rows they got, so a symbol may be
seen twice, or not at all. All ten trigger rules are operators on the numbers
they test.

**AutoDecision** keeps the clock in units in which the duplicate window is
`DuplicateHours`. Which symbols need a decision, and how they are ranked, is any
set; what the code does with them (recent decisions, budget, dry run, force) is
in `Select`. The agent's decision and the update of its item are two actions,
since a run may die in between.

**PortfolioReview** takes a scan as its grading of the symbols and a run of
decisions as what it decided, ranked or skipped. A report finds both by the ids
of its loop, or takes the latest.

**ActionAlerts** takes the alerts as numbers in the order of the builder.
The senders are the loop and any number of requests. A digest is delivered or
lost, as `notify_action_alerts` swallows every failure.

**TradeGraph and GraphRun.** The graph is a set of edges; a superstep is the
set of nodes that have an edge from one of the last (that is how LangGraph starts
them). Each node is described by what it needs, what it sets, and what it falls
back to. The runner's except branch, its fallback document and its last save fail
on their own. `GraphRun` asks for every node once and after *all* its
predecessors; `ImplementsGraphRun` is the refinement, and it is true only because
the graph is levelled, so that an edge added between levels would break it.

**DecisionCards to TradeDecision.** A card pack is a record of the fields that
rules test, with positions in per mille and ratios in hundredths. The model's
answer is any of `Answers`. `Evaluate` of `RiskGate` applies the rules in the
order of the code; each is an operator on the action and the flags. `PlanAnswered`,
`PlanFailed`, `ComposeDecision` and `ComposeWithoutGate` are the nodes.

**OnePassDecision** has the same shape with its own copies of draft, ratio and
gate. On this path no engine fills in the trend-break level or the fundamental
status, so the rules that test those have no case.

**ReportAgents.** A run reads its data, fetches or takes the cached public data
(`cached` and its date are two variables), goes through `StructuredOutput`,
stores its document and pushes. `RiskReport` computes the stress test of the risk
assessment from the columns that the query selects.

**FlexFetch** counts time in thirds of a day, the age at which a saved code
is dropped (`UseRef`, `SendRequest`: a code from the third before may be younger
or older than eight hours, so both are possible). A code is identified by the
time of its request, and so is its statement, which lets the model say whether
the file of a day is the statement of that day.

**FlexImport** identifies a statement by the number of its download. `Writes`
gives the groups of rows a file writes, in order, one transaction each. A pass lists
`*.xml`, `*.csv` and `*.txt` one after the other (`List`), each when it is through
with the files of the one before; files are numbered by pattern and, within a pattern,
by name, and `asOf` remembers how many downloads each listing could see. **Ledger**
opens what `FlexImport` takes as rows: statements in XML and CSV become account
values, positions, trades and flows with the ids their parsers make, written
under the unique indexes of the tables, one file at a time and repeatedly.

**Fifo** follows `compute_fifo_cost_basis` turn by turn of its inner loop, and keeps
beside its lots a queue of single shares, which is the definition of first in, first
out that the lots are compared with. `TradeShare` applies the trade to this holding
one share at a time; the program's next turn waits until the holding has come as far,
which restricts nothing the program does and lets the two be compared at each turn.

**QueryCache** has keys of the answer cache and one key of the FIFO cache
below it. A value carries the oldest version of the data it was computed from
(`data`) and the requests whose readings it is made of (`by`): an answer that uses
cached cost bases has theirs too. Invalidations overlap, as they hold no lock. `met`
collects, for each, the requests that held a reading while it was under way, and
`flushed` keeps that set and the data of the one that ended last.

**RateLimiter** models lists as objects: a thread holds a reference to a list
that may no longer be the client's. **LongbridgeAuth** keeps, for each call, the
token it has read, and of the server the refresh tokens it still accepts.

The modules are composed by their interfaces as well: `DailyLoopSchedule` rests
on `DailyLoop` for the end of a run, `ActionAlerts.Link` is the point at which
`DailyLoop` has stored its links, a required item of `Watchtower` is a candidate
of `AutoDecision`, `FlexImport.Save` is the last step of `FlexFetch`, the
imports of `QueryCache` are the transactions of `FlexImport`, the composing node
of `TradeGraph` is `TradeDecision`, and its reports are those of `TaskProgress`.

## 3. What is checked

| Run | Shows |
|---|---|
| `agent_task` | Owners that finish leave terminal rows; an outcome is only overwritten by a call whose read was older; tasks settle for good. |
| `daily_loop` | The document refines `RunLifecycle`; success is complete; task and run agree, and the graph shows a success only of a run that is one or lacks its last write; runs end. A second active scheduled run of a date was forced, or asked for by a manual request, or raced, or fell out of the window; a trigger skips for a run that ends unless its driver dies. No pending alert is orphaned except by a death; overlapping senders converge to "sent". |
| `auto_decision` | Unforced repeats are more than the window apart if the first was visible; counts and status of ended runs fit; no run gets stuck. |
| `trade_decision` | What the graph publishes meets every rule of the gate although rules rewrite each other's results; broken theses are left; confidence and plan fit; an addition of the one-pass decision is earned and would pass the graph's gate; a loop's report fits the scan and the decisions of its loop. |
| `imports` | Marked files are stored; a file left behind a newer one is logged, or was overtaken between two listings, or belongs to a pass that broke off; a failed import leaves no trace once the file is imported; the lots are the holding; an exclusion is kept; scans miss only symbols that move; no required decision is lost in the selector. |
| `requests` | What is older than an invalidation is made of the reading of a request that overlapped it; only overlapping checks of the limiter are inexact; the Longbridge token is lost only for a cause. |
| `background` | No node's report is lost, polling sees what is logged, tasks end truthfully; public data is of its date and a date is pushed once unless runs overlap or restart; the supersteps implement `GraphRun`, no decision is made without facts, and the answer is the row; what a download reports as saved is archived, and jobs end. |
| `worst_case` | (violated) A portfolio that loses more than 20% in the worst scenario gets a stress score of 15; the portfolios lose 14%, 24% and 26%. |
| `decision_ids` | (violated) A stored decision is kept. |
| `cache_expiry` | (violated) `get` does not raise. |

The bounds, and why they are enough to see what the properties are about:

* `agent_task`: two tasks, because the registry and the calls could mix tasks
  up, one of which is only cancelled and the other completed and reported on from
  outside; two callers, so that two stale calls meet; one restart, after which
  nothing of the old process is left. All failing writes are included.
* `daily_loop`: four sets of wanted steps, chosen so that each dependency
  between steps occurs with and without what it depends on; every result of
  every step, an exception at every write and a kill at every point. For the
  schedule three triggers: two that race and one that comes between;
  `Window = 1` makes the window matter with three runs instead of 22. For the
  alerts three senders and two alerts: two that overlap and one that comes
  later; a second alert, so that marking is not atomic.
* `auto_decision`: two runs, two symbols, budgets 0, 1 and 2, forced and dry
  requests, a window of one tick and a clock of two, so that decisions fall
  inside, at and outside the window.
* `trade_decision`: every combination of the cards and answers would be
  astronomically many. Three slices vary together the cards that rules read
  together (account and policy, public data, panic), with every answer of the
  model that the rules tell apart on each; the theorems have no such bound. The
  one-pass cases are chosen alike. The review has one loop, one user, two symbols
  and two scans and runs, so that the latest run need not be the loop's own.
* `imports`: for the passes three files, two of one pattern and one of a later, so
  that files are ordered both by name and by pattern; they share rows that are
  replaced, and one adds trades.
  Two downloads are a newer and an older file, or a short file and what replaces
  it, in any two of the three names; two passes, one of which overtakes or breaks off
  while the other goes on, and which symmetry permutes. The theorems have no
  such bound. For the
  universe two symbols, two users and a synchronisation: two edits that overlap
  one. For the watchtower one symbol, since lists and rules treat symbols apart,
  one user, and metrics on both sides of every limit of the rules. For the ledger
  every archive of two statements from a menu that has each kind of overlap (two
  days or the same one, a trade confirmed and listed, trades and flows with and
  without an id), with two failures, so that a file fails twice or two fail once.
  For the lots three trades of one or two shares: a lot closed in part, two
  lots closed by one trade, a position turned around, and a price of 0.
* `requests`: for the caches three requests, two keys, one import that may
  amend, lifetimes of one tick and a clock of three: an answer can be as old as
  two lifetimes and one more. A request takes less than a tick, as requests take
  seconds and lifetimes a day. For the limiter three requests for one place in a
  window of two ticks; for the token two calls at a time, as three add no new
  overlap of a read with a write, and an expiry within one tick. Symmetry
  permutes requests, keys and threads; only safety is checked.
* `background`: for the task document three nodes, two of them parallel, and a
  log of four entries, which a run exceeds; for the report agents two runs, two
  dates and one restart; for the graph two runs in two seconds, with five nodes
  that fail (one of each kind of substitute) and one that raises; for the
  downloads one query, two jobs, three attempts and five thirds of a day, so that
  jobs overlap, follow each other on the next day, and codes expire.

Where a module stops because its bounded work is done, the deadlock check is
off; in `auto_decision` and `daily_loop` an action of its own (`Finished`, `AlertsEnd`)
stutters there and TLC still looks for deadlocks.

Each property of a passing run has a mutant in `PROJECT.json`: a changed
definition, kept in the module before the definition it changes, that makes
the property fail.

## 4. Fairness

Weak fairness of the steps of a thread that has begun, and of nothing else:

* `AgentTask`: the steps of owners, since threads are scheduled and the calls of
  an agent have timeouts; the second half of a guarded call.
* `DailyLoop`: `Advance`; every step of the loop ends, its calls having timeouts.
* `DailyLoopSchedule`, `ActionAlerts`, `FlexFetch`, `ReportAgents`, `TradeGraph`:
  the steps of a trigger, sender, job or run that was started.
* `TaskProgress`: the runner, and the start and the reports of each node. Weak
  fairness is enough for the lock, as its holder gives it back and a graph has
  finitely many reports.

No request, tick, failure, kill, restart or delivery is ever assumed to happen.
The liveness properties therefore say "... unless the thread died", with the
death named in the property. `MCDailyLoop` and `MCBackgroundJobs` state the
fairness of the parts whose endings they check, each guarded by its part. That runs of `AutoDecision`
end is shown without fairness, by the search for deadlocks: its steps
only lead forward.

## 5. What is proved

All safety properties that the passing runs check are proved, and so are both
refinements. The theorems hold for every value of the
constants that satisfies the ASSUMEs: any number of tasks, callers, triggers,
runs, symbols, senders, alerts, files, rows, passes, jobs, requests, keys and
threads, any window, budget, lifetime, limit and clock, any evidence and
answers, any nodes that fail or raise. The ASSUMEs give types (a number is
natural, a switch is Boolean, `NoNode` is no node, the requests of the limiter
are finitely many, shares and prices are whole), the range of what the code has already validated when
the model takes it (`CardsAssumption`, `OnePassAssumption`), one fact
about names: a user is not a synchronisation and not a loop (`ActorsAssumption`,
`ReviewAssumption`), and what the broker's ids mean: a transaction id is that of one
flow, and a fill is in one currency (`LedgerAssumption`). TLC evaluates all of them on the constants of the runs.

Few of these properties are inductive. The paragraphs say what had to be
added to them, which is the reason why each property holds.

### Tasks, loop, orchestrator

**AgentTaskProofs.** `TypeOK` is inductive together with
`CallsPassedTheirGuard`: the status in a call in flight is one that the guard
let through. That already proves `OutcomeOnlyLostToStaleCall`: a call that writes
over a terminal status it had read could only be an update of the progress,
which writes the same status. The other invariants need to know that the row of a
task that is only cancelled stays within what its owner's position allows:
`OwnerBoundsRow` says that it is
pending or cancelled before the first write, neither completed nor in
possession of a result before the last, and terminal after it. It is inductive,
together with the invariants it serves, because a cancellation writes only
"cancelled".

**DailyLoopProofs**, of the run: `DocInv` ties the document to the memory of the
run. Between writes the document's list is the memory's or one step shorter
(`ByPhase`), lists follow the step order, and links are those of the list. From
it follow type correctness and the refinement of `RunLifecycle`: `PatchProgress` and
`FinishRun` replace the whole list, so that they append exactly one record has
to come from `ByPhase`. The lemma `OverallFits` shows that `_overall_status`
fits the steps. `DecisionsHaveAScan` and `SuccessDidEverything` are then
inductive relative to `DocInv`, the latter using a lemma on what an honest list
(one in which a skipped step was not enabled) contains. `TaskInv` ties the task and its
graph to the phase (`TaskByPhase`): the nodes of the steps hold what the steps
reported, and the last node is pending until the steps are through
(`NodesByPhase`), so the inferred status is a success only in the phase before
`FinishRun`, and there no step has failed (`GraphForetells`); from there on the
status of the run decides (`SuccessIsClean`). Of the schedule: the strengthening is
`ClearStaysClear`, that for a trigger that has passed the check every active
scheduled run within the window it looked at was created after the check; of manual
triggers, which make no check whatever type they choose, it says nothing. It
survives because a run's status only ever goes from running to a terminal one
(`DriversOwnTheirRun`), so a run that did not count does not begin to. Of the alerts:
`KnownIsTaken` and `NeverFailed` say that an alert that was stored when a sender
began is pending or sent for ever, and so always skipped. With
`StoresUnknown` that gives idempotence, and with `UnmarkedIsMine` and
`AllMarked` the other two invariants.

**AutoDecisionProofs.** `SelectedWasNotRecent`: if an unforced run selected a
symbol, a completed item of that symbol that is older than the selection is
older by more than the window. It is stable, as items are completed at the
present time, which is not before any selection (`TimesHavePassed`), and with
`DecidesSelected` (only what was selected is decided) it implies
`RepeatsAreApart`. `EndedRunIsHonest` speaks of how many items have a status;
`ItemsFollowRun` says what an item may be in each phase of its run, and lemmas on
cardinalities turn that into the comparisons that `RunStatus` makes.

### Statements, universe, watchtower

**ImportsProofs**, of `FlexImport`: the two invariants say nothing of passes that
are under way. `RestIsLeft` adds, for a pass that is at a file which
was whole from the start, that a row of its statement is either still to be
written or in the database: when the pass marks the file nothing is left, so all
is stored, and `NothingIsLost` says that no write of another pass takes it away.
`ListedIsLeft`
adds, for each pass and each file its listings had, that the file is marked,
logged as failed, or still waiting, unless the pass is dead. A file that waits is of
the pattern listed last and not ahead of a smaller one that waits (`ListedInOrder`):
the file being marked is the smallest (`CurrentIsSmallest`, from the
well-foundedness of the naturals). So an older file that is not settled when a newer one
is marked either waits behind it (`BreaksOff`) or is in no listing of that pass,
although its pattern was listed (`Overtakes`); and both stay so until a pass that lists
the older file settles it (`GapStep`). A file saved
later cannot disturb this, because downloads are numbered upwards
(`SavesAreNumbered`) and a listing that is over keeps its number (`ListsStay`).

Of `Universe`: `ExclusionIsKept` is an action property. A synchronisation
writes a copy of a row that may be old; `CopiesAreOff` says that while a row is
off, a copy of it is either off too or known to be stale, because it was made of
the row as it is or the row has been edited since. Writing any copy then
keeps the exclusion or is one of the stale writes the property names.

Of `Watchtower`: `WatchInv` has four parts. Rows that are stored stay
(`RowsStayStored`); `ScanFinds` and `SelectRefuses` say for each reader that a
symbol which has not moved between its lists has been found if its kind has been
listed already; and every item carries the hint of its kind. The last needs the
rules: the lemma `ReasonsFit` goes through all ten of them,
and `GravestIsOne` shows that the item of several reasons is one of these.

Of `Fifo`: the lots and the queue of shares are related at every step, not
only between two trades. `FifoInv` says that the holding is level with the program
(`Level`), or has m shares yet to close, all of one price (`Closing`), or shares yet to
take of a lot just opened (`Opening`), or has nothing and is told to sell (`Refusing`).
What makes it inductive is that all lots and shares have one sign (`OfSign`), which for
a stock is the long one. `Fits` states the relation without recursion: some
numbering of the ends of the lots places every share in its lot, and one lemma for
each move says how the numbering moves. That the recursive function `UpTo`, in which
the property is stated, is such a numbering, and the only one, follows by least
counterexample (`UpToEnds`, `EndsAreUpTo`).

Of `Ledger`: the property compares the tables with `Replay`, an import of the
marked files without failures, and says nothing while a file is under way.
`LedgerInv` says at every step how far the two may be apart: `TablesFit(files, t, c, V, E)`
lets the tables t differ from the replay c only where one of the writes V goes, and asks
that the writes E be in effect in t. V are all writes of the files that were begun and
are not marked, E those already made of the file at hand. A write moves from V into E
(`WriteFits`: an upsert, a replacement, and the two ways of INSERT OR IGNORE); a failure
forgets E; and when a file is marked, E is all it has, so that importing it into the
replay makes the two agree wherever it writes (`FileIsIn`, `ImportFits`). That E stays in
effect needs that a statement never writes two rows of one day (`FilesAgree`). Trades are related
by their keys, as the first of two versions stays, and flows by what they list; at the end
`TradesAreSettled` and `KnownAreAsMany` turn that into equality for trades of one version
and into equal numbers of flows with an id. The recursions of `Imported` and `Replay` are
followed by least counterexample (`ImportedRuns`, `ReplayRuns`).

### Decisions

**TradeGraphProofs.** The refinement of `GraphRun` needs that a node which is
started by one of its predecessors is preceded by all of them. The module numbers
the levels of the graph, shows that every edge leads from one level to the next,
and that in every reachable state a superstep is one level and the nodes done are
exactly the levels before it (`SuperstepsAreLevels`). `NoNodeRunsTwice` and the
refinement follow. `NoFactsNoDecision` adds what the fields say when the first
node has failed (`FInv`): without the account facts there is no card pack, without
a card pack no decision. `AnswerIsTheRow` adds `TInv`, that the traces of a run
are one for each node done, and `RInv`, which follows the rows of a run from its
composed document to its answer: in every phase they are that document under an id
of the run's own, or another run was composed in the same second.

**TradeDecisionProofs**, of the graph's decision: the inductive invariant
(`DecisionHasItsOrigin`) only says that plan and decision are what the operators
make of the pack and an answer. The content is in the lemmas about the gate: one
for each rule says that an
addition leaving the rule was an addition entering it, which conditions it meets,
and that those met by earlier rules still hold. Chained in the order of
`Evaluate` they give `AddMeetsEveryRule`, whatever the two dozen rules in between
rewrite; the same chain shows that a strong addition is backed, that no rule
creates or strengthens an addition, and that only holders are told to leave.
`BrokenThesisIsLeft` has a chain of its own: what the rules on red fundamentals
and breakdowns have made a reduction no later rule takes back, and no sale they
make is blocked as panic. `ConfidenceIsEarned` combines the caps of the draft, of
the gate and of the composer with the count of fallbacks. `PlanMovesAsItSays`
follows from a case split on the sanitised action.

Of the one-pass decision: `OnePassTyped` says that the verdict is that of the gate
on the facts, cards and draft of the request. Lemmas for each rule of this
second gate (`OnePassRules`) give `PassedOnePass`, what holds of an addition it
lets through; `AddsAsTheGraphDoes` goes on from there: the pack with the same
evidence passes every rule of the *other* gate, in its order, with the same action
(`GraphAgrees`).

Of the portfolio review: `ReviewInv` collects the hypotheses of a report along the
loop. A scan is complete when it is handed on and stays so; a run of decisions has an
item for each symbol that requires one; each run has one writer (`Apart`,
`OwnRun`); what a loop has linked nobody writes any more (`Linked`). The queue
built from such a pair fits (`QueueFits`), also when it is cut at its limit.

### Background jobs and requests

**BackgroundJobsProofs.** Of `TaskProgress`: `OneWriter` says that the node in
the lock, or the runner when no node moves, holds a copy equal to the stored
document; so a save loses nothing, and `NodesAreShown` (the document shows each node
where its thread is) is inductive. `PollInv` says that the numbers in the log
rise and that what is appended is above every number given, through the cut
of the log; a client has seen all that is not above its cursor. Of `ReportAgents`:
`OnePush` counts, for a date whose runs did not meet in the notifier, one push for
each restart and one that is remembered or about to be; `PubInv` says that as
long as fetches of different dates have not overlapped, who stamps the cache has
filled it, and who is about to reuse it has compared its date. Of `FlexFetch`:
an invariant for each job and each query ties the file, the code and the position
of the job together, and excuses exactly what a second job at the same query or file,
or a kill, explains.

**RequestsProofs.** Of `QueryCache`: an invalidation first clears the answers
and then the cost bases, and others may do the same in between. The invariant says
of everything that is cached, or held by a request on its way, that it is as new as the
data the last invalidation left, or made of the reading of a request that this invalidation met
(`EntriesFit`, `HeldFits`), and of an invalidation that has cleared the
answers only, that whoever holds a reading, or has stored one in the answers since, is
in its `met` (`HalfHasMet`). A request that uses cached cost bases takes over
the readers of these, so the chain from one request to the next is covered without
being followed.
Of `RateLimiter`: a list that is held by no check and is not the client's is empty
(`ListsAreHeld`); a lone check's list is the client's and has only what is in the
window (`AloneKnows`); without any overlap every admitted request
is in the list or out of the window (`ListIsComplete`). Cardinalities then compare
the list with the window. Of `LongbridgeAuth`: `KnowsFile` says what a call knows
of the file as long as nobody else has written; `StoresGood` and `SdkFollows`
say that a token that is about to be stored is good, or another call stores after
it, and that the SDK's token is the file's or about to be.

### Only model-checked

* Liveness: `EveryTaskSettles`, `LoopEnds`, `SkippedForARunThatEnds`,
  `PendingIsSent`, `TaskEnds` and `JobEnds`. The prover does not reason about fairness.
* The three disagreements below, which TLC refutes.

## 6. Where code and documents disagree

Three disagreements are runs that TLC refutes:

* **Stress score.** `docs/docs/agents/risk-assessment.md:159` gives a worst case
  above 20% fifteen points; the code sums a column that its query does not select
  (`risk_assessment/agent.py:279`, `:131-136`), so every exposure is 0.
* **Decision ids.** `nodes.py:1471` says that the repository generates the id;
  the composer names a decision by the second (`trade_decision_composer.py:193`),
  and two of one second replace each other.
* **KeyError.** `cache.py:29` says `get` returns None for an expired entry; two
  threads that find it expired both delete it, and the second raises.

Others are stated in the modules as definitions that no run checks, because
TLC refutes them. Adding one to the invariants or properties of the run gives the
trace:

| Definition | Run | What is said, and what happens |
|---|---|---|
| `AgentTask!CancelledStaysCancelled` | `agent_task` | `agent_tasks.py:172` "Cancel a running agent task."; the owner never looks at the status and writes `running` and `completed` over it (`agent_services.py:198-208`). |
| `TaskProgress!StaleTasksAreFailed` | `background` | `mark_stale_tasks_failed` (`agent_task_repository.py:234`) has no caller at startup, and the `update_by_query` it uses is a stub (`es_client.py:149`): after a restart a task stays `running`. |
| `FlexFetch!FailureBlocksNobody` | `background`, with `NumQueries = 2` | `fetch_job.py:126` says that a failure of one query does not block others; a connection error is not a `FlexClientError` and leaves the loop. |
| `TradeDecision!FailedPlanAddsNothing` | `trade_decision` | "No new money is advised for now", says the skeleton plan; the composer's own draft then counts, and it may add. |
| `OnePassDecision!OnlyHoldersAreTold` | `trade_decision` | "Get current position for the symbol": the rows of the days on which a symbol was held stay, so one who sold it is told to reduce. |
| `OnePassDecision!FailSafeIsOfLowConfidence` | `trade_decision` | The cap on the confidence of a fail-safe result is reported and never applied. |
| `PortfolioReview!DecisionsAlwaysFit` | `trade_decision` | Without a run of its own a report links the latest run, of another scan; the message that a required decision is missing (`portfolio_review/service.py`) is then suppressed. |
| `RateLimiter!AllowsOr429` | `requests` | "Allow the request or raise HTTP 429." (`rate_limit.py:38`); when another check evicts the entry it raises KeyError. |
| `Watchtower!ExcludedIsNotDecided`, `RunsAreWhole` | `imports` | A symbol excluded all the while is decided on when a synchronisation makes it a holding again between two lists; a run is stored before its items. |
| `Watchtower!OnlyLargeGainsRequire` | `imports` | `scanner.py:197-207` takes a gain of up to 5 percent for a multiple, so 4% counts as 400%. |
| `Ledger!FlowsAreStoredOnce`, `EstimatesFillGaps`, `FilesCanBeImported` | `imports` | A flow without an id is stored at every attempt; an estimate outlives a value that is known when the statement without it comes last; a CSV file with a trade can only fail. |
| `Fifo!RealizedIsAnswered` | `imports` | Closed positions are left out of the answer (`fifo.py:117`), and `trade_service.py:127-128` sums the realized results of what it gets. |

The following were met while modelling. They are visible in the models as
behaviours the properties allow for, or concern code that is left out.

Tasks, loop and alerts:

* `update_progress` writes back the status it had read (`agent_services.py:295`),
  though it is documented as updating the progress field (`:283`).
* A run records seven steps; `ALL_STEPS` (`daily_loop/service.py:27`) has six.
* The progress graph of a run shows a success before the run is stored
  (`daily_loop/service.py:252-253`), and keeps it if the backend is killed in between.
* A manual request may ask for the type "scheduled" (`routes.py:229`,
  `schemas.py:9`), and no check for a run of the date is then made.
* A run document stays `running` when an exception leaves `run_daily_loop`, even
  though its task is then failed.
* Two triggers can pass the check together (`routes.py:287`), though both runs
  store `dedupe_checked`; and a run whose driver died keeps its date occupied
  (`schedule.py:10`), logged as "already ran today" (`portfolio_scheduler.py:124`).
* Overlapping senders can announce an alert twice (`action_alerts/service.py:62`),
  and a digest that is lost leaves its alerts `sent` (`:84`).

Trade decisions:

* `fallback_used` of a stored decision is always False on the graph's path; on the
  one-pass path it tells of the last answer only, and not of a sub-agent's.
* Rule 6b.5 (`trade_decision_risk_gate.py:380-384`) cannot fire: what it tests has
  been rewritten before. A plan that a panic blocked keeps its target.
* `agent_run_id`, `public_data_mode` and `mcp_enabled` are put into the graph's
  state, but its schema does not have them.
* One-pass: a failed account-fit agent does not stop an addition; a growth text on
  an extreme thesis gives a ratio of at most 1.33, which blocks every addition; the
  thesis's maximum is a fraction compared with a percentage; on a breakdown a
  draft "hold" becomes a reduction and "add" only `hold_no_add`; an action outside
  the vocabulary passes.
* Percentages of at most 1% are taken for fractions (`risk_assessment/agent.py:157`,
  and the exposure analyzer).

Portfolio review, evaluation and improvement:

* A required symbol whose automatic item was skipped (budget, duplicate) or dry is
  in no queue of the report; a completed item without a decision id leaves the
  queue (`decision_orchestrator/runner.py`, `str(document.get("id") or "")`).
* Missing positions count as healthy: with all data missing the score is 85 in a
  report whose status is failed.
* A label of an outcome can flip when the benchmark's prices arrive, as the
  relative result is 0 without them; SPY has prices only if it is held. An
  overlapping, older evaluation writes a definite label back to pending.
* The same prices can make an addition a "good_action" and a reduction
  "risk_avoided"; an item still "selected" is labelled inconclusive while its
  window is open; a symbol in both lists of a report writes two results with one
  id.
* Improvement patterns count pending results toward `min_sample`, the false-positive
  pattern lacks the condition its text names, and scan snapshots have no
  `trigger_reasons`, so "trigger:" groups never occur.

Statements, caches and clients:

* A short statement, once imported, hides the whole one that is downloaded under
  its name later (`import_job.py:161`).
* XML files are listed and imported before the CSV files are listed
  (`import_job.py:159-160`), so a statement that arrives meanwhile is left to the next
  pass, while a newer one of a later pattern is imported; nothing is logged.
* Importing all files again is called idempotent (`data-flow.md:230`), but can put
  an older statement's row over a newer one, as files go in the order of names.
* A daily schedule never resumes a saved code, which is dropped after eight hours
  (`flex_client.py:198`, against `:262`), and a code that is saved again gets a new
  age (`:276`, against `:197`).
* If the worker creates the database first, `trade_records` lacks `trade_id` until
  the backend migrates it.
* Equal fills of one day are merged into one record, and trades at price 0 never
  close lots (`fifo.py`).
* The freshness check compares the newest date and the number of account rows
  (`cache.py:138`), so it misses amended statements and the second half of an
  import (`deps.py:33` promises more).
* An answer can be two lifetimes old, as cached answers are computed from cached
  cost bases (`fifo.py:181`); `docs/docs/backend/config.md:111` says 24 hours.
* The key of a cached page of positions lacks `include_summary`
  (`position_service.py:60`).
* `call_tool` "never raises" (`longbridge_mcp_client.py:138-139`, `:189`), but
  `_authorization_header()` is called outside its try block.

## 7. What is not modelled

* **Numerical services, single-field conversion and transformers** are arithmetic
  and field mapping without interleaving; the transformers serve only the snapshot
  importer. What parsers yield is in `Ledger`, cost bases are in `Fifo`.
* **Evaluation of outcomes and improvement reports** compute a document from stored
  documents and bars in one call, with one thread; what reading them found is in
  the section above. **Exposure and health scores** of the portfolio review
  likewise, and so are the cards of concentration and themes of the **risk
  assessment**, which are sums of points for limits that are passed.
* **Evaluation of agents** cannot run as wired: `api/deps.py:141-152` returns a
  dictionary where the routes call a service, and the service calls its repository
  with arguments that the methods do not take.
* **Other agent graphs** have the shape of the trade decision graph, with nodes
  that only compute; the routes run the single-pass agents instead. **Copilot** is
  a loop of one request around the model and the queries. **Market data clients**
  are wrappers around services whose answers are arbitrary, and are inputs here.
* **Constitution**: one row of settings, edited by one administrator, that no rule
  of the selector or the watchtower tests.
* **Authentication, settings, frontend, deployment** keep no state with a protocol.
* **SQL** is modelled as atomic statements.

Within modelled components: texts, summaries and limitations of reports; integrity
checks after an import, which only log; the cache functions `invalidate(prefix)` and
`stats` and its decorator, which have no caller; gate rules of the one-pass decision
whose inputs this path never sets.

## 8. Plan

The order was: agent tasks, the daily loop with its abstract lifecycle, its
scheduling, the orchestrator, the alerts, then the worker's download and import
and the caches; after that the decision graph and its rules, the task documents,
the report agents, the universe and the watchtower, the rows of statements and
the cost basis, the limiter, the token, and the portfolio review. What would
add most from here:

1. Compositions with shared state instead of interfaces: `FlexFetch`, `FlexImport`
   and `QueryCache` over one archive (what a reader sees of a day's statement),
   and `DailyLoop` with `Watchtower` and `AutoDecision`.
2. The evaluation of outcomes: which label a result may move from and to when
   prices arrive between overlapping evaluations.
3. The other agent graphs, as instances of `GraphRun`.

Of proofs, no safety property of the runs is left.

## 9. Running it

    tlc -workers 2 -config MCAgentTask.cfg MCAgentTask.tla
    tlapm AgentTaskProofs.tla

`PROJECT.json` names the module and configuration of each run. The longest,
`imports` and `background`, take about two minutes.
