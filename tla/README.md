# A TLA+ model of the SMC/ICT trading research engine

The engine (`src/src/trading_research`, Python) fetches one-minute candles from
an exchange, evaluates a graph of technical indicators on them, stores the
resulting observations and decisions in SQLite, and sends notifications to
webhooks. It places no orders. A daemon runs it on a cron schedule in a
container; an operator can run it, fill the candle store or replay the past by
hand at the same time, over the same data folder.

This directory models the part of the program that is hard to test: several
processes over one SQLite file and one lock file, children that hang or die, a
daemon that interrupts them from two threads, webhooks whose answers get lost,
exchanges that answer short, late or differently the second time, two backtests
that publish one result, and indicators that scan a moving window anew every minute
and keep of it a few short lists.

Contents: [the system](#1-the-system), [the modules](#2-the-modules),
[how the modules read the code](#3-from-code-to-model),
[the runs](#4-what-is-model-checked), [fairness](#5-fairness),
[findings](#6-where-the-documentation-and-the-code-disagree),
[the proofs](#7-what-is-proved), [what is left out](#8-what-is-not-modelled),
[the plan](#9-plan).

To repeat it: `tlc -config Scheduler.cfg MCScheduler.tla` (and the like, section
4), `tlapm SchedulerProofs.tla` (and the like, section 7). `PROJECT.json` lists the runs, the lines each
definition models, the hazards and a faulty variant of the code for each
property.

## 1. The system

| component | source (under `src/src/trading_research`) | state it keeps | operations |
|---|---|---|---|
| run repository | `adapters/persistence/sqlite.py` | tables `runs`, `observations`, `decisions`, `candles_1m`, `sync_state`, `notification_deduplication` | `store_run`, `commit_run`, `finish_run`, `recover_running_runs`, scheduler attempts, `store_candle_page`, delivery outcomes, migration, snapshot |
| engine run | `application/runtime.py`, `composition/runtime_services.py` | the process lock, one row in `runs` | `EngineRunner.run`: lock, synchronize, open the row, analyse, commit or fail, notify, unlock |
| scheduler daemon | `application/scheduler.py`, `cli.py` | attempt sequence, job threads of APScheduler, attempt rows, readiness marker | start (recovery), fire, overlap event, shutdown on a signal |
| managed child | `_ManagedSubprocessOperation` in `composition/runtime_services.py` | `_process`, `_interruption`, `_stop_lock` | call, time out, shutdown, `_interrupt`, reconcile, read the child's receipt |
| notification router | `application/notifications.py` | queue and deadline per destination; durable deduplication | `deliver`, `deliver_all`, `close` |
| webhook adapters | `adapters/notifications/*.py` | none | render, POST, retry |
| candle synchronization | `application/market_sync.py`, `historical_sync.py` | rows of `candles_1m`, `sync_state` | find gaps, fetch and store page by page, verify |
| exchange adapters | `adapters/market_data/*.py` | none | one page of candles, retries |
| execution simulator | `application/execution_simulator.py` | pending, open and closed trades | accept a decision, process a candle |
| backtest command | `run_backtest` in `composition/runtime_services.py` | the process lock, a temporary copy of the database | lock, synchronize, unlock, copy, replay, simulate, publish |
| replay, resampling | `application/backtesting.py`, `resampling.py` | none: a range of stored minutes in, a list of evaluations out | required range, minutes to evaluate, bars of each role up to a minute |
| report publisher | `adapters/reporting/jsonl.py` | a staging directory, the result directories | stage, flush, check, rename, link, or compare with what is there |
| indicators | `indicators/smc.py`, `ict.py`, `risk.py`, `base.py` | none (each evaluation scans the closed candles) | swing structure, equal levels, order blocks; liquidity clusters, market structure, fair value gaps; risk levels |
| graph, evidence, policy | `application/graph.py`, `evidence.py`, `decision_policy.py` | none | validate, order, evaluate, check the evidence, decide, trace |
| metrics | `application/metrics.py` | none | ratios of a list of trades |
| configuration, domain values, provenance, CLI | `configuration/*`, `domain/*`, `provenance.py`, `cli.py` | none | parse and validate |

Interactions:

- The daemon starts `trading-research run` as a child per fire and waits for its
  receipt on standard output. Daemon, children and runs started by hand share
  the SQLite file and `engine.lock`, an advisory lock (`flock`) taken without
  waiting and released by process death.
- The daemon takes the lock too: at its start for recovery and after every
  interruption for reconciliation.
- An engine run synchronizes candles, stores evidence and then notifies, all
  while it holds the lock; the final flush of the router comes after it.
- `market-data sync-range` and backtests write candles under the same lock. All
  three go through `HistoricalRangeSyncService`, whose repository adapter hides
  `sync_state` from the loader: `sync_state` is written with every page and
  read by nobody.

Behaviours that are hard, and what correctness means there:

- *Death at any point.* A row must end RUNNING, SUCCEEDED with all its evidence,
  or FAILED with none; a restart must fail every stale row and none that a live
  process executes.
- *Interruption from two threads.* The worker thread times out while the main
  thread shuts down; both may stop, wait for and reconcile the same child. The
  attempt must settle, with a reason that fits.
- *A shared table.* Engine rows and attempt rows live in `runs`;
  reconciliation after the time-out of one job must not touch the attempts of
  the scheduler or the run of another job.
- *A clock that steps back.* A CHECK constraint refuses `completed_at` before
  `started_at`; a row may then stay RUNNING, but never in contradiction to the
  receipt.
- *Delivery at least once.* A message may arrive although its answer was lost;
  the order, the batches, the deduplication window and the account of every
  event must hold all the same.
- *Partial pages.* The two adapters decide differently that a range is complete
  and page in opposite directions; a sync may die between two pages. Stored
  candles must never be fetched again (the exchange may have revised them, and
  the run would end with SOURCE_CONFLICT), and every gap must be filled in the
  end.
- *One candle, several events.* Entry, stop, target and time-out of a simulated
  trade can fall on one candle; the order of the tests decides the result, which
  must depend on nothing but the candles after the decision.
- *Two publishers of one result.* Both may find no result and both may rename;
  a process or the machine may die in between, and somebody may edit a result
  that is compared. A result must appear once and whole, and whoever says that it is
  there must be right, even after a power failure.
- *Two ways to the same bars.* The engine loads a window for the latest minute,
  the replay cuts its bars out of one long range. Both must see the same
  complete bars and nothing that had not closed.
- *Scans that forget.* The indicators keep short lists (a zigzag of pivots, zones,
  gaps, the latest few blocks) and drop, merge and cut their members. What is
  left must be what a definition over the whole window says.
- *Windows that move on.* The next evaluation begins `history_minutes` before its own
  minute and scans all of it anew; the oldest candles have left. Nothing is kept of the scan
  before, so that an event may be withdrawn or renamed although no candle changed. What
  is an event of the market rather than of the window must come out the same.
- *Answers that depend on answers.* A plugin may fail, be unavailable, or answer
  with a time from the future; nothing that rests on such an answer may pass for evidence.

`PROJECT.json` has the full list of hazards with their lines.

## 2. The modules

```
RunStore  <-  EngineProcess  <-  Scheduler  <-  SchedulerInvariant  <-  SchedulerProofs
                                     |                  ^
                                     | INSTANCE         MCScheduler
                                     v
                                RunLifecycle

NotificationRouter  <-  MCNotificationRouter, RouterProofs       CandleSync  <-  CandleProofs

Observations  <-  IndicatorBase  <-  SmcStructure                <-  Indicators  <-  MCIndicators
      ^                          <-  IctStructure <- RiskLevels  <-      ^
      |                                                                  IndicatorInvariant  <-  IndicatorProofs
      |
      +--------  IndicatorGraph  <-  MCIndicatorGraph, GraphProofs

Replay  <-  Backtest  <-  MCBacktest, BacktestProofs       ExecutionSimulator  <-  MCExecutionSimulator,
               | INSTANCE                                                          SimulatorProofs
               v
          Publication

Basics  <-  CandleProofs, RouterProofs, BacktestProofs, GraphProofs, IndicatorInvariant
```

- `RunStore`: the `runs` table and the evidence that refers to it. Every
  repository operation is one transaction, given by a guard (`CanStore`,
  `CanFinish`, `CanCommit`) and an action.
- `EngineProcess`: any number of processes inside `run_once` and
  `EngineRunner.run`, the lock, and death.
- `Scheduler`: the daemon. Worker threads, managed children, time-outs, shutdown,
  recovery, overlap events, runs an operator starts, crashes, the clock.
- `RunLifecycle`: the abstract specification of what a reader of the table may
  rely on: a row is opened by one party that holds it; only the holder completes
  it; evidence comes with success; recovery fails only rows nobody holds.
  `Scheduler` implements it, with the parties' local state as the mapping of
  `held` (`HeldRows`).
- `SchedulerInvariant`: the inductive invariant `IInv`; `SchedulerProofs`: the
  theorems about it and the refinement of `RunLifecycle`; `MCScheduler`: symmetry for
  TLC.
- `NotificationRouter`: one process of the engine with its router and adapters,
  and the durable deduplication state that survives it. `EngineProcess`
  represents it by the outcome it reports (`Notified`, `Exit`). `RouterProofs`:
  its theorems.
- `CandleSync`: the candle store of one instrument, the exchange, and all
  processes that fill it. `EngineProcess` represents it by success or failure
  (`OpenRun`, `RunAborts`). `CandleProofs`: its theorems.
- `Observations`: what a plugin answers with, and what it makes of the answers
  it depends on.
- `IndicatorBase`: the closed candles of a role, the window that moves over them and the
  average true range, which all plugins share. `SmcStructure` and `IctStructure` are the three SMC and the three
  ICT plugins, `RiskLevels` the seventh, which has no scan of its own.
  `Indicators` runs them over one window after the other and defines what each must
  answer without a loop; `MCIndicators`: candles for TLC; `IndicatorInvariant`: what the
  scans keep; `IndicatorProofs`: the theorems.
- `IndicatorGraph`: validation, order and evaluation of every graph over a few nodes,
  the policy and the trace; a plugin's answer is free there. `MCIndicatorGraph`:
  its instance; `GraphProofs`: its theorems.
- `Replay`: which minutes a backtest needs and evaluates and which bars each role
  sees, as operators on ranges of minutes, beside those of the engine.
- `Backtest`: any number of backtest commands beside an engine, over one candle
  store and one results directory. `Publication`: what a reader of the results may
  rely on; `Backtest` implements it with the directory under a result's final
  name as `shown`. `MCBacktest`: periods and symmetry; `BacktestProofs`: the
  theorems.
- `ExecutionSimulator`: the loop of the simulator over the candles of one
  instrument, statement by statement, and the accounts of a trade;
  `MCExecutionSimulator`: candles and decisions for TLC; `SimulatorProofs`: its
  theorems. It shares no state with the other modules: a backtest is offline
  once it has its copy of the candles, so `Backtest` represents it by success or
  failure (`Simulate`).
- `Basics`: facts about sets of natural numbers, their least and greatest
  elements, multiples and induction, and about lists that grow or are ordered by time,
  which the proofs of five components cite.

Some operators are used by no action: `RecoverAnyway`, `NotWaiting`,
`TrustsAdapter`, `StaleOrFinished`, `ContradictsAnyTime` and others beside the definition
they differ from. They are that definition with a plausible bug. `PROJECT.json`
("mutants") pairs each with the property that exposes it: with the faulty
definition in place of the right one, TLC finds the property violated.

## 3. From code to model

**Run store.** `runs[id]` is the row; the digest that identifies a run is a model
value of `RunIds`, chosen when the row is opened, since the same work repeated within a
minute has the same identity. An attempt is identified by job, start time and
sequence, as in `start_scheduler_attempt`. `store_run` accepts an identical row;
`finish_run` accepts an identical terminal row and otherwise needs a RUNNING
one; the CHECK on `completed_at_ms` is the conjunct `started <= t`. Times other than
start and completion, and texts of errors except their category, are left out.

**Engine process.** Each `pc` is a stretch of code between two effects others
can see. `Leave` is every exit of `EngineRunner.run`: the lock is released and a
receipt is on its way. `SkipOverlap` is the refused lock; `RunAborts` everything
that raises before the row is open; `AnalysisFails` then `MarkFailed` the
exception handler, which may raise itself (`MarkFailedRaises`). `Exit` may turn
SUCCEEDED into SUCCEEDED_WITH_WARNINGS, the final flush of the router included.

**Scheduler.** `thread[j]` is the position of a worker thread in `_run_job` and
in the operation's `__call__`. The window between `Popen` and the assignment of
`_process` is a state of its own (`popened`), as is the one between the expiry
of `communicate` and the entry of `_interrupt` (`expired`). `_stop_lock` is
`stopBy`; `_interrupt` is split at the death of the child, at the lock, and at
the recovery, because other processes can come in between. Two threads in
`communicate()` of one process: when the child dies either may find the pipes
closed and raise, so `StopOnShutdown` has the three outcomes. `Boot` and
`Recover` are the startup recovery under the lock; `Down` needs all workers
idle (`shutdown(wait=True)`).
A signalled child is taken to die at once: it does not handle SIGTERM, and
`_interrupt` kills it after the grace time. A trigger that APScheduler handles
while shutdown pauses it counts as fired before. `RetryPolicy(1, ())` is the
only policy the daemon builds, so a job has one attempt. When an interruption
itself is killed or storage refuses to answer, this is the daemon's crash; other
failures of storage are not modelled.

**Router.** An event is its position in `Script`, the sequence in which the engine
hands it over; type, deduplication key and closed bar are what the router
distinguishes. `stage` names where `_deliver_to_destination`, `_flush_destination`
and `_deliver_batch` stand; one POST is one action with the outcomes accepted,
refused, unclear (it may have arrived) and an exception nobody catches. A repeated
run is a fresh process given the same events. The clock moves forward only, and
the two clock readings around one flush are taken together.

**Candles.** One instrument; the content of a candle is the number of its revisions;
time is in minutes. `Rows` is what an exchange answers to the query each adapter
builds (Binance upwards from the start, OKX downwards from the end and beyond the
start), at most `PageLimit` rows and possibly fewer. `PageEnds` and `Remaining` are the
adapters' judgement; `PageIsSound`, `RangeIsWhole` and `Advanced` are the service's
and the store's. HTTP retries and undecodable answers are one failure
(`FetchFails`). A row the exchange revises between two fetches is stored with its
revision; comparing happens in `Clashes`.

**Simulator.** `stage` is the statement of the loop in `_run_instrument`; each
test is an action. A decision is its hash: the hash covers levels and evidence
but not the time of the evaluation, so a setup that persists is the same decision
at the next bar. Candles are any OHLC values that keep the order `ClosedCandle`
demands, levels any that pass the risk indicator (stop and target on either side of the
entry). `path` is a history variable, from which `TradesMatchDefinition` tells
the trade over again without a loop. Prices are exact numbers: the 28 digits of
the decimal context are not modelled, nor are the ratios derived from gross and
net. The configuration does not bound fee and slippage; the model takes them as
at most 100 percent. An entry that still waits at the end of the data is recorded as
`ENTRY_EXPIRED`, as in the code.

**Indicators.** A plugin scans all closed candles of its role at every evaluation. The
modules read the window one candle per step (`ReadsBar`), so that a state
is the plugin's answer for a window that ends there. Between two evaluations the window
moves on (`Slide`): its oldest candles leave, the scan's state is what it is before the first
candle, and the candles that stay are read again (`former`) before those that closed since.
Only what was reported is remembered (`reported`), which the program has in its database and
no scan reads. A window has `WindowBars` candles, or one fewer: a role whose bars are longer
than a minute loses the bar that is incomplete at either end. Prices are
numbers on a grid, averages and thresholds exact fractions (numerator and
denominator, multiplied out in comparisons); the 28 digits of the decimal context are not
modelled. A time is the position of the candle that closes then. High and low,
bullish and bearish are one operator over `kind`, as the plugins' mirrored branches
do the same. Fields that no other plugin and no property reads (explanations,
prices that are only displayed) are left out. The operators were compared with the
functions of the repository on 43,690 histories of up to seven candles, in two
configurations; there was no difference in what both report.

**Graph, evidence and policy.** Initial states are all graphs over the nodes, with
self-loops, cycles and a dependency nobody is. `ResolveGeneration` is a round of the
topological sort, `Evaluate` one node with the check of its evidence, `Decide` the
ordered walk of the policy under any configuration of signals, with the gates the
replay derives from it. A plugin whose dependencies allow an answer may give any.

**Replay.** A minute is numbered by its open time and a bar by its first minute;
`Complete` is what resampling answers for a set of stored minutes. `LiveBars` is what the
engine loads, `Required`, `Schedule` and `Seen` what the replay does.

**Backtest.** Each `pc` is a step of `run_backtest` and of `publish`: two commands
meet in the lock, in the candle store and in the results directory. A
directory is the names of its artifacts and whether it has been flushed. The
identity of a backtest hashes configuration, code and candles; the first two are
fixed and candles never change once stored, so that the period stands for it.
`PowerFails` keeps what was flushed: of a result whose entry in its parent was not,
any subset may be lost. `Edit` is a person who changes a published file. Exceptions may
come from every step and run the exits of the `with` blocks (`Raises`).

## 4. What is model-checked

| run | module, config | question | bounds |
|---|---|---|---|
| `scheduler` | MCScheduler, Scheduler.cfg | safety of the whole scheduler system, restart and graceful exit, refinement of `RunLifecycle` | 1 job, 2 processes, 1 run identity, 2 attempts, 1 manual run, 1 death, clock at rest |
| `scheduler_liveness` | MCScheduler, SchedulerLiveness.cfg | attempts settle, a shutdown ends | 2 clock values, 1 attempt, no manual run, 1 death, no symmetry |
| `notification_router` | MCNotificationRouter, NotificationRouter.cfg | order, batches, deduplication with crashes and a moving clock | 1 destination, 2 keys, 2 bars, up to 2 results, 2 retries, 1 crash, window 2 of 3 clock values (2,078,580 states) |
| `notification_fan_out` | MCNotificationRouter, NotificationFanOut.cfg | every event is accounted for, the calls end | 2 destinations with different subscriptions, 1 bar, no crash (385,270 states) |
| `candle_sync` | CandleSync, CandleSync.cfg | no clash, whole ranges, no hole jumped, windows fill | 2 processes, both adapters, 4 minutes, window 3, page 2, 1 revision, 1 crash, 1 range by hand (127,712 states) |
| `execution_simulator` | MCExecutionSimulator, ExecutionSimulator.cfg | each trade is what its definition says; no decision trades twice; results are bounded | 9 candles of 11 shapes around the levels, 3 decisions in both directions, bars of 2 minutes, expiry 1 bar, holding 3 minutes |
| `indicators` | MCIndicators, Indicators.cfg | each scan finds what its definition over the whole window says, setups are in order, gaps outlive the window they were reported in | windows of 9 (or 8) candles that move on by 1 or 2, three families of histories, lists of length 1 (106,917 states) |
| `indicator_graph` | MCIndicatorGraph, IndicatorGraph.cfg | order, failure and decision for every graph and configuration of signals | 3 nodes and a missing one, 2 configured orders, answers known now or later (464,672 states) |
| `backtest` | MCBacktest, Backtest.cfg | two publishers, what an exception leaves behind, what a replay sees | 2 commands, 4 periods, bars of 2 and 3 minutes, history 4, minutes 8 and 9, 2 deaths or power failures, 1 edit (135,125 states) |
| `stopped_run` | MCScheduler, StoppedRun.cfg | finding, section 6 | 1 job, 2 processes, 1 attempt, 1 manual run, no death |
| `failure_isolated` | MCNotificationRouter, FailureIsolated.cfg | finding, section 6 | 2 destinations, 1 result |
| `backtest_timeframe` | MCBacktest, BacktestTimeframe.cfg | finding, section 6 | as `backtest`, no fault, no edit |

Why these bounds are enough to be interesting:

- *Two processes* are the child of a job and a competitor for the lock: the
  operator's run or an orphan of a daemon that crashed. Slots are reused
  (`Reap`, `EndsJob`), so more than two processes live in a behaviour. Two jobs and a clock
  that steps are covered by the proofs.
- *One run identity* makes two processes of one minute meet the same row, which
  is the case in which a row could be reopened or finished twice.
- *One death* is a crash of the daemon or a kill of any process, and boots and
  shutdowns are free, so every two-life history up to two attempts is covered.
- *Two results of two bars with a queue of two* fill a queue, pass a deadline,
  change the bar and meet their own key again; the window is shorter than the
  clock's range, so both sides of it occur.
- *Four minutes, a window of three, pages of two*: a range needs more than one
  page in both directions, gaps can lie below, above and between stored minutes,
  and a single range asked for by an operator can leave a hole before the window.
- *Nine candles, bars of two minutes* (simulator): a first trade can expire, time out or be
  closed and a second one follow, with the same decision made again in between.
  The shapes include gaps over a stop, a candle through all levels and their
  mirror images for the other direction.
- *Three families of histories* (indicators): sequences of a few shapes and their mirror
  images, in which every scan meets pivots of both kinds, ties, merged gaps and a
  full list; and the neighbourhood of one script that leads through a whole setup
  (cluster, sweep, break, gap, levels), with a sweep that comes too late among its
  variants; and a script of peaks in which two zones are drawn over one oldest pivot with
  another between them. Lists hold one member, so that every cut happens.
- *Windows that move on by one or two candles*: the candle that leaves may be one that made a
  gap, one before it or none of either. Only windows whose later candles repeat every third
  are moved on (`MCMaySlide`), and what follows them is free; gaps of both
  directions, merged runs and gaps that are filled after the move occur.
- *Three nodes* have every shape of dependency a fourth would repeat: a chain, a fork, a
  join, a cycle with a tail. The policy's walk tells a first, a later and a last signal apart.
- *Four periods* (backtest): two overlap and share minutes, one begins before its
  history, one has the timeframe that fails; bars of two and three minutes make
  roles disagree on which minute closes a bar. Two faults let a second publisher
  meet what a first one left when the power failed.

Symmetry is used only in runs without liveness properties: processes, run
identities and jobs in `MCScheduler`, deduplication keys in
`MCNotificationRouter`, commands in `MCBacktest`. Deadlock checking is off where the
system may stop: the scheduler's bounds on attempts and faults are used up, the
router has closed, the data has ended, the decision is made, or every command
has returned. `CandleSync` is checked for deadlock.

Properties that took several steps or actors to violate, for each of which a faulty
variant of the code is known to break it:

- `WriterHoldsLock`, `ExecutedRunStaysRunning`, `AttemptSurvives`: recovery and
  reconciliation never hit work in progress.
- `ReceiptTellsRow`, `SuccessIsBacked`, `EvidenceIsAtomic`,
  `TerminalRowsAreFinal`: what is reported and what is stored agree for ever.
- `RestartLeavesNoStaleRow`, `GracefulExitSettlesAttempts`,
  `TimeoutNamesReason`: what a restart, a shutdown and a time-out leave behind; an attempt
  reports a time-out or a shutdown exactly when its own child was stopped for it (or fails
  bare, when both threads stop one child).
- `ImplementsLifecycle`, `ImplementsPublication`: refinement of `RunLifecycle` and
  of `Publication`.
- `AttemptsSettle`, `ShutdownCompletes`, `RunCloses`, `WindowFills`: liveness.
- `OrderKept`, `BatchesAreUniform`, `RecordedWasReceived`, `NoRepeatInWindow`,
  `NoEventVanishes`: the router.
- `RevisionsNeverClash`, `FinishedRangeIsWhole`, `SyncStateSkipsNoGap`: candles.
- `TradesMatchDefinition`, `NoDecisionTwice`, `ResultsAreBounded`: the simulator.
- `PivotsMatchDefinition`, `BlocksMatchDefinition`, `BreaksFollowTrend`,
  `GapsMatchDefinition`: what a scan keeps is what quantifiers over the whole window
  select. `ZonesTellTheirSweep`: a swept zone names the candle that swept it, and of two
  successive zones of a side over one oldest pivot the older was swept before the other.
  `GapsOutliveTheWindow`: two scans of two windows tell the gaps they share alike.
  `EvidenceIsKnown`, `SetupIsInOrder`: no answer before its time; levels rest on a swept
  cluster, the latest break and an open gap, and on news from after the sweep.
- `OrderIsDetermined`, `FailsClosed`, `DecisionIsJustified`: the order follows from the
  graph alone; nothing that rests on a failed answer passes; a decision is READY exactly when
  all its required signals and all they rest on passed and give the levels asked of them, and
  then the trace rejects nothing. Direction is no part of it: neither the graph nor the policy
  compares any, so that every answer of `IndicatorGraph` has None.
- `OnlyCrashesLitter`, `ReplaySeesLiveBars`: no directory or lock is left but by a
  killed command; the replay sees what a live run would have seen.

`RestartLeavesNoStaleRow` is checked with a clock at rest and proved for one that may
move on but does not step back: recovery passes over rows that start in its future.
`TypeOK` and `IInv` of the modules with proofs, `OneTradeAtATime` and `CostsNeverPay`
are proved (section 7) and in no run; TLC checks them when they are added to the cfg, as was
done before they were proved. (`IInv` needs the proof module's definitions in the MC module.)

## 5. Fairness

- *Scheduler.* Weak fairness on each worker thread, each step of `_interrupt`,
  the main thread and the daemon's boot: threads are scheduled by the operating
  system, and Docker restarts the daemon (`restart: unless-stopped` in
  `compose.yaml`). Weak fairness on processes nobody watches: their network and
  database calls have timeouts. A watched child may hang for ever; the time-out
  of `communicate` is a step of the worker thread. No fairness for triggers,
  signals, operators, deaths and the clock.
- *Router.* Weak fairness on the process' own steps: sockets and the database
  have timeouts and retries are bounded. None for the clock or for crashes.
- *Candles.* The exchange publishes every closed minute in the end (weak). Runs
  are started again and again, and a run that may always try again gets a full
  answer in the end (strong fairness on `BeginRun` and on a full `Fetch`): the
  scheduler fires every interval, and retries make a permanent failure an outage
  of the exchange, for which nothing is promised.
- *Simulator, indicators, graph, backtest.* None: their properties are safety. A
  backtest is started by hand and promises nothing about its end.

## 6. Where the documentation and the code disagree

Shown by a run:

1. `StoppedRunCarriesReason` (`stopped_run`). `docs/troubleshooting.md:24` says
   that after MAXIMUM_RUNTIME the run "must have `FAILED` status and the same
   bounded reason". Two things may come out instead. A child that has committed is
   still notifying when its time is up: it is stopped, reconciliation finds no row that
   is RUNNING, and the attempt is MAXIMUM_RUNTIME over a SUCCEEDED row. This is the
   trace TLC finds, the shortest, and no other run takes part in it. And one step longer: the child has not
   committed, but another run takes the lock between its death and the reconciliation, which
   does not wait; the row stays RUNNING until a later restart or interruption fails it for a
   reason of its own.
2. `FailureIsIsolated` (`failure_isolated`). `README.md:243` says that a failed
   destination does not prevent another from receiving the event. An answer that
   is not HTTP raises `http.client.HTTPException`, which is caught neither by the
   adapter nor by the router, and the destinations behind it get nothing.
3. `ConfiguredTimeframeRuns` (`backtest_timeframe`). `README.md:149` and
   `docs/operations.md:140` say to run the checked-in scenario. Its strategy executes on
   15m, which `_timeframe_minutes` (`runtime_services.py:223`) does not know: the
   command raises after it has synchronized, copied and replayed its year.

Stated in `Scheduler`, without a run of their own:

- `ShutdownStopsChild`. `docs/operations.md:130` promises that shutdown terminates an
  active child. A shutdown between `Popen` and the assignment of `_process` sees no
  child and waits for it to end by itself or by its maximum runtime.
  (`ShutdownCompletes` holds: it does end.) To see it, put it in the place of the
  invariant of `StoppedRun.cfg`.
- `InterruptionNamesOwnRun`. The only recovered row is taken for the child's
  (`runtime_services.py:424`), also when a killed manual run left it. The same, with
  `MaxFaults = 1`.

Met while modelling, worth a comment in the code:

- A role of the replay may have one bar more than the live run, the one that
  straddles the beginning of the history (`ReplaySeesLiveBars` says so).
- `EXISTING_IDENTICAL` may be answered before the publisher of that result has flushed the
  entry; a power failure may then take it. A publisher that fails in this last flush
  raises although its result is there.
- With the volatility filter an order block may have its low above its high.
- "The sweep comes before the gap" compares the times at which they became known; the
  candles of the gap may be older than the sweep (`SetupIsInOrder` is about known times).
- The margin puts the stop behind the swept extreme, while entry and target are only held
  against the stop: when the margin is wide, both may lie behind that extreme as well (an
  attempt to prove the contrary led to the histories where they do).
- `_liquidity_zones` compares a new cluster with the latest zone of its side only. Two zones
  over one oldest pivot may therefore be open at once when a third was drawn between them
  (an attempt to prove the contrary led to the third family of histories).
- What a past candle is reported as may change from one evaluation to the next although no candle
  changed, because the window of `history_minutes` begins elsewhere: a pivot or a break is
  withdrawn when the leg it turned is no longer there, a change of character becomes a break of
  structure when the break before it has left, and a shift, an equal level, a block or a zone
  depends on the first leg, the first point and the seed of the average. A long history makes this
  rare, not impossible, and rows of successive runs should not be read as one list of events.
  Gaps are free of it (`GapsOutliveTheWindow`), as long as the bars that made them, or with the
  displacement filter those of its average, are in the window.
- The trace shows PASS for a failed signal that was not required.
- The branch of `dependency_problem` for evidence from the future is not reached
  inside the graph, which has raised by then.
- An entry still waiting at the end of the data is reported as `ENTRY_EXPIRED`.
- The router empties a queue before it reads the deduplication state; when that read
  fails the events are lost.
- `sync_state` is written with every page and read by nobody.

## 7. What is proved

With TLAPS, for every value of the constants that the modules' assumptions allow
(identities of different kinds differ, None values are none of the values, sets that are
counted are finite, bounds are natural numbers, the nodes of a graph are numbers as their
IDs are ordered, a period starts before it ends):

| theorem | module | statement |
|---|---|---|
| `Invariance`, `TypeCorrect` | SchedulerProofs | `Spec => []IInv`, `Spec => []TypeOK` |
| `MutualExclusion` | SchedulerProofs | `Spec => []WriterHoldsLock` |
| `ExecutedRunIsSafe` | SchedulerProofs | `Spec => []ExecutedRunStaysRunning` |
| `AttemptIsSafe` | SchedulerProofs | `Spec => []AttemptSurvives` |
| `EvidenceIsSafe` | SchedulerProofs | `Spec => []EvidenceIsAtomic` |
| `ReceiptsAreTrue` | SchedulerProofs | `Spec => []ReceiptTellsRow` |
| `SuccessesAreBacked` | SchedulerProofs | `Spec => []SuccessIsBacked` |
| `TerminalRowsStayFinal` | SchedulerProofs | `Spec => TerminalRowsAreFinal` |
| `TimeoutIsNamed` | SchedulerProofs | `Spec => []TimeoutNamesReason` |
| `RestartIsClean` | SchedulerProofs | `Spec => RestartLeavesNoStaleRow`, if `~ClockMayStepBack` |
| `GracefulExitIsClean` | SchedulerProofs | `Spec => GracefulExitSettlesAttempts`, if `~ClockMayStepBack` |
| `LifecycleIsKept` | SchedulerProofs | `Spec => ImplementsLifecycle` |
| `Invariance`, `TypeCorrect` | CandleProofs | `Spec => []IInv`, `Spec => []TypeOK` |
| `StoredIsNotRefetched` | CandleProofs | `Spec => []RevisionsNeverClash` |
| `SyncedRangeIsWhole` | CandleProofs | `Spec => []FinishedRangeIsWhole` |
| `PrefixIsWhole` | CandleProofs | `Spec => SyncStateSkipsNoGap` |
| `Invariance`, `TypeCorrect` | RouterProofs | `Spec => []IInv`, `Spec => []TypeOK` |
| `OrderIsKept` | RouterProofs | `Spec => []OrderKept` |
| `UniformBatches` | RouterProofs | `Spec => []BatchesAreUniform` |
| `SuppressionIsEarned` | RouterProofs | `Spec => []RecordedWasReceived` |
| `NothingVanishes` | RouterProofs | `Spec => []NoEventVanishes` |
| `NoRepeat` | RouterProofs | `Spec => NoRepeatInWindow` |
| `Invariance`, `TypeCorrect` | SimulatorProofs | `Spec => []IInv`, `Spec => []TypeOK` |
| `Exclusion` | SimulatorProofs | `Spec => []OneTradeAtATime` |
| `DecisionsTradeOnce` | SimulatorProofs | `Spec => []NoDecisionTwice` |
| `ResultsBounded` | SimulatorProofs | `Spec => []ResultsAreBounded` |
| `CostsOnlyTake` | SimulatorProofs | `Spec => []CostsNeverPay` |
| `TradesAreDefined` | SimulatorProofs | `Spec => []TradesMatchDefinition` |
| `Invariance`, `TypeCorrect` | GraphProofs | `Spec => []IInv`, `Spec => []TypeOK` |
| `OrderDetermined` | GraphProofs | `Spec => []OrderIsDetermined` |
| `FailureIsPassedOn` | GraphProofs | `Spec => []FailsClosed` |
| `DecisionRests` | GraphProofs | `Spec => []DecisionIsJustified` |
| `Invariance` | BacktestProofs | `Spec => []IInv` |
| `NothingIsLeft` | BacktestProofs | `Spec => []OnlyCrashesLitter` |
| `PublicationIsKept` | BacktestProofs | `Spec => ImplementsPublication` |
| `ReplayIsFair` | BacktestProofs | `Spec => []ReplaySeesLiveBars` |
| `GapsAreDefined` | IndicatorProofs | `Spec => []GapsMatchDefinition` |
| `ZonesAreTold` | IndicatorProofs | `Spec => []ZonesTellTheirSweep` |
| `GapsOutlive` | IndicatorProofs | `Spec => []GapsOutliveTheWindow` |
| `EvidenceKnown` | IndicatorProofs | `Spec => []EvidenceIsKnown` |
| `BreaksAreDefined` | IndicatorProofs | `Spec => []BreaksFollowTrend` |
| `PivotsAreDefined` | IndicatorProofs | `Spec => []PivotsMatchDefinition` |
| `BlocksAreDefined` | IndicatorProofs | `Spec => []BlocksMatchDefinition` |
| `SetupsAreInOrder` | IndicatorProofs | `Spec => []SetupIsInOrder` |

Every proof has one lemma per conjunct of its invariant or one step per action, and
lemmas on the operators below (what recovery does to a row, what appending does to a log,
what `FirstGap` contains). None of the safety properties is inductive by itself.

*Scheduler* (any number of jobs, processes and runs, a clock that may step back).

- A recovery that runs while some process executes a run would fail its row.
  Recovery needs the lock, so `LockInv` says who owns it and what that owner is
  doing: a process in its run, the main thread recovering, or an operation in
  reconciliation.
- The lock of a killed process goes to nobody, while the lock of an interrupted
  child goes to nobody through somebody else's step. `ChildInv` says which thread
  has which child and that no two threads share one, so stopping a child never
  frees another's lock; `EndedInv` that whoever waited for a child knows it has
  ended, so a child's slot is reused only after that.
- `StopInv` says who is inside `_interrupt`, and that shutdown visits no job that
  is about to start a child; without it a thread could time out between the two halves of
  the main thread's stop.
- Startup recovery fails attempts too, so no thread may have one then:
  `QuietInv`. Reconciliation leaves attempts alone by its argument.
- A new attempt must not be given the row of one in flight: `AttemptInv` says
  that numbers in use are below the counter and different, `BudgetInv` that a
  number is left for every submitted job.
- A receipt stays true because its row is terminal (`ReceiptInv`), terminal rows
  are final, and a thread's verdict is a receipt or an interruption
  (`VerdictInv`).
- A child whose interruption names the shutdown although its time was up, or a verdict taken
  from the interruption of an earlier attempt, would make `TimeoutNamesReason` false; the slots
  and `_interruption` are reused, so `CauseInv` says that a running daemon has never an
  interruption by shutdown, of this attempt or of an earlier one, and what each thread with
  a stopped child is about to report; `ReasonInv` that a time-out is recorded by the thread
  itself, which then no longer waits, and what a recorded reason says of child and daemon.
- Recovery takes the rows that started by now. With a clock that steps back a row of
  an earlier life may lie in the future, and stays RUNNING; the two theorems on restart
  and graceful exit therefore assume `~ClockMayStepBack`, from which `ClockInv` (no row
  starts later than now) follows. `OpenInv`: whatever attempt is RUNNING belongs to a
  thread or to the overlap event of this daemon, so its exit leaves none.

*Refinement of `RunLifecycle`.* The invariant gives the meaning of `held`: the rows of
processes that execute, of attempts of busy threads and of the overlap event are
different RUNNING rows. A step then leaves the table alone and holds no new row
(`HoldsNoMore`: a stutter or an `Abandon`), opens a row, completes the row its actor
holds, or is a recovery, which the lock keeps from held rows.

*Candles* (any processes, page size, window, order and length of pages).
`HolderInv`: whoever is at work is the holder of the lock, and what it asks for is part of
its first gap and not accepted yet. `GapInv`: what it takes for missing is absent from
the store, the rest is there. So a page brings only rows that are absent, no
revision can clash, and what remains lies behind the page. The recorded prefix needs the least
missing minute, hence lemmas on least and greatest elements of sets of numbers.

*Router* (any destinations, subscriptions, scripts, batch sizes, windows, retries and
crashes). Which events a destination has been shown is one number, its horizon
(`Horizon`), told from the call, the destination in turn and what is left of the call
(`WorkInv`). What a destination was shown lies below it and is in the queue, in the
batch, in the log of its endpoint or in its account (`CoverInv`); queues hold results of
one bar (`QueueInv`), a message of this life is about earlier events than the queue and
the batch (`LogInv`, `BatchInv`), and nothing in a batch was recorded within the window
when it was formed. A flush happens before an event is queued or sent, so `HeldInv` says
that the queue is empty meanwhile and that the event that waits is still to be shown.
What is about to be recorded has arrived (`ArrivedInv`), and the logs of the endpoints
only grow, whichever of the outcomes a POST has. What the filter of a flush keeps
(`Eligible`, a recursive function) is a subsequence: induction over the queue's length.

*Simulator.* Assumed: candles with low and high around open and close, levels in the
order of the direction, rates of at most one. The bounds on results need `AgeInv` (a
pending decision is younger than its lifetime, an open trade younger than the maximum
holding, counted differently before and after the tests on a candle), `KeptInv` (a
trade that is kept has met neither level on the candle in hand, which is what makes
its close at the end of data lie between them) and `PastInv` (decisions traded or in
hand have been seen; every finished trade ended before what comes next). The cost lemma is
arithmetic on both directions. That each trade is the one its definition selects rests on
`PathInv`: no candle looked at has met a waiting entry, the entry of an open trade was the
first touch and no candle looked at since has ended it; where "looked at" includes the
candle in hand or not depending on the statement of the loop (`WaitInv`, `HoldInv`). So
when a test ends a trade, its candle is the least that can.

*Backtest.* `WorkInv` and `StagingInv` say what a command owns at each step, so that an
exception knows what to remove; `ResultInv` which results may still be lost: one that is
not linked waits for exactly one publisher, which has claimed nothing yet, and nobody
has called it a success. A power failure therefore takes back only results no one
vouched for as its own. `ReplayInv` says what a command's snapshot and evaluations are
made of; that the bars cut from one long range are those of the live window is then
arithmetic on multiples of the bar lengths, for every history and every set of lengths.

*Graph* (any finite set of nodes, every graph over it, any configured order, any answers
and any policy). The recursive functions of the module are given their meaning first:
`Ancestors` is the least set that contains a node's dependencies and theirs, because an
iteration that has not grown stays, and one that grows every time would outgrow the nodes;
`Depth` is the longest chain. The invariant of the sort is that it proceeds by generations
(`RankInv`: there is a rank, one more than the greatest among the dependencies, by which
what is ordered ascends), and at its end this rank is the depth, so that the
place of each node is told by depth, order and ID. A graph on which the sort gets stuck
has a node among its own ancestors. `AnswerInv`: the answers are those of the first nodes in
the order, and each is what its dependencies allow; the nodes that passed, and those that did not fail,
are then sets closed under dependencies, so that a node's ancestors lie in them. `DecisionInv` ties decision and gates to the walks of the policy, whose result is
the first signal that stops it.

*Indicators* (any candles, any number of them, any widths, lengths and switches). `ScanInv`
has a part for each kind of list. `GapsInv`: the gaps are those of the ends of the runs of
gap bars, newest first, each touched by the bars since, and `inGap` tells which runs go on. A
bar that goes on with a run moves its end, so that the latest gap of its direction is the
one to replace, although a gap of the other direction may stand before it; a gap that has just
been made cannot have been touched. `ZonesInv`: every zone tells its sweep by the closes since it
was drawn, and of two successive zones of a side the older was fully swept if they share
their oldest pivot; drawing a zone anew starts its closes anew, sweeping one fixes them.
`ListsInv` says what the other scans keep, as lists of records. `TimesInv`: whatever a
list keeps happened not later than it was known, and is known by now; an answer takes its times
from an entry that is foremost among some, which exists, or from the dependency that did not
pass. `None` is assumed to be no number, no kind, no direction, no pivot, no average and no answer
to a problem with a dependency.
These hold without any assumption on what an average may be, so they do not depend on its
rounding.

*Windows.* A window that moves on leaves the scan where it began, where every part of the invariant
holds of no bars, so each part needs one step for a bar and the same short step for `Slide`. What
was reported is the exception: `ReportInv` says that the gaps of the bars that stayed are those
that were reported and can still be told, in the words in which a definition over the former
bars alone tells them (`ToldOf`). Whether a bar makes a gap depends on as many bars before it as
`Reach` says, so that the same bars tell the same gap some places further down; bars that
have closed since move the last gap of the former window on, or fill one, which is then known
later, and nothing else.

*Breaks of structure.* `PointsInv`: the points of both scans are the zigzag of the pivots so
far, newest first and of alternating kinds (`ZigzagOK`). A bar adds at most two pivots, each
after all others, so it belongs to the leg of the first point or begins one of its own, and
the legs before stay as they are. `TrendInv`: the trend is the kind of the last shift and of
the last event, and a level the scan remembers is the last of its type and kind, which is why
a new shift turns and a new break of structure goes on at an unused level. A selected level
belongs to a pivot of its kind because the points alternate; it is at least two bars old when a
close breaks it, because the bar that confirms a pivot stays inside it.

*Pivots.* The definition looks at the marks of the whole window, the scan at its leg and two
pivots. `LegTells`: the leg is the kind that was marked last, so that a bar that marks the
other kind is a turn and no other is. `Follows`: a pivot is that of the latest turn of its kind.
`CrossedTells`: it is crossed exactly when a close has gone beyond it while it was in force; for
the scan, which asks for the first such close by comparing two closes, this needs that the close
before did not, and a turn is never broken by the bar that confirms it, which stays inside. No
close breaks a high and a low at once: the one before was neither above the high nor below the
low, so that the low is not above the high. The trend is thus the kind of the last break
(`TrendIsLast`). `Listing`: the
list tells the defined events in order of time, each once; a bar adds to both the same pivot
and the same break (`SwingInv`). `EqualsInv` says the same of leg and pivots of the equal
levels, whose average exists from bar `WarmupBars` on.

*Order blocks.* `BlocksInv` holds leg and pivots of the internal length to their definition as
above, and the list to the blocks that the breaks so far have made (`Made`). A bar makes one block
or none (`MadeGrows`): of its first bar that reaches furthest against the break, which later
bars do not change (`BlockStays`). The list is newest first (`Falling`), so that an entry's place
is the number of entries newer than it, and keeping the first `maximum_blocks` is keeping those
with fewer newer ones (`LatestAre`). The definition counts the newer live blocks among all that
were made, the scan only among those it kept; they are the same, because a live block newer than an
active one had no more newer ones at any time than that one, and is active itself
(`ActiveGrows`).

*Setups.* An answer that passes is the plugin's own (`OwnAnswer`), so that a trade that passes has
its sweep from the foremost zone, its gap from the foremost open one and its direction from the
last break that is emitted; the sweep's time lies before the later of the other two, so before one
of them. That the sweep is one needs `BackedInv`: every zone stands on at least `MinimumPivots`
pivots of the history that any close beyond its far edge leaves behind (`DrawnOver`), its level is
that of a pivot not younger than itself (`HasLevel`), and the level that a full sweep fixes is that
of a pivot of the other kind from before the sweep (`AimsAt`). The edges lie a margin beyond
the middle of the cluster, which lies between the lowest and the highest of its points
(`EdgesLeave`); a margin may be zero, no close on the edge counts. Pivots are never withdrawn,
so a bar leaves this true of every zone but the one it draws. The points of a zone are taken from
the zigzag, which is why `PointsInv` is needed beside it. The stop lies strictly behind the
sweep because the average range is positive once a pivot exists: a pivot stands out from the bar
after it, so that some bar has a range, and Wilder's average never forgets it. This takes the
two constants of the plugin as they are in kind: a length above one and a positive share of
the range (`RiskAssumption`).

Only model-checked: all liveness properties, since liveness under fairness and ENABLED are out of the prover's
reach, as are RECURSIVE operators and the library's induction theorems over data, which take
an operator as a parameter. Induction over natural numbers is used in the form of
`Basics`: a set that contains 0 and with every number the next contains all.

## 8. What is not modelled

- *Readiness marker* (`cli.py`). It is a file that is written, read and removed by one process,
  and takes part in nothing else. Reading the code shows one weakness: the marker of a
  killed scheduler stays, and in a container its process number is often the next
  scheduler's, so that health answers READY before recovery has run.
- *Schema creation and migration* (`sqlite.py`). The transactions of DDL are decided inside
  SQLite and its Python driver, outside the source. `executescript` commits
  statement by statement, so that a first start that dies inside leaves tables without a
  version, which later starts refuse; and the version is read before `BEGIN
  IMMEDIATE` and not again after it, so that two starts may both migrate.
- *Metrics* (`metrics.py`): sums and ratios over a list, without state.
- *Configuration, domain values, provenance, wiring, command line*: parsing, field checks, a hash,
  construction. The commands that change state are actions of `Scheduler`,
  `CandleSync` and `Backtest`.
- *Payloads, explanations, reports, logs*: layout. An artifact is its name. The rounding
  of decimals to 28 digits is left out everywhere.
- *Failures of storage* beside those named: a commit that is durable but cannot be
  read back; a disk that is full between two statements.
- *The loop over instruments*: one instrument stands for each; they share nothing but the
  lock and the run row.
- *A second daemon on one data folder*: `compose.yaml` starts one.
- *The branch of `market_sync.py` that checks `sync_state`*: no caller reaches it,
  because the repository it is given always answers None.
- *A keyboard interrupt in a backtest*: `jsonl.py:134` catches `Exception`, so that an interrupt
  ends the command with its staging directory left behind, while lock and temporary directory
  are given back. The model has it as a kill, which leaves all three.
- *Scripts and tests* of the repository: read as documentation.

## 9. Plan

Done, in this order: `RunStore`, `EngineProcess`, `Scheduler` with `RunLifecycle`
(the core: everything durable depends on it), its invariant and proofs,
`NotificationRouter`, `CandleSync`, `ExecutionSimulator` with its proofs; then the
indicators, the graph and the policy, replay, backtest and publisher with
`Publication`, the refinement proofs of both abstract specifications, proofs of every
safety property of scheduler, router, candles, simulator, graph, policy and backtest, and
those of the gaps, the zones, the SMC pivots and their breaks, the equal levels, the order
blocks, the breaks of structure, the times of every answer, the gaps from one window to the next
and the order of a setup. With that every safety property of a passing run is a theorem.

Left: the readiness marker with process numbers that are used again, if a second daemon is
ever allowed.
