# A TLA+ model of the log generator

This project specifies and checks the log generator of this repository: a Go program that
sends syslog messages over UDP at a chosen rate, from the command line (`cmd/main.go`) or
under a web control server (`cmd/web_main.go`).  Paths below are relative to `src/`.

## 1. Inventory

| Component | State it keeps | Operations | Talks to |
|---|---|---|---|
| Worker pool, `internal/worker/worker_pool.go` | `isRunning`, `workers`, `wg`, context, `metricsChannel`, `poolMetrics` | `Initialize`, `Start`, `Stop`, `metricsAggregator`, `GetMetrics` | starts and stops workers; receives their metrics |
| UDP worker, `internal/worker/udp_worker.go`, `udp_worker_ultra.go` | `isRunning`, `stopChan`, `wg`, `conn`, counters, batch buffers | `Start`, five send loops, `metricsCollector`, `Stop`, `cleanup` | the socket; `metricsChannel` |
| Rate control, in the send loops | `adjustmentFactor`, the window and its count | one adjustment per window | the profile; the socket's errors |
| EPS profiles, `internal/config/profiles.go` | none (a table) | `GetProfile`, `CalculateCustomProfile` | everybody who starts a pool |
| Control server, `internal/monitor/control_server.go` | `isRunning`, `workerPool`, `memoryOptimizer`, `currentConfig`, all under `mutex` | HTTP handlers for start, stop, restart, configuration, status; `metricsUpdateLoop`; `Stop` | owns pool, optimizer and collector |
| Metrics collector, `pkg/metrics/collector.go` | `currentMetrics` (atomic), history, `isCollecting`, `stopChan` | `Start`, `Stop`, `collectLoop`, `UpdateWorkerMetrics`, `UpdateSystemMetrics` | update loop writes, dashboards read |
| Dashboard, `internal/monitor/dashboard.go` | `clients`, `broadcast`, `stopChan`, `wg` | WebSocket handlers, `broadcastLoop`, `metricsStreamer`, `Stop` | reads the collector, writes to clients |
| Memory optimizer, `internal/config/optimization.go` | `isActive`, `stopChan`, `wg` | `Start`, `Stop`, two background goroutines | the Go runtime only |
| Command-line application, `cmd/main.go` | the flags, `isRunning`, the signal channel, the parts it owns | `main`, `NewLogGenerator`, `Start`, `Stop`, `metricsUpdateLoop`, `printFinalReport` | pool, dashboard, collector, optimizer |
| Syslog generator, `internal/generator/syslog_generator.go` | timestamp cache, random source | `GenerateSystemLog` | one per worker |
| HTML pages, `internal/monitor/control_ui.go` and the end of `dashboard.go` | none | | the HTTP interface |

What is hard about this code, component by component, and what makes each correct:

* **Pool and workers.**  Start launches a goroutine per worker that starts the worker, and does
  not join them; Stop cancels a context, then stops the workers one by one, each with a
  WaitGroup of its own; two of the send loops listen to only one of the two signals; the
  metrics goroutines send to a channel whose receiver has gone.  Correct is: Stop returns,
  and then nothing of the pool is left; no socket is closed under a loop that uses it.
* **Control server.**  Handlers are serialised by a mutex, but the metrics update loops read
  `isRunning` and `workerPool` without it, a start reads its request body with the mutex held
  and no deadline, and initialisation may fail half-way.  Correct is:
  one pool at most, known to the server; `isRunning` tells the truth; loops live while, and
  only while, the generator runs.
* **Metrics.**  A message may be dropped, three writers load, change and store one record
  without a lock, and a map is shared.  Correct is: nothing is overstated, and the exact
  total is shown in the end.
* **Rate control.**  Feedback over windows whose length is not measured, that cannot tell a
  failed write from a slow machine.  Correct is: the rate settles where the profile says.
* **Dashboard.**  Three parties remove clients; a write to a slow client blocks with a lock
  held.  Correct is: nobody writes to a connection that somebody closed; clients that are
  gone are dropped; Stop returns.
* **Command-line application.**  A signal may come while Start is still at work; Start may fail
  half-way and cleans nothing up; Stop takes the parts down in an order the others rely on; the
  update loop is joined by nobody and may store, late, what it read long ago; the rate shown is
  the difference of two totals that two goroutines overwrite.  Correct is: a signal ends the
  program, whenever it comes; nothing is left behind; the collector outlives those who use it;
  the final report is final; the rate is not negative unless workers fall out, and settles.

The full list of hazards, each at its line and with the properties that would catch it, is
in `PROJECT.json`.

## 2. Modules

| Module | Models | Proofs |
|---|---|---|
| `ServiceLifecycle` | the promise of a service to its owner: goroutines come to life between Start and Stop, and Stop returns once none is left | |
| `WorkerPool` | pool, workers, send loops and metrics goroutines, one action per step between two points where another goroutine can interfere; implements `ServiceLifecycle` | `WorkerPool_proofs` |
| `DashboardHub` | the dashboard's Start, connections, registry, broadcast, streamer and Stop; implements `ServiceLifecycle` | `DashboardHub_proofs` |
| `LogGenerator` | the command-line application over a pool, a dashboard and an optimizer that keep the promise of `ServiceLifecycle`, with the collector and the update loop | `LogGenerator_proofs` |
| `ControlServer` | the handlers step by step, one update loop per pool, the collector's loop and stop channel; a pool appears through the phases of `ServiceLifecycle` | `ControlServer_proofs` |
| `MetricsPipeline` | counters from the workers to the collector's current metrics; implements `SentTotals` | `MetricsPipeline_proofs` |
| `SentTotals` | the promise of the counters' way to those who read the pool's totals: what was sent, what the aggregator's map says of it, and what a copy of the map, made while it changes, adds up to | |
| `EPSProfiles` | the table and the calculated profile (pure) | |
| `RateControl` | the feedback of the medium and performance loops; extends `EPSProfiles` | `RateControl_proofs` |
| `SumTheorems` | nothing of the code: theorems about sums over the values of a function, as the community modules fold them | itself |

The modules beginning with `MC` give TLC its instances.

### How the modules compose

`LogGenerator` holds three instances of `ServiceLifecycle` and takes no step of a service that
this module does not allow.  That the pool and the dashboard keep the promise is shown where they
are modelled: `WorkerPool` and `DashboardHub` each have a refinement mapping and the property
`ImplementsLifecycle`, checked with its liveness by TLC and proved for its safety part.  So what
`LogGenerator` says of the program holds of a program with the real pool and the real dashboard,
under the assumptions of those runs: Start's sleeps cover the starters (`SettleCoversStart`), and
a stalled client reads again or leaves.  The optimizer is two tickers and a WaitGroup and
is taken from its code directly.

In the same way `LogGenerator` holds an instance of `SentTotals`, and every step of it that touches
`sent`, `published` or `total` is one of that module: a batch, an entry the aggregator writes (which
also changes what a copy under way will add up to), the beginning and the end of a copy, and the
store that uses the total.  `MetricsPipeline`, where every entry and every copied entry is
a step, implements that module for the case that no worker falls out (`ImplementsTotals`, checked
and proved): a written entry changes the total of a copy under way by exactly what it changes the map's,
or not at all if it was copied already.  `ControlServer` names pools by number and knows them by the same
phases.  `RateControl` extends the profile tables of `EPSProfiles`.

### How state and actions correspond to the code

*`WorkerPool`.*  `owner` is the program counter of the one goroutine that calls Initialize,
Start and Stop; `next` its loop index.  `poolWg` and `wg[w]` are the two kinds of WaitGroup,
as the sets of goroutines that were added and are not done, so that a wait is a test for
emptiness.  `starter[w]`, `metrics[w]`, `sender[w]` and `aggregator` are program counters.
`ctxDone` and `stopClosed[w]` are the two signals, and `LoopHearsStop` says which loop
listens to the second.  Start's sleeps (2 ms per worker and 100 ms at the end) are the constant
`SettleCoversStart`: TRUE says that the starters are done before Start returns, which is what
the code hopes for; FALSE lets them be as late as they like.  The actions whose comments begin
with "As if" are mutations, used to see that each property can fail.

*`ControlServer`.*  `handler` and `at` say who holds `cs.mutex` and where.  A pool is known by
the number of the `initializeGenerator` call that made it, so that "which pool did this
configuration, loop or optimizer come from" is part of the state.  A start takes the mutex in one step
and reads its client's body in another (`ReadBody`), for which there is no fairness: the code
reads it under the mutex and without a time limit, so that a client may keep the mutex for good.  `loop[p]` is the update
loop launched with pool p, which checks `isRunning` (`check`) and sleeps (`wait`).  `collecting`
is the collector's flag, `collectorStop` says whether the stop channel of the moment is open or
closed, and `collectLoop` is its goroutine: Start makes the channel anew before it launches the
loop, and Stop closes it and waits for the loop, with `cs.mutex` held.

*`LogGenerator`.*  `at` is the program counter of the main goroutine, from `parseFlags` to its
return, and `outcome` how the process ended: by a return, by `os.Exit(1)`, by the panic of making
a slice of a negative length, or by a signal before `signal.Notify`.  `sigChan` is the channel's
one place.  `cancel()` is a step of Stop, so that the context is cancelled from the next one on
(`Cancelled`).  `sent`, `published` and `current` are what the workers have sent, what the pool's
metrics add up to for the collector, and what the collector shows; in between, the update loop
holds `total`, which can still change while it copies the map (`updater` is `copy`), and `loaded`, and the collector `computed`.  `published` may fall, since a worker
whose rate is zero does not count, unless there is no outage (`steady`).  A rate is the difference
of two totals; the division by the time between them, about a second, keeps its sign and its zero.

*`MetricsPipeline`.*  A record of metrics is what was sent.  Every load and every store of
`currentMetrics`, and every entry copied by `GetMetrics`, is a step.

*`RateControl`.*  Time is counted in ticks of 10 ms.  A window has the ticks the code expects,
or one more.  Floating-point numbers are in units of 1/10000.  A batch is one datagram of 65507
bytes at most; from the words the generator draws, a log takes 82.2 bytes on average, which
gives the two bounds `LogsThatFit` and `TooManyLogs`, and between them either may happen.

*`DashboardHub`.*  `clientsMutex` needs no variable: writers take one atomic step under it and
are kept out while the broadcast walks (`RLocked`).  The dashboard owns broadcaster and
streamer, which are the goroutines of its life cycle; the handlers belong to the HTTP server.

## 3. Runs

| Run | Bounds | Shows |
|---|---|---|
| `PoolSettled` | 2 workers, 3 modes, channel of 4 | StopReleasesWorkers, NoSendOnClosedSocket, NoAddDuringWait, and that the pool implements ServiceLifecycle, the return of Stop included |
| `PoolUnsettled` | the same with late starters and a channel of 1 | StopJoinsPool, StopTerminates, StoppedPoolDrains still hold |
| `PoolLate` | late starters | violated: a worker started late survives Stop |
| `Control` | 3 pools, 2 profiles, a custom rate, an unknown name, figures out of range | NoOrphanPool, FlagTellsTruth, CollectorServesEveryRun, OptimizerLostOnlyByFailedInit, StartUsesCurrentConfig, PoolsLiveOnce, LoopEndsAfterStop, HandlersReturn (or the handler is for ever at the body of a start) |
| `ControlLoopLost` | as Control | violated: the update loop may end before it begins |
| `ControlConfig` | as Control | violated: a saved configuration does not take effect at once |
| `Metrics` | 2 workers, channel of 2, 1 batch each | NeverOverstated, EntriesAdvance, TotalIsShown (of the transmitted packets; total_sent leaves inactive workers out), and that the pipeline implements SentTotals |
| `MetricsRace` | as Metrics | violated: GetMetrics walks a map that is being written to |
| `Rate` | 8 cores; 4m, custom 25,999 and custom 4,000,000; one outage of any length | Settles, ClosesIn, KeepsUp, FitsPreallocatedBuffer |
| `RateStuck` | 8 cores; custom 5,200,000; one outage | violated: after the outage the batches no longer fit in a datagram |
| `Hub` | 2 connections, room for 1 message | WritesToRegistered, RegisteredAreHandled, GoneClientsLeave, StopTerminates, and that the hub implements ServiceLifecycle |
| `App` | 1 worker, 2 logs; five command lines: the three that are rejected, one with every part on, one with none and a duration | NothingLeftAtExit, CollectedWhileUsed, SteadyRateIsNonNegative, ReportIsFinal, ProgramEnds, RateSettles |

Why these bounds are enough to be worth looking at: two workers give every order of "one is
stopped while the other still runs", and a worker that is skipped before and after one that is
not; the code treats workers alike.  One mode is taken of each class (`high` acts as the default
loop, `performance` as `medium` for everything `WorkerPool` says).  The channel of 4 is the code's
twice the worker count; that of 1 fills up at once.  Three generations of pools allow a failed
start between two good ones, and a loop of the first that meets the third.  Two connections allow
one to leave or stall while the other is written to.  For the rates, the ranges of the factor are
small enough to be explored whole, for whatever outage the network produces.  In `App` a pool is a
service, of which a second worker would only be one more goroutine to await; two logs make two
totals that differ from each other and from none, which is what a rate that falls, and a report
that is overtaken, need.  RateSettles does not depend on the bound of two: it speaks of any total that
stands still, in particular of the zero to which an outage brings it, worker by worker, after which the
rate is negative before it is zero again.

`CHECK_DEADLOCK` is left on everywhere: where a system may really stop, the module says so in
an action of its own (`Finished`, `Ended`).

### Fairness

A goroutine that can go on does so (weak fairness of its own steps).  A `select` that finds a case
ready again and again takes it, since Go picks at random among the ready cases: strong fairness,
because the case is ready only while the goroutine is at the select.  A goroutine waiting for
`clientsMutex.Lock` gets it between two broadcasts (strong fairness), since a waiting `Lock`
keeps new readers out.  In `App` a service's goroutine ends once asked to, which is
the promise shown by `PoolSettled` and `Hub`; the collector's loop finds its stop channel closed
again and again (strong fairness).  Nothing is assumed of what users and clients ask for, nor that
the client of a start ends its body: HandlersReturn names that wait as the one place where a handler may
stay for ever.  Two assumptions are
about the outside: a client that has stalled reads again or goes away in the end (the code
sets no write deadline, so without it Stop would hang), and an outage of the network ends.

### Findings

`PoolLate`, `ControlLoopLost`, `ControlConfig`, `MetricsRace` and `RateStuck` are behaviours of
the code that contradict a comment or a document; `PROJECT.json` quotes them.  The deepest is
`RateStuck`: a failed write does not count as sent, the feedback takes it for too low a rate and
enlarges the batches, up to 1.3 times; for a large custom rate the enlarged batch is too long for a
datagram, its write fails, and so the batches stay enlarged for good.

The run `Rate` takes rates whose batches are large.  A custom rate of 150 in `MCRequests` violates
Settles with no outage at all: its batches are of one log, and no factor up to 1.3 makes it two.

## 4. Proofs

Each proof follows the same argument: an invariant that is inductive over the safety
part of the specification (`Safety`, without fairness), checked by TLC first, one step of the proof
for each action, and the property as a consequence.

`WorkerPool_proofs` proves, for every number of workers, channel capacity and set of modes:

* `TypeCorrect` and `PoolJoined` from `Safety` alone.  Neither is inductive: that the pool's
  WaitGroup is empty says something about goroutines only if it counts exactly those that are
  alive.  `BaseInv` adds this (`GroupsCount`), the order in which a starter launches the others
  (`StarterOrder`), which starters the owner has launched (`OwnerLaunched`), and that only Stop
  signals an end (`OnlyStopEnds`).
* `WorkersReleased`, `SocketOpenWhileSending` and `NoLateAdd` with the assumption
  `SettleCoversStart`.  `SettledInv` adds `OwnerControls`: the owner's place in Stop tells the
  state of each worker, behind it stopped and closed, ahead of it running and open.  Without the
  assumption `WorkersReleased` is false, which `PoolLate` shows.
* `LifecycleImplemented`: with the mapping of `WorkerPool`, its initial states are initial states
  of `ServiceLifecycle`, and every step is a step of it or a stutter.  It rests on `BaseInv`: a step
  of the pool that ends a goroutine must map to `Retire`, which only happens while stopping.

`DashboardHub_proofs` proves for every set of connections and every queue capacity `HubTypeCorrect`,
`WritesGoToRegistered`, `ClientsAreHandled` and `HubLifecycleImplemented`, the refinement:
`HubInv` says that registered connections are open, that the broadcast's pending clients are among
the registered ones, and that Stop sweeps only when the broadcaster is gone.

`LogGenerator_proofs` proves for every set of workers, every number of logs and every set of
command lines `AppTypeCorrect`, `AppLeavesNothing`, `AppCollectsWhileUsed`, `SteadyRate` and
`FinalReport`.  `AppInv` has three ideas.  A service runs only in its span of main's program,
from the step of Start that starts it to that of Stop that has waited for it
(`ServicesInTheirSpans`, `CollectorInItsSpan`), so that an exit outside the spans leaves nothing.
No figure claims more than was sent, wherever it is (`NothingAhead`).  And without an outage
every total that may be shown next is at least the last one the collector computed from
(`TotalsInOrder`): the two writers may undo each other's stores, but each of them stores what was
at least as recent as the total the other one has remembered.

`ControlServer_proofs` proves for every profile table, every set of configurations and requests and
every number of pools `ServerTypeCorrect`, `NoPoolLost`, `FlagIsTrue`, `CollectorServes`,
`OptimizersKnown` and `StartIsCurrent`.  The properties speak of the moments when the mutex is free,
or of all moments; `ServerInv` says for each place of a handler what the flag, the pool, the
collector and the optimizers are there (`FlagFollowsPlace`, `PoolFollowsPlace`,
`CollectorFollowsPlace`, `OptimizersAccountedFor`).  `NoPoolReused` proves the action property
PoolsLiveOnce: a pool cannot be started a second time, since its context stays cancelled, and no order of
requests tries to.  `PoolFollowsPlace` gives what it needs, that the pools not made yet have no phase
and that one is stopped only where the server points to a running one.

`RateControl_proofs` proves for every number of cores and every regulated profile and custom rate
`RateTypeCorrect`, `BufferSuffices` and `NoDefaultRate`.  `BufferSuffices` comes down to arithmetic: the
factor stays in its range (`AdjustedInRange`), the range of the performance loop ends at 2, and rounding
down cannot exceed that.  It needs that a worker's share of the rate is above zero
(`ShareIsPositive`), which follows from how the number of workers is made (`WorkersOfRate`).

`FeedbackClosesIn` proves ClosesIn.  That is the step on which Settles rests, for every state an outage
may leave instead of those of one run.  All workers of the performance mode have the same
target, 25,000 logs a second, so that the next batch depends on the factor and on
whether the window had ten ticks or eleven (`AdjustedAsNext`).  `CorrectionIsFit` puts bounds on the
correction in each of eight ranges of the batch, `FactorIsFit` on the factor that comes of it, and
`FitFactorCloses` draws the conclusion through both roundings.  In the medium mode the target is a
parameter: `MediumCorrection` bounds the correction by the rounded quotient it is made from, and
`MediumSizes` carries the bound over to the batches.  This case needs the lower bound of the factor that
comes next.  Such a promise cannot be made of every custom rate: one of 150 logs a second has batches
of one log whatever its factor, and never gets closer; hence LargeTarget.

`RateKeepsUp` proves KeepsUp, for both loops and whatever part of a window left.  An outage only raises
the factor, and the corrections that bring it down again stop in time: `KeepsUpInv` adds a lower bound of the
factor (`HighEnough`), 0.8459 for the one loop and 0.96 for the other.  That bound is inductive because
a window that looks too fast says how high the factor is (`MediumLowers`), so that what its correction
leaves of it is above the bound again (`MediumStays`, `PerformanceStays`).  LargeTarget, 20,000
logs a second, is where a batch of the medium loop is large enough for what two divisions round off.  Together ClosesIn and KeepsUp are the safety half of Settles: the size of a batch falls, window by
window, until it is in the promised range, and cannot fall out of it.

`MetricsPipeline_proofs` proves for every number of workers and every channel capacity
`EntriesOnlyAdvance`, `EntriesNeverAhead`, `PipelineTypeCorrect`, `NothingOverstated` and
`PipelineKeepsPromise`.  `EntryInv` says that the messages of a worker lie in the channel in the order of
their totals (`MessagesInOrder`), none below the entry and none above what was sent.  `PipelineInv` adds
that a copied entry is at most the one in the map (`CopyBehindMap`), and that every figure on its way,
published, copied, loaded, computed or shown, is at most what was sent in all (`FiguresBacked`): the three
writers of the collector's metrics may undo each other's stores, but none of them can store anything
else.  `PipelineKeepsPromise` is the refinement: `Walk`, the entries as the copy will show them if none of
those left changes first, is what the copy's total stands for.  A written entry that is still to
be copied raises it by as much as the map's (`TotalIsRaised`), one that was copied already does not; so the total stays between the map's at the
beginning and the map's at the end, although it may never have been the map's at any one moment.

These three speak of sums over any number of workers.  `SumTheorems` proves what they need of
`FoldFunctionOnSet`, starting from its definition: that the fold's recursive function exists on a
finite set and obeys its equation, that a sum is a natural number and is zero for zeros, that it grows
with its terms, and by how much when one of them does.  The library's induction theorems take an
operator as their parameter, which no installed prover can instantiate, so `InductionOverNat` and
`InductionOverSubsets` are derived from its theorem that a well-founded order has minimal elements
(`WFMin`), which takes a set.

Only model-checked: everything about liveness, which needs fairness and is out of the prover's reach
(StopTerminates, StoppedPoolDrains, LoopEndsAfterStop, HandlersReturn, TotalIsShown, Settles,
GoneClientsLeave, ProgramEnds, RateSettles, and the liveness part of the two ImplementsLifecycle).  Every
safety invariant and every action property that a run checks and finds to hold is proved.

The assumptions on constants are named and as weak as the code allows: at least one worker, channels
with room for a message, modes among those the code knows, a number of cores above zero, command lines
made of the flags there are, and for the rate control a profile whose loop adjusts itself or a custom
rate above zero (zero is refused by the control server and by the command line).

## 5. Not modelled, and why

* `sendLoopUltra`'s adjustment and `sendLoopRealtime`: no profile selects them.
* The auto-tuner: switched off by the constructor in use.
* Dead code: `sendLoopPrecise_OLD`, `sendLoopUltraPerformance`, `runPIDControl`, `GetProfileForEPS`,
  `NewWorkerPool`, the optimizer's global pools.
* The collector's history, alerts and scores: computed and kept, but nothing in the program reads them.
* The HTML pages and the words of the logs, CPU and memory figures, everything that is printed (but
  for total and rate of the final report), and the read-only handlers.
* The HTTP server's failure to listen: only printed by the code, it changes nothing else.
* Two writers of one WebSocket connection (the greeting and a broadcast): the states in which both are
  under way are among those of `DashboardHub`, but the rule they break is the library's, and
  nothing in this repository states it.
* Torn reads of `*currentConfig` and of `cs.workerPool` without the mutex: what they give is up to the
  compiler, and only one answer is affected.

## 6. Plan

1. Done: the pool, the dashboard, the application and the control server with the parts they own,
   the metrics pipeline, the rate control; every safety property of a passing run is proved.
2. Next: `SentTotals` with an outage, as `LogGenerator` already uses it: the pipeline with entries that stop
   counting.
3. `LogGenerator` with an outage that ends: how long a rate stays negative.
