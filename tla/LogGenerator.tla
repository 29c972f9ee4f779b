---------------------------- MODULE LogGenerator ----------------------------
(***************************************************************************)
(* The command-line application (cmd/main.go): main with its flags and     *)
(* signals, Start and Stop, which take the parts up and down one after the *)
(* other, and metricsUpdateLoop, which nobody joins.                       *)
(*                                                                         *)
(* Worker pool, dashboard and memory optimizer are known by the promise of *)
(* ServiceLifecycle alone, and the totals of the pool by that of           *)
(* SentTotals; the metrics collector (pkg/metrics) is modelled             *)
(* here, with the rate it computes from two totals.  A rate is the         *)
(* difference of the two: the collector divides it by about one second.    *)
(* A local variable that is dead is set back to its initial value.         *)
(***************************************************************************)
EXTENDS Integers

CONSTANTS
  CommandLines,  \* the settings of the flags to consider
  Workers,       \* the workers of the pool
  MaxSent        \* bound: logs the workers send in all

Aggregator == "aggregator"
ASSUME WorkersAssumption == Workers # {} /\ Aggregator \notin Workers
ASSUME MaxSentAssumption == MaxSent \in Nat

\* What the flags say, as far as the program's course depends on it.  The named profiles
\* are those the table knows and any other; a negative rate is one of -10000 and below, for
\* which a negative number of workers is reckoned.
Flags == [profile : {"known", "unknown", "custom"}, eps : {-1, 0, 1},
          dashboard : BOOLEAN, optimize : BOOLEAN, duration : {0, 1}]
ASSUME FlagsAssumption == CommandLines \subseteq Flags

VARIABLES
  flags,
  at,          \* where the main goroutine is; "exited" ends the process
  outcome,     \* how it ended: none yet, done, failed (status 1), panicked, killed by a signal
  asked,       \* a signal was sent to the process
  sigChan,     \* it is in the channel, which has room for one
  report,      \* the final report: [sent, rate], or NoReport
  optPhase, optLive,       \* the memory optimizer
  poolPhase, poolLive,     \* the worker pool
  dashPhase, dashLive,     \* the dashboard
  steady,      \* no worker that counts as active ever stops counting (no outage)
  sent,        \* logs sent by all workers
  published,   \* what UpdateWorkerMetrics sums up over the pool's metrics: the active
               \* workers' totals
  collector,   \* collectLoop: none, wait, store, done
  lastTotalSent, computed, \* its memory, and the metrics it has made
  current,     \* currentMetrics: [sent, rate]
  updater,     \* metricsUpdateLoop: none, wait, copy, store, done
  total, loaded            \* what it has got of the pool, and of the collector

optVars == <<optPhase, optLive>>
poolVars == <<poolPhase, poolLive>>
dashVars == <<dashPhase, dashLive>>
trafficVars == <<steady, sent, published>>
collectorVars == <<collector, lastTotalSent, computed>>
updaterVars == <<updater, total, loaded>>
metricsVars == <<collectorVars, current, updaterVars>>
processVars == <<flags, outcome, asked, sigChan, report>>
vars == <<at, processVars, optVars, poolVars, dashVars, trafficVars, metricsVars>>

Optimizer == INSTANCE ServiceLifecycle
               WITH Goroutines <- {"gcForcer", "memoryMonitor"},
                    phase <- optPhase, live <- optLive
Pool == INSTANCE ServiceLifecycle
          WITH Goroutines <- Workers \cup {Aggregator}, phase <- poolPhase, live <- poolLive
Dashboard == INSTANCE ServiceLifecycle
               WITH Goroutines <- {"broadcaster", "streamer"},
                    phase <- dashPhase, live <- dashLive

Traffic == INSTANCE SentTotals WITH reading <- updater = "copy"

Metrics == [sent : 0..MaxSent, rate : (-MaxSent)..MaxSent]
NoMetrics == [sent |-> 0, rate |-> 0]
NoReport == [sent |-> -1, rate |-> 0]

StartSteps == {"parse", "create", "notify", "initOptimizer", "startOptimizer",
               "startMonitor", "startCollector", "initPool", "startPool",
               "launchWorkers", "startDashboard", "startStreamer", "launchLoop"}
StopSteps == {"cancel", "stopPool", "awaitPool", "stopDashboard", "awaitDashboard",
              "stopCollector", "awaitCollector", "stopOptimizer", "awaitOptimizer",
              "report", "return"}

TypeOK ==
  /\ flags \in Flags
  /\ at \in StartSteps \cup StopSteps \cup {"wait", "exited"}
  /\ outcome \in {"none", "done", "failed", "panicked", "killed"}
  /\ asked \in BOOLEAN /\ sigChan \in BOOLEAN
  /\ report \in Metrics \cup {NoReport}
  /\ {optPhase, poolPhase, dashPhase} \subseteq Pool!Phases
  /\ optLive \subseteq {"gcForcer", "memoryMonitor"}
  /\ poolLive \subseteq Workers \cup {Aggregator}
  /\ dashLive \subseteq {"broadcaster", "streamer"}
  /\ steady \in BOOLEAN
  /\ {sent, published, lastTotalSent, total} \subseteq 0..MaxSent
  /\ collector \in {"none", "wait", "store", "done"}
  /\ {computed, current, loaded} \subseteq Metrics
  /\ updater \in {"none", "wait", "copy", "store", "done"}

Init ==
  /\ flags \in CommandLines
  /\ at = "parse" /\ outcome = "none"
  /\ asked = FALSE /\ sigChan = FALSE
  /\ report = NoReport
  /\ optPhase = "created" /\ optLive = {}
  /\ poolPhase = "created" /\ poolLive = {}
  /\ dashPhase = "ready" /\ dashLive = {}
  /\ steady \in BOOLEAN
  /\ sent = 0 /\ published = 0
  /\ collector = "none" /\ lastTotalSent = 0 /\ computed = NoMetrics
  /\ current = NoMetrics
  /\ updater = "none" /\ total = 0 /\ loaded = NoMetrics

Goes(from, to) == at = from /\ at' = to

\* os.Exit(1), whatever goroutines there are.
Fails == at' = "exited" /\ outcome' = "failed" /\ UNCHANGED <<flags, asked, sigChan, report>>

-----------------------------------------------------------------------------
(* Signals.                                                                *)

\* As if the channel had no buffer: nobody receives from it before the wait.
SignalUnbuffered ==
  /\ at # "exited" /\ ~asked /\ asked' = TRUE
  /\ sigChan' = (sigChan \/ at = "wait")
  /\ UNCHANGED <<at, flags, outcome, report, optVars, poolVars, dashVars, trafficVars,
                 metricsVars>>

\* As if main called Notify after Start.
SignalNotifiedLate ==
  /\ at # "exited" /\ ~asked /\ asked' = TRUE
  /\ IF at \in StartSteps THEN at' = "exited" /\ outcome' = "killed" /\ UNCHANGED sigChan
                          ELSE sigChan' = TRUE /\ UNCHANGED <<at, outcome>>
  /\ UNCHANGED <<flags, report, optVars, poolVars, dashVars, trafficVars, metricsVars>>

\* SIGINT or SIGTERM.  Before Notify it kills the process; after it, it goes into the
\* channel.  A second one finds the channel full, or nobody reading it any more: one is
\* enough.
Signal ==
  /\ at # "exited" /\ ~asked /\ asked' = TRUE
  /\ IF at \in {"parse", "create", "notify"}
     THEN at' = "exited" /\ outcome' = "killed" /\ UNCHANGED sigChan
     ELSE sigChan' = TRUE /\ UNCHANGED <<at, outcome>>
  /\ UNCHANGED <<flags, report, optVars, poolVars, dashVars, trafficVars, metricsVars>>

-----------------------------------------------------------------------------
(* main up to its wait: parseFlags, NewLogGenerator, Start.                *)

ParseFlags ==
  /\ at = "parse"
  /\ IF flags.profile = "custom" /\ flags.eps = 0
     THEN Fails
     ELSE at' = "create" /\ UNCHANGED processVars
  /\ UNCHANGED <<optVars, poolVars, dashVars, trafficVars, metricsVars>>

\* The parts are made, none is started.  A pool of a negative number of workers cannot be
\* made: make panics, for the slice of workers.
NewLogGenerator ==
  /\ at = "create"
  /\ \/ flags.profile = "unknown" /\ Fails
     \/ /\ flags.profile = "custom" /\ flags.eps < 0
        /\ at' = "exited" /\ outcome' = "panicked"
        /\ UNCHANGED <<flags, asked, sigChan, report>>
     \/ /\ flags.profile = "known" \/ (flags.profile = "custom" /\ flags.eps >= 0)
        /\ at' = "notify" /\ UNCHANGED processVars
  /\ UNCHANGED <<optVars, poolVars, dashVars, trafficVars, metricsVars>>

Notify ==
  /\ Goes("notify", IF flags.optimize THEN "initOptimizer" ELSE "startCollector")
  /\ UNCHANGED <<processVars, optVars, poolVars, dashVars, trafficVars, metricsVars>>

\* Initialize of the optimizer always succeeds.
InitOptimizer ==
  /\ Goes("initOptimizer", "startOptimizer") /\ Optimizer!Prepare
  /\ UNCHANGED <<processVars, poolVars, dashVars, trafficVars, metricsVars>>

StartOptimizer ==
  /\ Goes("startOptimizer", "startMonitor") /\ Optimizer!Begin("gcForcer")
  /\ UNCHANGED <<processVars, poolVars, dashVars, trafficVars, metricsVars>>

StartMonitor ==
  /\ Goes("startMonitor", "startCollector") /\ Optimizer!Spawn("memoryMonitor")
  /\ UNCHANGED <<processVars, poolVars, dashVars, trafficVars, metricsVars>>

StartCollector ==
  /\ Goes("startCollector", "initPool")
  /\ collector' = "wait"
  /\ UNCHANGED <<processVars, optVars, poolVars, dashVars, trafficVars, lastTotalSent,
                 computed, current, updaterVars>>

InitPool ==
  /\ Goes("initPool", "startPool") /\ Pool!Prepare
  /\ UNCHANGED <<processVars, optVars, dashVars, trafficVars, metricsVars>>

\* The target host does not resolve.  Nobody stops what was started before.
InitPoolFails ==
  /\ at = "initPool" /\ Fails
  /\ UNCHANGED <<optVars, poolVars, dashVars, trafficVars, metricsVars>>

StartPool ==
  /\ Goes("startPool", "launchWorkers") /\ Pool!Begin(Aggregator)
  /\ UNCHANGED <<processVars, optVars, dashVars, trafficVars, metricsVars>>

LaunchWorker(w) ==
  /\ Goes("launchWorkers", "launchWorkers")
  /\ w \notin poolLive /\ Pool!Spawn(w)
  /\ UNCHANGED <<processVars, optVars, dashVars, trafficVars, metricsVars>>

\* workerPool.Start returns.
PoolStarted ==
  /\ Workers \subseteq poolLive
  /\ Goes("launchWorkers", IF flags.dashboard THEN "startDashboard" ELSE "launchLoop")
  /\ UNCHANGED <<processVars, optVars, poolVars, dashVars, trafficVars, metricsVars>>

StartDashboard ==
  /\ Goes("startDashboard", "startStreamer") /\ Dashboard!Begin("broadcaster")
  /\ UNCHANGED <<processVars, optVars, poolVars, trafficVars, metricsVars>>

StartStreamer ==
  /\ Goes("startStreamer", "launchLoop") /\ Dashboard!Spawn("streamer")
  /\ UNCHANGED <<processVars, optVars, poolVars, trafficVars, metricsVars>>

\* go lg.metricsUpdateLoop()
LaunchLoop ==
  /\ Goes("launchLoop", "wait")
  /\ updater' = "wait"
  /\ UNCHANGED <<processVars, optVars, poolVars, dashVars, trafficVars, collectorVars,
                 current, total, loaded>>

-----------------------------------------------------------------------------
(* main from its wait on: Stop.                                            *)

\* A signal, also one that came during Start, or the timer of -duration.
Awaken ==
  /\ Goes("wait", "cancel")
  /\ \/ sigChan /\ sigChan' = FALSE
     \/ flags.duration > 0 /\ UNCHANGED sigChan
  /\ UNCHANGED <<flags, outcome, asked, report, optVars, poolVars, dashVars,
                 trafficVars, metricsVars>>

\* lg.cancel()
Cancel ==
  /\ Goes("cancel", "stopPool")
  /\ UNCHANGED <<processVars, optVars, poolVars, dashVars, trafficVars, metricsVars>>

Cancelled == at \in StopSteps \ {"cancel"}

HaltPool ==
  /\ Goes("stopPool", "awaitPool") /\ Pool!Halt
  /\ UNCHANGED <<processVars, optVars, dashVars, trafficVars, metricsVars>>

\* As if Stop did not wait for the pool.
AwaitPoolSkipped ==
  /\ Goes("awaitPool", IF flags.dashboard THEN "stopDashboard" ELSE "stopCollector")
  /\ UNCHANGED <<processVars, optVars, poolVars, dashVars, trafficVars, metricsVars>>

AwaitPool ==
  /\ Goes("awaitPool", IF flags.dashboard THEN "stopDashboard" ELSE "stopCollector")
  /\ Pool!Finish
  /\ UNCHANGED <<processVars, optVars, dashVars, trafficVars, metricsVars>>

HaltDashboard ==
  /\ Goes("stopDashboard", "awaitDashboard") /\ Dashboard!Halt
  /\ UNCHANGED <<processVars, optVars, poolVars, trafficVars, metricsVars>>

\* As if Stop did not wait for the dashboard.
AwaitDashboardSkipped ==
  /\ Goes("awaitDashboard", "stopCollector")
  /\ UNCHANGED <<processVars, optVars, poolVars, dashVars, trafficVars, metricsVars>>

AwaitDashboard ==
  /\ Goes("awaitDashboard", "stopCollector") /\ Dashboard!Finish
  /\ UNCHANGED <<processVars, optVars, poolVars, trafficVars, metricsVars>>

\* The collector's stop channel is closed ...
HaltCollector ==
  /\ Goes("stopCollector", "awaitCollector")
  /\ UNCHANGED <<processVars, optVars, poolVars, dashVars, trafficVars, metricsVars>>

\* ... and its loop awaited.
AwaitCollector ==
  /\ collector = "done"
  /\ Goes("awaitCollector", IF flags.optimize THEN "stopOptimizer" ELSE "report")
  /\ UNCHANGED <<processVars, optVars, poolVars, dashVars, trafficVars, metricsVars>>

HaltOptimizer ==
  /\ Goes("stopOptimizer", "awaitOptimizer") /\ Optimizer!Halt
  /\ UNCHANGED <<processVars, poolVars, dashVars, trafficVars, metricsVars>>

AwaitOptimizer ==
  /\ Goes("awaitOptimizer", "report") /\ Optimizer!Finish
  /\ UNCHANGED <<processVars, poolVars, dashVars, trafficVars, metricsVars>>

PrintFinalReport ==
  /\ Goes("report", "return")
  /\ report' = current
  /\ UNCHANGED <<flags, outcome, asked, sigChan, optVars, poolVars, dashVars,
                 trafficVars, metricsVars>>

\* main returns, whether or not metricsUpdateLoop has ended.
Return ==
  /\ Goes("return", "exited") /\ outcome' = "done"
  /\ UNCHANGED <<flags, asked, sigChan, report, optVars, poolVars, dashVars,
                 trafficVars, metricsVars>>

-----------------------------------------------------------------------------
(* The goroutines of the services, until the process ends.                 *)

OptimizerRetires(g) ==
  /\ at # "exited" /\ Optimizer!Retire(g)
  /\ UNCHANGED <<at, processVars, poolVars, dashVars, trafficVars, metricsVars>>

PoolRetires(g) ==
  /\ at # "exited" /\ Pool!Retire(g)
  /\ UNCHANGED <<at, processVars, optVars, dashVars, trafficVars, metricsVars>>

DashboardRetires(g) ==
  /\ at # "exited" /\ Dashboard!Retire(g)
  /\ UNCHANGED <<at, processVars, optVars, poolVars, trafficVars, metricsVars>>

\* A batch of some worker leaves.
SendLogs ==
  /\ at # "exited" /\ sent < MaxSent
  /\ \E w \in Workers : w \in poolLive
  /\ UNCHANGED <<at, processVars, optVars, poolVars, dashVars, metricsVars>>
  /\ Traffic!Send

\* The aggregator takes in a worker's metrics, perhaps while the update loop copies its
\* map.  The totals of workers whose rate is above zero count, so that the sum falls when
\* one runs into an outage.
Publish ==
  /\ at # "exited" /\ Aggregator \in poolLive
  /\ UNCHANGED <<at, processVars, optVars, poolVars, dashVars, collectorVars, current,
                 updater, loaded>>
  /\ Traffic!Publish

-----------------------------------------------------------------------------
(* collectLoop of the MetricsCollector.                                    *)

\* As if the last total were not kept up.
CollectorKeepsFirstTotal ==
  /\ at # "exited" /\ collector = "wait" /\ collector' = "store"
  /\ computed' = [sent |-> current.sent,
                  rate |-> IF lastTotalSent > 0 THEN current.sent - lastTotalSent ELSE 0]
  /\ lastTotalSent' = IF lastTotalSent = 0 THEN current.sent ELSE lastTotalSent
  /\ UNCHANGED <<at, processVars, optVars, poolVars, dashVars, trafficVars, current,
                 updaterVars>>

\* collectCurrentMetrics: the rate is that between the total of last time, if there was
\* any, and the one shown now.
CollectorComputes ==
  /\ at # "exited" /\ collector = "wait" /\ collector' = "store"
  /\ computed' = [sent |-> current.sent,
                  rate |-> IF lastTotalSent > 0 THEN current.sent - lastTotalSent ELSE 0]
  /\ lastTotalSent' = current.sent
  /\ UNCHANGED <<at, processVars, optVars, poolVars, dashVars, trafficVars, current,
                 updaterVars>>

\* As if the last total were taken from the metrics about to be overwritten.
CollectorStoresAndReloads ==
  /\ at # "exited" /\ collector = "store" /\ collector' = "wait"
  /\ current' = computed /\ computed' = NoMetrics
  /\ lastTotalSent' = current.sent
  /\ UNCHANGED <<at, processVars, optVars, poolVars, dashVars, trafficVars, updaterVars>>

\* updateMetrics, over whatever was stored in the meantime.
CollectorStores ==
  /\ at # "exited" /\ collector = "store" /\ collector' = "wait"
  /\ current' = computed /\ computed' = NoMetrics
  /\ UNCHANGED <<at, processVars, optVars, poolVars, dashVars, trafficVars,
                 lastTotalSent, updaterVars>>

CollectorReturns ==
  /\ at = "awaitCollector"
  /\ collector = "wait" /\ collector' = "done"
  /\ UNCHANGED <<at, processVars, optVars, poolVars, dashVars, trafficVars,
                 lastTotalSent, computed, current, updaterVars>>

-----------------------------------------------------------------------------
(* metricsUpdateLoop                                                       *)

\* GetMetrics of the pool, also of a stopped one.
UpdaterTicks ==
  /\ at # "exited" /\ updater = "wait" /\ updater' = "copy"
  /\ Traffic!Begin
  /\ UNCHANGED <<at, processVars, optVars, poolVars, dashVars, collectorVars, current,
                 loaded>>

\* The copy is complete, and the collector's metrics are loaded.
UpdaterLoads ==
  /\ at # "exited" /\ updater = "copy" /\ updater' = "store"
  /\ Traffic!End
  /\ loaded' = current
  /\ UNCHANGED <<at, processVars, optVars, poolVars, dashVars, collectorVars, current>>

\* As if the total were added to the one shown.
UpdaterAddsTotal ==
  /\ at # "exited" /\ updater = "store" /\ updater' = "wait"
  /\ current' = [loaded EXCEPT !.sent = @ + total]
  /\ Traffic!Forget
  /\ loaded' = NoMetrics
  /\ UNCHANGED <<at, processVars, optVars, poolVars, dashVars, collectorVars>>

\* UpdateWorkerMetrics, over whatever was stored in the meantime.  The CPU and memory
\* figures then go into a copy of the metrics and are lost.
UpdaterStores ==
  /\ at # "exited" /\ updater = "store" /\ updater' = "wait"
  /\ current' = [loaded EXCEPT !.sent = total]
  /\ Traffic!Forget
  /\ loaded' = NoMetrics
  /\ UNCHANGED <<at, processVars, optVars, poolVars, dashVars, collectorVars>>

UpdaterReturns ==
  /\ Cancelled
  /\ updater = "wait" /\ updater' = "done"
  /\ UNCHANGED <<at, processVars, optVars, poolVars, dashVars, trafficVars,
                 collectorVars, current, total, loaded>>

-----------------------------------------------------------------------------
Starts == \/ ParseFlags \/ NewLogGenerator \/ Notify
          \/ InitOptimizer \/ StartOptimizer \/ StartMonitor \/ StartCollector
          \/ InitPool \/ InitPoolFails \/ StartPool
          \/ (\E w \in Workers : LaunchWorker(w)) \/ PoolStarted
          \/ StartDashboard \/ StartStreamer \/ LaunchLoop
Stops == \/ Cancel \/ HaltPool \/ AwaitPool \/ HaltDashboard \/ AwaitDashboard
         \/ HaltCollector \/ AwaitCollector \/ HaltOptimizer \/ AwaitOptimizer
         \/ PrintFinalReport \/ Return
CollectorSteps == CollectorComputes \/ CollectorStores
UpdaterSteps == UpdaterTicks \/ UpdaterLoads \/ UpdaterStores

Ended == at = "exited" /\ UNCHANGED vars

Next == \/ Signal \/ Starts \/ Awaken \/ Stops
        \/ \E g \in {"gcForcer", "memoryMonitor"} : OptimizerRetires(g)
        \/ \E g \in Workers \cup {Aggregator} : PoolRetires(g)
        \/ \E g \in {"broadcaster", "streamer"} : DashboardRetires(g)
        \/ SendLogs \/ Publish
        \/ CollectorSteps \/ CollectorReturns
        \/ UpdaterSteps \/ UpdaterReturns \/ Ended

\* main goes on, and wakes up when it may; a service keeps its promise to end what it
\* runs when asked; tickers fire.  The collector's select finds its stop channel closed
\* again and again and takes it (Go chooses at random among ready cases).
Fairness ==
  /\ WF_vars(Starts) /\ WF_vars(Awaken) /\ WF_vars(Stops)
  /\ \A g \in {"gcForcer", "memoryMonitor"} : WF_vars(OptimizerRetires(g))
  /\ \A g \in Workers \cup {Aggregator} : WF_vars(PoolRetires(g))
  /\ \A g \in {"broadcaster", "streamer"} : WF_vars(DashboardRetires(g))
  /\ WF_vars(CollectorSteps) /\ SF_vars(CollectorReturns)
  /\ WF_vars(UpdaterSteps)

Safety == Init /\ [][Next]_vars
Spec == Safety /\ Fairness

-----------------------------------------------------------------------------
(* Properties *)

\* However the process ends, nothing transmits or serves any more; and after an orderly
\* Stop the collector and the optimizer are gone too (os.Exit leaves them running).
NothingLeftAtExit ==
  at = "exited" =>
    /\ poolLive = {} /\ dashLive = {}
    /\ outcome = "done" => optLive = {} /\ collector = "done"

\* The collector runs as long as anybody makes or shows its metrics: it is started before
\* the pool and stopped after the dashboard.
CollectedWhileUsed == poolLive # {} \/ dashLive # {} => collector \in {"wait", "store"}

\* The final report is final: no log leaves after it, and it never claims one that was
\* not sent, although the update loop may still be at work.
ReportIsFinal ==
  [][report' # NoReport =>
       sent' = sent /\ report'.sent <= sent /\ report \in {NoReport, report'}]_vars

\* Without an outage the rate is never negative, although the collector and the update
\* loop overwrite each other's metrics, so that the total shown may fall back.
SteadyRateIsNonNegative == steady => current.rate >= 0

\* A signal, whenever it comes, and the timer of -duration end the process.
ProgramEnds == (asked \/ flags.duration > 0) ~> at = "exited"

\* Once the pool's total stands still, as in an outage, in which one worker after the
\* other stops counting until it is zero, the rate shown comes back to zero, and not only
\* once, unless the program is stopped: the fall of the total makes it negative for a
\* while, and whoever overwrites the metrics meanwhile, no old total stays the base of
\* the rate for good.
RateSettles ==
  \A n \in 0..MaxSent : [](at = "wait" /\ published = n) ~> current.rate = 0

-----------------------------------------------------------------------------
(* The inductive invariant behind the safety properties.                    *)

\* Where main is while a service may have goroutines.
PoolSpan == {"launchWorkers", "startDashboard", "startStreamer", "launchLoop", "wait",
             "cancel", "stopPool", "awaitPool"}
DashboardSpan == (PoolSpan \ {"launchWorkers", "startDashboard"})
                 \cup {"stopDashboard", "awaitDashboard"}
CollectorSpan == PoolSpan \cup DashboardSpan \cup {"initPool", "startPool", "stopCollector"}
OptimizerSpan == CollectorSpan \cup {"startMonitor", "startCollector", "awaitCollector",
                                     "stopOptimizer", "awaitOptimizer"}

Active == {"running", "stopping"}

\* A service runs only between the step of Start that starts it and the one of Stop that
\* has waited for it, or is left behind by a failed Start.
ServicesInTheirSpans ==
  /\ Pool!Quiet /\ Dashboard!Quiet /\ Optimizer!Quiet
  /\ poolPhase \in Active => at \in PoolSpan
  /\ dashPhase \in Active => at \in DashboardSpan /\ flags.dashboard
  /\ optPhase \in Active => /\ at \in OptimizerSpan \/ outcome = "failed"
                            /\ flags.optimize
  /\ at \in {"startDashboard", "startStreamer"} => flags.dashboard
  /\ at \in {"initOptimizer", "startOptimizer", "startMonitor"} => flags.optimize

\* The collector is up from before the pool's start until after the dashboard's stop.
CollectorInItsSpan ==
  /\ at \in CollectorSpan => collector \in {"wait", "store"}
  /\ at \in {"stopOptimizer", "awaitOptimizer", "report", "return"} => collector = "done"
  /\ outcome = "done" => collector = "done" /\ optPhase \notin Active

ExitIsTheEnd ==
  /\ outcome # "none" <=> at = "exited"
  /\ report # NoReport => at = "return" \/ outcome = "done"

\* No figure anywhere claims more than was sent.
NothingAhead ==
  /\ published <= sent /\ total <= sent /\ lastTotalSent <= sent
  /\ computed.sent <= sent /\ current.sent <= sent /\ loaded.sent <= sent
  /\ report.sent <= sent

\* Without an outage every total that may be shown next is at least the last one.
TotalsInOrder ==
  steady =>
    /\ lastTotalSent <= current.sent /\ current.sent <= published
    /\ collector = "store" => computed.sent = lastTotalSent
    /\ updater \in {"copy", "store"} => current.sent <= total /\ total <= published
    /\ current.rate >= 0 /\ computed.rate >= 0 /\ loaded.rate >= 0

AppInv == /\ TypeOK /\ ServicesInTheirSpans /\ CollectorInItsSpan /\ ExitIsTheEnd
          /\ NothingAhead /\ TotalsInOrder
=============================================================================
