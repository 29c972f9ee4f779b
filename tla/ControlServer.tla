---------------------------- MODULE ControlServer ----------------------------
(***************************************************************************)
(* The web control server (internal/monitor/control_server.go, driven by   *)
(* cmd/web_main.go): its handlers, which cs.mutex serialises, step by step *)
(* against the metrics update loops, which read cs.isRunning and           *)
(* cs.workerPool without the mutex.                                        *)
(*                                                                         *)
(* A worker pool is known by the number of the initializeGenerator call    *)
(* that made it, and appears here through the phases of ServiceLifecycle.  *)
(***************************************************************************)
EXTENDS Naturals, FiniteSets

CONSTANTS
  ProfileTable,    \* config.EPSProfiles but "custom": name -> [eps, workers]
  CustomWorkers,   \* calculateWorkerCount: eps -> workers
  PostedConfigs,   \* bodies clients send to /api/config
  StartRequests,   \* what /api/start gets of its clients' bodies
  DefaultConfig,   \* getDefaultConfig()
  MaxPools         \* bound: initializeGenerator gets this far so many times

Configs == [profile : STRING, host : STRING, eps : Nat, workers : Nat,
            optimize : BOOLEAN]

ASSUME TableAssumption ==
  /\ "custom" \notin DOMAIN ProfileTable
  /\ "4m" \in DOMAIN ProfileTable
ASSUME ConfigsAssumption == DefaultConfig \in Configs /\ PostedConfigs \subseteq Configs
ASSUME MaxPoolsAssumption == MaxPools \in Nat \ {0}

Pools == 1..MaxPools
None == 0           \* a nil pointer

VARIABLES
  handler,          \* who holds cs.mutex: none, start, stop, restart, shutdown
  at,               \* where that handler is; "free" when the mutex is, "exited"
                    \* once main returned
  isRunning,        \* cs.isRunning
  pool,             \* cs.workerPool
  memoryOptimizer,  \* cs.memoryOptimizer
  collecting,       \* cs.metricsCollector.isCollecting
  collectorStop,    \* its stopChan: open, closed
  collectLoop,      \* its goroutine: none, alive
  config,           \* *cs.currentConfig
  made,             \* how many pools were made
  poolPhase,        \* of each pool made, as in ServiceLifecycle
  poolConfig,       \* what each pool was made from: [host, eps, workers]
  optimizers,       \* the memory optimizers whose goroutines run
  loop              \* the update loop launched with each pool: none, check, wait, done

collectorVars == <<collecting, collectorStop, collectLoop>>
vars == <<handler, at, isRunning, pool, memoryOptimizer, collectorVars, config, made,
          poolPhase, poolConfig, optimizers, loop>>

Settings(c) == [host |-> c.host, eps |-> c.eps, workers |-> c.workers]
NoSettings == [host |-> "", eps |-> 0, workers |-> 0]

TypeOK ==
  /\ handler \in {"none", "start", "stop", "restart", "shutdown"}
  /\ at \in {"free", "init", "initPool", "startPool", "startLoop", "setRunning",
             "stopPool", "dropPool", "stopCollector", "awaitCollector",
             "stopOptimizer", "clearRunning", "readBody", "exited"}
  /\ handler = "none" <=> at \in {"free", "exited"}
  /\ isRunning \in BOOLEAN
  /\ pool \in Pools \cup {None}
  /\ memoryOptimizer \in Pools \cup {None}
  /\ collecting \in BOOLEAN
  /\ collectorStop \in {"open", "closed"}
  /\ collectLoop \in {"none", "alive"}
  /\ DOMAIN config = {"profile", "host", "eps", "workers", "optimize"}
  /\ made \in 0..MaxPools
  /\ poolPhase \in [Pools -> {"none", "created", "ready", "running", "stopped"}]
  /\ DOMAIN poolConfig = Pools
  /\ optimizers \in SUBSET Pools
  /\ loop \in [Pools -> {"none", "check", "wait", "done"}]

Init ==
  /\ handler = "none" /\ at = "free"
  /\ isRunning = FALSE /\ pool = None /\ memoryOptimizer = None
  /\ collecting = FALSE /\ collectorStop = "open" /\ collectLoop = "none"
  /\ config = DefaultConfig
  /\ made = 0
  /\ poolPhase = [p \in Pools |-> "none"]
  /\ poolConfig = [p \in Pools |-> NoSettings]
  /\ optimizers = {}
  /\ loop = [p \in Pools |-> "none"]

-----------------------------------------------------------------------------
(* Configuration: handleConfig, validateConfig, initializeGenerator.       *)

Known(name) == name \in DOMAIN ProfileTable

\* The two ranges the model keeps; memory_limit_gb is checked in the same way.
InRange(c) == c.eps \in 1..10000000 /\ c.workers \in 1..200

\* A known profile always passes, and its own figures replace the posted ones.  An
\* unknown name passes when the figures do, and makes the next start fail.
Validated(c) == IF Known(c.profile)
                THEN [c EXCEPT !.eps = ProfileTable[c.profile].eps,
                               !.workers = ProfileTable[c.profile].workers]
                ELSE c

\* As if the new configuration were stored without taking cs.mutex.
SaveConfigUnlocked ==
  /\ at # "exited"
  /\ \E c \in PostedConfigs :
       /\ Known(c.profile) \/ InRange(c)
       /\ config' = Validated(c)
  /\ UNCHANGED <<handler, at, isRunning, pool, memoryOptimizer, collectorVars, made,
                 poolPhase, poolConfig, optimizers, loop>>

\* POST /api/config, running or not.
SaveConfig ==
  /\ at = "free"
  /\ \E c \in PostedConfigs :
       /\ Known(c.profile) \/ InRange(c)
       /\ config' = Validated(c)
  /\ UNCHANGED <<handler, at, isRunning, pool, memoryOptimizer, collectorVars, made,
                 poolPhase, poolConfig, optimizers, loop>>

\* handleStart overwrites what the request names, in place and unvalidated.
Requested(c, r) ==
  [c EXCEPT !.profile = IF r.profile # "" THEN r.profile ELSE @,
            !.host = IF r.host # "" THEN r.host ELSE @,
            !.eps = IF r.eps > 0 THEN r.eps ELSE @]

ProfileOf(c) == IF c.profile = "" THEN "4m" ELSE c.profile

Loads(c) == ProfileOf(c) = "custom" \/ Known(ProfileOf(c))

\* The figures of the loaded profile replace those of the configuration, so that a
\* custom worker count does not survive a start.  (Batch size, interval, memory and GC
\* fields go the same way.)
Loaded(c) ==
  LET p == ProfileOf(c)
  IN [c EXCEPT !.profile = p,
               !.eps = IF p = "custom" THEN @ ELSE ProfileTable[p].eps,
               !.workers = IF p = "custom" THEN CustomWorkers[c.eps]
                           ELSE ProfileTable[p].workers]

-----------------------------------------------------------------------------
(* The entries of the handlers, with the mutex just taken.  The answers that only
   report an error ("already running", "not running") change nothing.             *)

\* As if handleStart did not look at cs.isRunning.
HandleStartAnyway ==
  /\ at = "free"
  /\ handler' = "start" /\ at' \in {"readBody", "init"}
  /\ UNCHANGED <<isRunning, pool, memoryOptimizer, collectorVars, config, made, poolPhase,
                 poolConfig, optimizers, loop>>

\* Only the body of a POST is read.
HandleStart ==
  /\ at = "free" /\ ~isRunning
  /\ handler' = "start" /\ at' \in {"readBody", "init"}
  /\ UNCHANGED <<isRunning, pool, memoryOptimizer, collectorVars, config, made, poolPhase,
                 poolConfig, optimizers, loop>>

\* The body is decoded as it comes from the client, with the mutex held and no time limit.
\* A body that is no JSON, or breaks off, is taken for one that names nothing.
ReadBody ==
  /\ at = "readBody" /\ at' = "init"
  /\ \E r \in StartRequests : config' = Requested(config, r)
  /\ UNCHANGED <<handler, isRunning, pool, memoryOptimizer, collectorVars, made, poolPhase,
                 poolConfig, optimizers, loop>>

\* As if handleStop did not look at cs.isRunning.
HandleStopAnyway ==
  /\ at = "free"
  /\ handler' = "stop" /\ at' = "stopPool"
  /\ UNCHANGED <<isRunning, pool, memoryOptimizer, collectorVars, config, made,
                 poolPhase, poolConfig, optimizers, loop>>

HandleStop ==
  /\ at = "free" /\ isRunning
  /\ handler' = "stop" /\ at' = "stopPool"
  /\ UNCHANGED <<isRunning, pool, memoryOptimizer, collectorVars, config, made,
                 poolPhase, poolConfig, optimizers, loop>>

HandleRestart ==
  /\ at = "free"
  /\ handler' = "restart" /\ at' = IF isRunning THEN "stopPool" ELSE "init"
  /\ UNCHANGED <<isRunning, pool, memoryOptimizer, collectorVars, config, made,
                 poolPhase, poolConfig, optimizers, loop>>

\* ControlServer.Stop, on SIGINT or SIGTERM; main returns after it.
Shutdown ==
  /\ at = "free"
  /\ IF isRunning THEN handler' = "shutdown" /\ at' = "stopPool"
                  ELSE handler' = "none" /\ at' = "exited"
  /\ UNCHANGED <<isRunning, pool, memoryOptimizer, collectorVars, config, made,
                 poolPhase, poolConfig, optimizers, loop>>

-----------------------------------------------------------------------------
(* initializeGenerator and startGenerator, for start and restart.          *)

\* As if the error were answered before the mutex is released, and never released it.
LoadFailsKeepsMutex ==
  /\ at = "init" /\ ~Loads(config)
  /\ UNCHANGED vars

\* GetProfile does not know the name: the handler answers with the error.
LoadFails ==
  /\ at = "init" /\ ~Loads(config)
  /\ handler' = "none" /\ at' = "free"
  /\ UNCHANGED <<isRunning, pool, memoryOptimizer, collectorVars, config, made,
                 poolPhase, poolConfig, optimizers, loop>>

\* The profile is applied, a new optimizer (if asked for) runs and a new pool is made;
\* the fields that held the old ones are overwritten.
MakePool ==
  /\ at = "init" /\ Loads(config) /\ made < MaxPools
  /\ LET p == made + 1
     IN /\ made' = p
        /\ config' = Loaded(config)
        /\ pool' = p
        /\ poolPhase' = [poolPhase EXCEPT ![p] = "created"]
        /\ poolConfig' = [poolConfig EXCEPT ![p] = Settings(config')]
        /\ IF config.optimize
           THEN memoryOptimizer' = p /\ optimizers' = optimizers \cup {p}
           ELSE UNCHANGED <<memoryOptimizer, optimizers>>
  /\ at' = "initPool"
  /\ UNCHANGED <<handler, isRunning, collectorVars, loop>>

\* MetricsCollector.Start: nothing if it collects already; else a stop channel that an
\* earlier Stop closed is made anew, and the loop launched.
StartCollector ==
  IF collecting
  THEN UNCHANGED collectorVars
  ELSE collecting' = TRUE /\ collectorStop' = "open" /\ collectLoop' = "alive"

\* As if Start did not look at the stop channel.
InitPoolKeepsChannel ==
  /\ at = "initPool" /\ at' = "startPool"
  /\ poolPhase' = [poolPhase EXCEPT ![pool] = "ready"]
  /\ collecting' = TRUE /\ collectLoop' = "alive"
  /\ UNCHANGED <<handler, isRunning, pool, memoryOptimizer, collectorStop, config, made,
                 poolConfig, optimizers, loop>>

\* workerPool.Initialize succeeds, and the collector is started.
InitPool ==
  /\ at = "initPool" /\ at' = "startPool"
  /\ poolPhase' = [poolPhase EXCEPT ![pool] = "ready"]
  /\ StartCollector
  /\ UNCHANGED <<handler, isRunning, pool, memoryOptimizer, config, made, poolConfig,
                 optimizers, loop>>

\* It fails (the target host does not resolve): the handler answers with the error and
\* leaves the optimizer running and the pool in place.
InitPoolFails ==
  /\ at = "initPool"
  /\ handler' = "none" /\ at' = "free"
  /\ UNCHANGED <<isRunning, pool, memoryOptimizer, collectorVars, config, made,
                 poolPhase, poolConfig, optimizers, loop>>

StartPool ==
  /\ at = "startPool" /\ at' = "startLoop"
  /\ poolPhase' = [poolPhase EXCEPT ![pool] = "running"]
  /\ UNCHANGED <<handler, isRunning, pool, memoryOptimizer, collectorVars, config, made,
                 poolConfig, optimizers, loop>>

\* go cs.metricsUpdateLoop()
LaunchLoop ==
  /\ at = "startLoop" /\ at' = "setRunning"
  /\ loop' = [loop EXCEPT ![pool] = "check"]
  /\ UNCHANGED <<handler, isRunning, pool, memoryOptimizer, collectorVars, config, made,
                 poolPhase, poolConfig, optimizers>>

SetRunning ==
  /\ at = "setRunning"
  /\ isRunning' = TRUE
  /\ handler' = "none" /\ at' = "free"
  /\ UNCHANGED <<pool, memoryOptimizer, collectorVars, config, made, poolPhase,
                 poolConfig, optimizers, loop>>

-----------------------------------------------------------------------------
(* stopGenerator, for stop, restart and shutdown.                          *)

\* As if the pool were forgotten without workerPool.Stop().
ForgetPool ==
  /\ at = "stopPool" /\ at' = "dropPool"
  /\ UNCHANGED <<handler, isRunning, pool, memoryOptimizer, collectorVars, config, made,
                 poolPhase, poolConfig, optimizers, loop>>

\* workerPool.Stop() returns when the pool is stopped.
StopPool ==
  /\ at = "stopPool" /\ at' = "dropPool"
  /\ poolPhase' = [poolPhase EXCEPT ![pool] = "stopped"]
  /\ UNCHANGED <<handler, isRunning, pool, memoryOptimizer, collectorVars, config, made,
                 poolConfig, optimizers, loop>>

DropPool ==
  /\ at = "dropPool" /\ at' = "stopCollector"
  /\ pool' = None
  /\ UNCHANGED <<handler, isRunning, memoryOptimizer, collectorVars, config, made,
                 poolPhase, poolConfig, optimizers, loop>>

\* MetricsCollector.Stop: nothing if it does not collect; else its stop channel is closed
\* (if it was not closed before, in which case nobody waits) ...
StopCollector ==
  /\ at = "stopCollector"
  /\ collecting' = FALSE
  /\ at' = IF collecting /\ collectorStop = "open" THEN "awaitCollector"
           ELSE "stopOptimizer"
  /\ collectorStop' = IF collecting THEN "closed" ELSE collectorStop
  /\ UNCHANGED <<handler, isRunning, pool, memoryOptimizer, collectLoop, config, made,
                 poolPhase, poolConfig, optimizers, loop>>

\* ... and its loop awaited.
AwaitCollector ==
  /\ at = "awaitCollector" /\ collectLoop = "none"
  /\ at' = "stopOptimizer"
  /\ UNCHANGED <<handler, isRunning, pool, memoryOptimizer, collectorVars, config, made,
                 poolPhase, poolConfig, optimizers, loop>>

\* collectLoop returns once the stop channel is closed, whenever it was launched.
CollectLoopReturns ==
  /\ collectLoop = "alive" /\ collectorStop = "closed" /\ at # "exited"
  /\ collectLoop' = "none"
  /\ UNCHANGED <<handler, at, isRunning, pool, memoryOptimizer, collecting,
                 collectorStop, config, made, poolPhase, poolConfig, optimizers, loop>>

\* As if the optimizer were forgotten without Stop().
ForgetOptimizer ==
  /\ at = "stopOptimizer" /\ at' = "clearRunning"
  /\ memoryOptimizer' = None
  /\ UNCHANGED <<handler, isRunning, pool, collectorVars, config, made, poolPhase,
                 poolConfig, optimizers, loop>>

\* The optimizer, if there is one, is stopped, which waits for its goroutines.
StopOptimizer ==
  /\ at = "stopOptimizer" /\ at' = "clearRunning"
  /\ optimizers' = optimizers \ {memoryOptimizer}
  /\ memoryOptimizer' = None
  /\ UNCHANGED <<handler, isRunning, pool, collectorVars, config, made, poolPhase,
                 poolConfig, loop>>

\* As if the mutex were free again while a restart goes on.
ClearRunningReleasesEarly ==
  /\ at = "clearRunning"
  /\ isRunning' = FALSE
  /\ at' = CASE handler = "stop" -> "free"
             [] handler = "restart" -> "init"
             [] handler = "shutdown" -> "exited"
  /\ handler' = "none"
  /\ UNCHANGED <<pool, memoryOptimizer, collectorVars, config, made, poolPhase,
                 poolConfig, optimizers, loop>>

\* handleStop answers; handleRestart sleeps a second with the mutex held and goes on;
\* main returns after Stop.
ClearRunning ==
  /\ at = "clearRunning"
  /\ isRunning' = FALSE
  /\ at' = CASE handler = "stop" -> "free"
             [] handler = "restart" -> "init"
             [] handler = "shutdown" -> "exited"
  /\ handler' = IF handler = "restart" THEN handler ELSE "none"
  /\ UNCHANGED <<pool, memoryOptimizer, collectorVars, config, made, poolPhase,
                 poolConfig, optimizers, loop>>

-----------------------------------------------------------------------------
(* metricsUpdateLoop of pool p, which runs without the mutex.              *)

\* As if the loop had no condition.
LoopChecksNothing(p) ==
  /\ loop[p] = "check" /\ at # "exited"
  /\ loop' = [loop EXCEPT ![p] = "wait"]
  /\ UNCHANGED <<handler, at, isRunning, pool, memoryOptimizer, collectorVars, config,
                 made, poolPhase, poolConfig, optimizers>>

\* for cs.isRunning
LoopChecks(p) ==
  /\ loop[p] = "check" /\ at # "exited"
  /\ loop' = [loop EXCEPT ![p] = IF isRunning THEN "wait" ELSE "done"]
  /\ UNCHANGED <<handler, at, isRunning, pool, memoryOptimizer, collectorVars, config,
                 made, poolPhase, poolConfig, optimizers>>

\* The ticker fires; if there is a pool, its metrics go to the collector (see
\* MetricsPipeline).  An optimised build loads cs.workerPool once for the nil test and
\* the call, so the pool can be stale there but not nil.
LoopTicks(p) ==
  /\ loop[p] = "wait" /\ at # "exited"
  /\ loop' = [loop EXCEPT ![p] = "check"]
  /\ UNCHANGED <<handler, at, isRunning, pool, memoryOptimizer, collectorVars, config,
                 made, poolPhase, poolConfig, optimizers>>

-----------------------------------------------------------------------------
StartSteps == LoadFails \/ MakePool \/ InitPool \/ InitPoolFails \/ StartPool
              \/ LaunchLoop \/ SetRunning
StopSteps == StopPool \/ DropPool \/ StopCollector \/ AwaitCollector \/ StopOptimizer
             \/ ClearRunning

\* main has returned, or the bound on pools is used up inside a handler.
Ended == (at = "exited" \/ (at = "init" /\ made = MaxPools)) /\ UNCHANGED vars

Next == \/ SaveConfig \/ HandleStart \/ ReadBody \/ HandleStop \/ HandleRestart \/ Shutdown
        \/ StartSteps \/ StopSteps \/ CollectLoopReturns \/ Ended
        \/ \E p \in Pools : LoopChecks(p) \/ LoopTicks(p)

\* A handler that holds the mutex goes on, loops evaluate their condition, and tickers
\* fire.  Clients need not send anything, nor the end of what they began to send.
Fairness ==
  /\ WF_vars(StartSteps) /\ WF_vars(StopSteps) /\ WF_vars(CollectLoopReturns)
  /\ \A p \in Pools : WF_vars(LoopChecks(p)) /\ WF_vars(LoopTicks(p))

Safety == Init /\ [][Next]_vars
Spec == Safety /\ Fairness

-----------------------------------------------------------------------------
(* Properties *)

\* At most one pool runs, and cs.workerPool points to it: no start, stop or restart
\* leaves a pool transmitting that nobody can stop any more.
NoOrphanPool == \A p \in Pools : poolPhase[p] = "running" => pool = p

\* Whenever the mutex is free, isRunning tells the truth: the pool runs and the
\* collector collects exactly when it says so.
FlagTellsTruth ==
  at = "free" =>
    /\ isRunning <=> (\E p \in Pools : poolPhase[p] = "running")
    /\ isRunning <=> collecting

\* The collector, one for all runs, serves each of them anew: while the generator runs,
\* its loop is there and has no reason to end; while it is stopped, the loop is gone.
CollectorServesEveryRun ==
  at = "free" => IF isRunning THEN collectLoop = "alive" /\ collectorStop = "open"
                              ELSE collectLoop = "none"

\* A running memory optimizer that the server has lost track of was started by a
\* handler whose Initialize then failed; every other is stopped with its run.
OptimizerLostOnlyByFailedInit ==
  \A p \in optimizers : p = memoryOptimizer \/ poolPhase[p] = "created"

\* A start uses the configuration as it stands when the start is reported: none can be
\* saved between the making of the pool and the answer.
StartUsesCurrentConfig ==
  [][~isRunning /\ isRunning' => poolConfig[pool] = Settings(config)]_vars

\* A pool serves one run.  It is initialised when it was just made, started when just
\* initialised, stopped when it runs, and never touched again: its context stays
\* cancelled and its workers' stop channels closed, so a second start would launch
\* goroutines that end at once, and a stop of one that does not run does nothing.
PoolsLiveOnce ==
  [][\A p \in Pools :
       poolPhase'[p] # poolPhase[p] =>
         <<poolPhase[p], poolPhase'[p]>> \in
           {<<"none", "created">>, <<"created", "ready">>, <<"ready", "running">>,
            <<"running", "stopped">>}]_vars

\* An update loop that is alive while the generator is stopped ends, unless the
\* generator is started again first.
LoopEndsAfterStop ==
  \A p \in Pools :
    (loop[p] = "wait" /\ ~isRunning) ~> (loop[p] = "done" \/ isRunning \/ at = "exited")

\* Every handler answers and gives cs.mutex back, on its error paths too, whatever the
\* loops do meanwhile; or it wants more pools than the bound allows.  There is one place
\* where it may keep the mutex for good, and with it every other request and Stop: a
\* start whose client never ends its body.
HandlersReturn ==
  handler # "none" ~> \/ handler = "none"
                      \/ [](at = "readBody")
                      \/ at = "init" /\ made = MaxPools

\* While the generator runs, a loop feeds its metrics to the collector ("start the
\* metrics update loop", control_server.go:654).
LoopRunsWhileRunning ==
  at = "free" /\ isRunning => \E p \in Pools : loop[p] \in {"check", "wait"}

\* A saved configuration takes effect at once (README_WEB.md:23).
ConfigTakesEffect == at = "free" /\ isRunning => poolConfig[pool] = Settings(config)

-----------------------------------------------------------------------------
(* The inductive invariant behind the safety properties.                    *)

StartPlaces == {"readBody", "init", "initPool", "startPool", "startLoop", "setRunning"}
StopPlaces == {"stopPool", "dropPool", "stopCollector", "awaitCollector",
               "stopOptimizer", "clearRunning"}

\* Between two handlers the generator runs; or a start has got so far, or a stop not yet.
Serving == at \in {"free", "exited"} /\ isRunning
PoolUp == Serving \/ at \in {"startLoop", "setRunning", "stopPool"}
CollectorUp == PoolUp \/ at \in {"startPool", "dropPool", "stopCollector"}
OptimizerUp == CollectorUp \/ at \in {"awaitCollector", "stopOptimizer"}

\* While a handler holds the mutex, its place in the code decides what isRunning says.
FlagFollowsPlace ==
  /\ at \in StartPlaces => ~isRunning /\ handler \in {"start", "restart"}
  /\ at \in StopPlaces => isRunning /\ handler \in {"stop", "restart", "shutdown"}

\* One pool runs, the one the server points to, and only where one is up; a start finds
\* its pool as the steps before left it, made from the configuration there still is.
PoolFollowsPlace ==
  /\ \A p \in Pools : p > made => poolPhase[p] = "none"
  /\ \A p \in Pools : poolPhase[p] = "running" => PoolUp /\ pool = p
  /\ PoolUp => pool \in Pools /\ poolPhase[pool] = "running"
  /\ at \in StartPlaces \ {"readBody", "init"} => pool \in Pools /\ poolConfig[pool] = Settings(config)
  /\ at = "initPool" => poolPhase[pool] = "created"
  /\ at = "startPool" => poolPhase[pool] = "ready"

CollectorFollowsPlace ==
  IF CollectorUp
  THEN collecting /\ collectorStop = "open" /\ collectLoop = "alive"
  ELSE ~collecting /\ (at # "awaitCollector" => collectLoop = "none")

\* An optimizer whose pool was never initialised is of a failed start, or of the start
\* under way; any other is that of the run.
OptimizersAccountedFor ==
  /\ \A p \in optimizers :
       p <= made /\ (poolPhase[p] = "created" \/ (OptimizerUp /\ p = memoryOptimizer))
  /\ at = "initPool" /\ pool \in optimizers => pool = memoryOptimizer

ServerInv == /\ TypeOK /\ FlagFollowsPlace /\ PoolFollowsPlace /\ CollectorFollowsPlace
             /\ OptimizersAccountedFor
=============================================================================
