------------------------ MODULE ControlServer_proofs ------------------------
(***************************************************************************)
(* Theorems about ControlServer, for every profile table, every set of     *)
(* configurations and requests, and every number of pools.                 *)
(***************************************************************************)
EXTENDS ControlServer, TLAPS

\* The inductive invariant of the server: at the start,
LEMMA ServerInit == Init => ServerInv
<1> SUFFICES ASSUME Init PROVE ServerInv
  OBVIOUS
<1> USE MaxPoolsAssumption DEF Init, Pools, None
<1>1. TypeOK
  <2>1. DOMAIN config = {"profile", "host", "eps", "workers", "optimize"}
    BY ConfigsAssumption DEF Configs
  <2>2. isRunning \in BOOLEAN /\ collecting \in BOOLEAN
    BY Zenon
  <2> QED
    BY <2>1, <2>2 DEF TypeOK
<1>2. FlagFollowsPlace /\ PoolFollowsPlace /\ CollectorFollowsPlace
  BY DEF FlagFollowsPlace, PoolFollowsPlace, CollectorFollowsPlace, StartPlaces, StopPlaces,
         CollectorUp, PoolUp, Serving
<1>3. OptimizersAccountedFor
  BY DEF OptimizersAccountedFor
<1> QED
  BY <1>1, <1>2, <1>3 DEF ServerInv

\* Posted configurations are configurations, validated or not.
LEMMA ValidatedShape ==
  ASSUME NEW c \in Configs
  PROVE  DOMAIN Validated(c) = {"profile", "host", "eps", "workers", "optimize"}
BY DEF Validated, Configs

\* No step leaves the types.
LEMMA TypeStep ==
  ASSUME TypeOK, FlagFollowsPlace, PoolFollowsPlace, [Next]_vars
  PROVE  TypeOK'
<1> USE MaxPoolsAssumption DEF TypeOK, Pools, None, collectorVars
<1>1. CASE SaveConfig
  BY <1>1, ConfigsAssumption, ValidatedShape DEF SaveConfig
<1>2. CASE HandleStart
  BY <1>2 DEF HandleStart
<1>3. CASE HandleStop
  BY <1>3 DEF HandleStop
<1>4. CASE HandleRestart
  BY <1>4 DEF HandleRestart
<1>5. CASE Shutdown
  BY <1>5 DEF Shutdown
<1>6. CASE LoadFails
  BY <1>6 DEF LoadFails
<1>7. CASE MakePool
  BY <1>7 DEF MakePool, Loaded
<1>8. CASE InitPool
  BY <1>8 DEF InitPool, StartCollector, PoolFollowsPlace, StartPlaces
<1>9. CASE InitPoolFails
  BY <1>9 DEF InitPoolFails
<1>10. CASE StartPool
  BY <1>10 DEF StartPool, PoolFollowsPlace, StartPlaces
<1>11. CASE LaunchLoop
  BY <1>11 DEF LaunchLoop, PoolFollowsPlace, StartPlaces
<1>12. CASE SetRunning
  BY <1>12 DEF SetRunning
<1>13. CASE StopPool
  BY <1>13 DEF StopPool, PoolFollowsPlace, PoolUp
<1>14. CASE DropPool
  BY <1>14 DEF DropPool
<1>15. CASE StopCollector
  BY <1>15 DEF StopCollector
<1>16. CASE AwaitCollector
  BY <1>16 DEF AwaitCollector
<1>17. CASE StopOptimizer
  BY <1>17 DEF StopOptimizer
<1>18. CASE ClearRunning
  BY <1>18 DEF ClearRunning, FlagFollowsPlace, StopPlaces
<1>19. CASE CollectLoopReturns
  BY <1>19 DEF CollectLoopReturns
<1>20. CASE Ended
  BY <1>20 DEF Ended, vars
<1>21. ASSUME NEW q \in Pools, LoopChecks(q)
      PROVE  TypeOK'
  BY <1>21 DEF LoopChecks
<1>22. ASSUME NEW q \in Pools, LoopTicks(q)
      PROVE  TypeOK'
  BY <1>22 DEF LoopTicks
<1>23. CASE UNCHANGED vars
  BY <1>23 DEF vars
<1>24. CASE ReadBody
  BY <1>24 DEF ReadBody, Requested
<1> QED
  BY <1>1, <1>2, <1>3, <1>4, <1>5, <1>6, <1>7, <1>8, <1>9, <1>10, <1>11, <1>12,
     <1>13, <1>14, <1>15, <1>16, <1>17, <1>18, <1>19, <1>20, <1>21, <1>22, <1>23, <1>24
     DEF Next, StartSteps, StopSteps

\* The flag follows the handler's place.
LEMMA FlagStep ==
  ASSUME TypeOK, FlagFollowsPlace, [Next]_vars
  PROVE  FlagFollowsPlace'
<1> USE DEF TypeOK, FlagFollowsPlace, StartPlaces, StopPlaces, collectorVars
<1>1. CASE SaveConfig
  BY <1>1 DEF SaveConfig
<1>2. CASE HandleStart
  BY <1>2 DEF HandleStart
<1>3. CASE HandleStop
  BY <1>3 DEF HandleStop
<1>4. CASE HandleRestart
  BY <1>4 DEF HandleRestart
<1>5. CASE Shutdown
  BY <1>5 DEF Shutdown
<1>6. CASE LoadFails
  BY <1>6 DEF LoadFails
<1>7. CASE MakePool
  BY <1>7 DEF MakePool
<1>8. CASE InitPool
  BY <1>8 DEF InitPool
<1>9. CASE InitPoolFails
  BY <1>9 DEF InitPoolFails
<1>10. CASE StartPool
  BY <1>10 DEF StartPool
<1>11. CASE LaunchLoop
  BY <1>11 DEF LaunchLoop
<1>12. CASE SetRunning
  BY <1>12 DEF SetRunning
<1>13. CASE StopPool
  BY <1>13 DEF StopPool
<1>14. CASE DropPool
  BY <1>14 DEF DropPool
<1>15. CASE StopCollector
  BY <1>15 DEF StopCollector
<1>16. CASE AwaitCollector
  BY <1>16 DEF AwaitCollector
<1>17. CASE StopOptimizer
  BY <1>17 DEF StopOptimizer
<1>18. CASE ClearRunning
  BY <1>18 DEF ClearRunning
<1>19. CASE CollectLoopReturns
  BY <1>19 DEF CollectLoopReturns
<1>20. CASE Ended
  BY <1>20 DEF Ended, vars
<1>21. ASSUME NEW q \in Pools, LoopChecks(q)
      PROVE  FlagFollowsPlace'
  BY <1>21 DEF LoopChecks
<1>22. ASSUME NEW q \in Pools, LoopTicks(q)
      PROVE  FlagFollowsPlace'
  BY <1>22 DEF LoopTicks
<1>23. CASE UNCHANGED vars
  BY <1>23 DEF vars
<1>24. CASE ReadBody
  BY <1>24 DEF ReadBody
<1> QED
  BY <1>1, <1>2, <1>3, <1>4, <1>5, <1>6, <1>7, <1>8, <1>9, <1>10, <1>11, <1>12,
     <1>13, <1>14, <1>15, <1>16, <1>17, <1>18, <1>19, <1>20, <1>21, <1>22, <1>23, <1>24
     DEF Next, StartSteps, StopSteps

\* So does the pool.
LEMMA PoolStep ==
  ASSUME TypeOK, FlagFollowsPlace, PoolFollowsPlace, [Next]_vars
  PROVE  PoolFollowsPlace'
<1> USE MaxPoolsAssumption DEF TypeOK, FlagFollowsPlace, PoolFollowsPlace, StartPlaces, StopPlaces, PoolUp,
           Serving, Pools, None, collectorVars
<1>1. CASE SaveConfig
  BY <1>1 DEF SaveConfig
<1>2. CASE HandleStart
  BY <1>2 DEF HandleStart
<1>3. CASE HandleStop
  BY <1>3 DEF HandleStop
<1>4. CASE HandleRestart
  BY <1>4 DEF HandleRestart
<1>5. CASE Shutdown
  BY <1>5 DEF Shutdown
<1>6. CASE LoadFails
  BY <1>6 DEF LoadFails
<1>7. CASE MakePool
  BY <1>7 DEF MakePool, Settings
<1>8. CASE InitPool
  BY <1>8 DEF InitPool
<1>9. CASE InitPoolFails
  BY <1>9 DEF InitPoolFails
<1>10. CASE StartPool
  BY <1>10 DEF StartPool
<1>11. CASE LaunchLoop
  BY <1>11 DEF LaunchLoop
<1>12. CASE SetRunning
  BY <1>12 DEF SetRunning
<1>13. CASE StopPool
  BY <1>13 DEF StopPool
<1>14. CASE DropPool
  BY <1>14 DEF DropPool
<1>15. CASE StopCollector
  BY <1>15 DEF StopCollector
<1>16. CASE AwaitCollector
  BY <1>16 DEF AwaitCollector
<1>17. CASE StopOptimizer
  BY <1>17 DEF StopOptimizer
<1>18. CASE ClearRunning
  BY <1>18 DEF ClearRunning
<1>19. CASE CollectLoopReturns
  BY <1>19 DEF CollectLoopReturns
<1>20. CASE Ended
  BY <1>20 DEF Ended, vars
<1>21. ASSUME NEW q \in Pools, LoopChecks(q)
      PROVE  PoolFollowsPlace'
  BY <1>21 DEF LoopChecks
<1>22. ASSUME NEW q \in Pools, LoopTicks(q)
      PROVE  PoolFollowsPlace'
  BY <1>22 DEF LoopTicks
<1>23. CASE UNCHANGED vars
  BY <1>23 DEF vars
<1>24. CASE ReadBody
  BY <1>24 DEF ReadBody
<1> QED
  BY <1>1, <1>2, <1>3, <1>4, <1>5, <1>6, <1>7, <1>8, <1>9, <1>10, <1>11, <1>12,
     <1>13, <1>14, <1>15, <1>16, <1>17, <1>18, <1>19, <1>20, <1>21, <1>22, <1>23, <1>24
     DEF Next, StartSteps, StopSteps

\* So does the collector.
LEMMA CollectorStep ==
  ASSUME TypeOK, FlagFollowsPlace, CollectorFollowsPlace, [Next]_vars
  PROVE  CollectorFollowsPlace'
<1> USE DEF TypeOK, FlagFollowsPlace, CollectorFollowsPlace, StartPlaces, StopPlaces, CollectorUp,
        PoolUp, Serving, collectorVars
<1>1. CASE SaveConfig
  BY <1>1 DEF SaveConfig
<1>2. CASE HandleStart
  BY <1>2 DEF HandleStart
<1>3. CASE HandleStop
  BY <1>3 DEF HandleStop
<1>4. CASE HandleRestart
  BY <1>4 DEF HandleRestart
<1>5. CASE Shutdown
  BY <1>5 DEF Shutdown
<1>6. CASE LoadFails
  BY <1>6 DEF LoadFails
<1>7. CASE MakePool
  BY <1>7 DEF MakePool
<1>8. CASE InitPool
  BY <1>8 DEF InitPool, StartCollector
<1>9. CASE InitPoolFails
  BY <1>9 DEF InitPoolFails
<1>10. CASE StartPool
  BY <1>10 DEF StartPool
<1>11. CASE LaunchLoop
  BY <1>11 DEF LaunchLoop
<1>12. CASE SetRunning
  BY <1>12 DEF SetRunning
<1>13. CASE StopPool
  BY <1>13 DEF StopPool
<1>14. CASE DropPool
  BY <1>14 DEF DropPool
<1>15. CASE StopCollector
  BY <1>15 DEF StopCollector
<1>16. CASE AwaitCollector
  BY <1>16 DEF AwaitCollector
<1>17. CASE StopOptimizer
  BY <1>17 DEF StopOptimizer
<1>18. CASE ClearRunning
  BY <1>18 DEF ClearRunning
<1>19. CASE CollectLoopReturns
  BY <1>19 DEF CollectLoopReturns
<1>20. CASE Ended
  BY <1>20 DEF Ended, vars
<1>21. ASSUME NEW q \in Pools, LoopChecks(q)
      PROVE  CollectorFollowsPlace'
  BY <1>21 DEF LoopChecks
<1>22. ASSUME NEW q \in Pools, LoopTicks(q)
      PROVE  CollectorFollowsPlace'
  BY <1>22 DEF LoopTicks
<1>23. CASE UNCHANGED vars
  BY <1>23 DEF vars
<1>24. CASE ReadBody
  BY <1>24 DEF ReadBody
<1> QED
  BY <1>1, <1>2, <1>3, <1>4, <1>5, <1>6, <1>7, <1>8, <1>9, <1>10, <1>11, <1>12,
     <1>13, <1>14, <1>15, <1>16, <1>17, <1>18, <1>19, <1>20, <1>21, <1>22, <1>23, <1>24
     DEF Next, StartSteps, StopSteps

\* And so do the optimizers.
LEMMA OptimizerStep ==
  ASSUME ServerInv, [Next]_vars
  PROVE  OptimizersAccountedFor'
<1> USE MaxPoolsAssumption
    DEF ServerInv, TypeOK, FlagFollowsPlace, PoolFollowsPlace, OptimizersAccountedFor,
        StartPlaces, StopPlaces, OptimizerUp, CollectorUp, PoolUp, Serving, Pools, None,
        collectorVars
<1>1. CASE SaveConfig
  BY <1>1 DEF SaveConfig
<1>2. CASE HandleStart
  BY <1>2 DEF HandleStart
<1>3. CASE HandleStop
  BY <1>3 DEF HandleStop
<1>4. CASE HandleRestart
  BY <1>4 DEF HandleRestart
<1>5. CASE Shutdown
  BY <1>5 DEF Shutdown
<1>6. CASE LoadFails
  BY <1>6 DEF LoadFails
<1>7. CASE MakePool
  <2> DEFINE q == made + 1
  <2>1. q \in Pools /\ q \notin optimizers /\ pool' = q /\ made' = q /\ at' = "initPool"
    BY <1>7 DEF MakePool
  <2>2. poolPhase'[q] = "created" /\ \A p \in Pools \ {q} : poolPhase'[p] = poolPhase[p]
    BY <1>7, <2>1 DEF MakePool
  <2>3. \A p \in optimizers : p <= made /\ poolPhase[p] = "created"
    BY <1>7 DEF MakePool
  <2>4. \/ optimizers' = optimizers
        \/ optimizers' = optimizers \cup {q} /\ memoryOptimizer' = q
    BY <1>7 DEF MakePool
  <2>5. ASSUME NEW p \in optimizers'
        PROVE  p <= made' /\ poolPhase'[p] = "created"
    <3>1. CASE p = q
      <4>1. q \in Nat /\ made' = q
        BY <2>1
      <4> HIDE DEF q
      <4>2. p <= made'
        BY <3>1, <4>1, SMT
      <4>3. poolPhase'[p] = "created"
        BY <3>1, <2>2, Zenon
      <4> QED
        BY <4>2, <4>3
    <3>2. CASE p # q
      <4>1. p \in optimizers
        BY <3>2, <2>4
      <4>2. p \in Pools /\ p <= made /\ poolPhase[p] = "created"
        BY <4>1, <2>3
      <4>3. poolPhase'[p] = "created"
        BY <3>2, <4>2, <2>2, Zenon
      <4>4. p <= made'
        BY <4>2, <2>1
      <4> QED
        BY <4>3, <4>4
    <3> QED
      BY <3>1, <3>2
  <2>6. at' = "initPool" /\ pool' \in optimizers' => pool' = memoryOptimizer'
    BY <2>1, <2>4
  <2> QED
    BY <2>5, <2>6
<1>8. CASE InitPool
  BY <1>8 DEF InitPool
<1>9. CASE InitPoolFails
  BY <1>9 DEF InitPoolFails
<1>10. CASE StartPool
  BY <1>10 DEF StartPool
<1>11. CASE LaunchLoop
  BY <1>11 DEF LaunchLoop
<1>12. CASE SetRunning
  BY <1>12 DEF SetRunning
<1>13. CASE StopPool
  BY <1>13 DEF StopPool
<1>14. CASE DropPool
  BY <1>14 DEF DropPool
<1>15. CASE StopCollector
  BY <1>15 DEF StopCollector
<1>16. CASE AwaitCollector
  BY <1>16 DEF AwaitCollector
<1>17. CASE StopOptimizer
  BY <1>17 DEF StopOptimizer
<1>18. CASE ClearRunning
  BY <1>18 DEF ClearRunning
<1>19. CASE CollectLoopReturns
  BY <1>19 DEF CollectLoopReturns
<1>20. CASE Ended
  BY <1>20 DEF Ended, vars
<1>21. ASSUME NEW q \in Pools, LoopChecks(q)
      PROVE  OptimizersAccountedFor'
  BY <1>21 DEF LoopChecks
<1>22. ASSUME NEW q \in Pools, LoopTicks(q)
      PROVE  OptimizersAccountedFor'
  BY <1>22 DEF LoopTicks
<1>23. CASE UNCHANGED vars
  BY <1>23 DEF vars
<1>24. CASE ReadBody
  BY <1>24 DEF ReadBody
<1> QED
  BY <1>1, <1>2, <1>3, <1>4, <1>5, <1>6, <1>7, <1>8, <1>9, <1>10, <1>11, <1>12,
     <1>13, <1>14, <1>15, <1>16, <1>17, <1>18, <1>19, <1>20, <1>21, <1>22, <1>23, <1>24
     DEF Next, StartSteps, StopSteps

\* in every step,
LEMMA ServerStep ==
  ASSUME ServerInv, [Next]_vars
  PROVE  ServerInv'
BY TypeStep, FlagStep, PoolStep, CollectorStep, OptimizerStep DEF ServerInv

\* and so always.
LEMMA ServerAlways == Safety => []ServerInv
<1>1. ServerInv /\ [Next]_vars => ServerInv'
  BY ServerStep
<1> QED
  BY ServerInit, <1>1, PTL DEF Safety

-----------------------------------------------------------------------------
(* The theorems                                                            *)

\* Type correctness.
THEOREM ServerTypeCorrect == Safety => []TypeOK
<1>1. ServerInv => TypeOK
  BY DEF ServerInv
<1> QED
  BY ServerAlways, <1>1, PTL

\* No start, stop, restart or failure leaves a pool transmitting that the server does not
\* point to: so no two ever run.
THEOREM NoPoolLost == Safety => []NoOrphanPool
<1>1. ServerInv => NoOrphanPool
  BY DEF ServerInv, PoolFollowsPlace, NoOrphanPool
<1> QED
  BY ServerAlways, <1>1, PTL

\* Between two requests isRunning is true of the pool and of the collector.
THEOREM FlagIsTrue == Safety => []FlagTellsTruth
<1>1. ServerInv => FlagTellsTruth
  <2> SUFFICES ASSUME ServerInv, at = "free" PROVE FlagTellsTruth
    BY DEF FlagTellsTruth
  <2> USE DEF ServerInv, CollectorUp, PoolUp, Serving
  <2>1. isRunning <=> \E p \in Pools : poolPhase[p] = "running"
    BY DEF PoolFollowsPlace
  <2>2. isRunning <=> collecting
    BY DEF CollectorFollowsPlace
  <2> QED
    BY <2>1, <2>2 DEF FlagTellsTruth
<1> QED
  BY ServerAlways, <1>1, PTL

\* The collector's loop runs, with an open stop channel, whenever the generator does.
THEOREM CollectorServes == Safety => []CollectorServesEveryRun
<1>1. ServerInv => CollectorServesEveryRun
  BY DEF ServerInv, CollectorServesEveryRun, CollectorFollowsPlace, CollectorUp, PoolUp,
         Serving
<1> QED
  BY ServerAlways, <1>1, PTL

\* Only a failed initialisation makes the server lose track of a memory optimizer.
THEOREM OptimizersKnown == Safety => []OptimizerLostOnlyByFailedInit
<1>1. ServerInv => OptimizerLostOnlyByFailedInit
  BY DEF ServerInv, OptimizersAccountedFor, OptimizerLostOnlyByFailedInit
<1> QED
  BY ServerAlways, <1>1, PTL

\* A start that is reported has used the configuration as it stands.
THEOREM StartIsCurrent == Safety => StartUsesCurrentConfig
<1>1. ServerInv /\ [Next]_vars => [~isRunning /\ isRunning' => poolConfig[pool] = Settings(config)]_vars
  <2> SUFFICES ASSUME ServerInv, Next, ~isRunning, isRunning'
               PROVE  poolConfig[pool] = Settings(config)
    OBVIOUS
  <2>1. at = "setRunning"
    BY DEF Next, StartSteps, StopSteps, SaveConfig, HandleStart, ReadBody, HandleStop,
           HandleRestart, Shutdown, LoadFails, MakePool, InitPool, InitPoolFails, StartPool, LaunchLoop,
           SetRunning, StopPool, DropPool, StopCollector, AwaitCollector, StopOptimizer,
           ClearRunning, CollectLoopReturns, Ended, vars, LoopChecks, LoopTicks
  <2> QED
    BY <2>1 DEF ServerInv, PoolFollowsPlace, StartPlaces
<1> QED
  BY ServerAlways, <1>1, PTL DEF Safety, StartUsesCurrentConfig

\* Every pool goes through its phases once and in order, however starts fail and restarts
\* follow each other: the pools of earlier runs stay as they were left.
THEOREM NoPoolReused == Safety => PoolsLiveOnce
<1> DEFINE Order == {<<"none", "created">>, <<"created", "ready">>, <<"ready", "running">>,
                     <<"running", "stopped">>}
           Once == \A p \in Pools : poolPhase'[p] # poolPhase[p] =>
                                     <<poolPhase[p], poolPhase'[p]>> \in Order
<1>1. ServerInv /\ [Next]_vars => [Once]_vars
  <2> SUFFICES ASSUME ServerInv, Next PROVE Once
    OBVIOUS
  <2> USE DEF ServerInv, TypeOK, PoolFollowsPlace
  <2>1. CASE MakePool
    <3>1. made + 1 \in Pools /\ poolPhase[made + 1] = "none"
      BY <2>1, MaxPoolsAssumption DEF MakePool, Pools
    <3>2. poolPhase' = [poolPhase EXCEPT ![made + 1] = "created"]
      BY <2>1 DEF MakePool
    <3> QED
      BY <3>1, <3>2
  <2>2. CASE InitPool
    <3>1. poolPhase[pool] = "created" /\ poolPhase' = [poolPhase EXCEPT ![pool] = "ready"]
      BY <2>2 DEF InitPool
    <3> QED
      BY <3>1
  <2>3. CASE StartPool
    <3>1. poolPhase[pool] = "ready" /\ poolPhase' = [poolPhase EXCEPT ![pool] = "running"]
      BY <2>3 DEF StartPool
    <3> QED
      BY <3>1
  <2>4. CASE StopPool
    <3>1. poolPhase[pool] = "running" /\ poolPhase' = [poolPhase EXCEPT ![pool] = "stopped"]
      BY <2>4 DEF StopPool, PoolUp
    <3> QED
      BY <3>1
  <2>5. CASE ~(MakePool \/ InitPool \/ StartPool \/ StopPool)
    <3>1. UNCHANGED poolPhase
      BY <2>5 DEF Next, StartSteps, StopSteps, SaveConfig, HandleStart, ReadBody, HandleStop,
           HandleRestart, Shutdown, LoadFails, InitPoolFails, LaunchLoop, SetRunning, DropPool,
           StopCollector, AwaitCollector, StopOptimizer, ClearRunning, CollectLoopReturns,
           Ended, vars, LoopChecks, LoopTicks
    <3> QED
      BY <3>1
  <2> QED
    BY <2>1, <2>2, <2>3, <2>4, <2>5
<1> QED
  BY ServerAlways, <1>1, PTL DEF Safety, PoolsLiveOnce
=============================================================================
