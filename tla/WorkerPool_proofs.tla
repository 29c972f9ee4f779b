-------------------------- MODULE WorkerPool_proofs --------------------------
(***************************************************************************)
(* Theorems about WorkerPool, for every number of workers, every channel   *)
(* capacity and every set of modes.  BaseInv is inductive whatever the     *)
(* timing; OwnerControls is inductive with it when Start's sleeps cover    *)
(* the launch of the workers (SettleCoversStart).                          *)
(***************************************************************************)
EXTENDS WorkerPool, TLAPS

-----------------------------------------------------------------------------
(* The unconditional layer.                                                *)

\* The invariant that needs no assumption: at the start,
LEMMA BaseInit == Init => BaseInv
<1> SUFFICES ASSUME Init PROVE BaseInv
  OBVIOUS
<1> USE NAssumption, CapAssumption, ModesAssumption
    DEF Init, OwnerSteps, StopSteps, PoolGoroutines, AggregatorId, Workers
<1>1. TypeOK
  <2>1. mode \in AllModes
    OBVIOUS
  <2>2. wg \in [Workers -> SUBSET {"metrics", "sender"}]
    OBVIOUS
  <2>3. next \in 1..(N + 1) /\ queued \in 0..MetricsCap
    OBVIOUS
  <2> QED
    BY <2>1, <2>2, <2>3 DEF TypeOK
<1>2. GroupsCount /\ StarterOrder /\ OwnerLaunched /\ OnlyStopEnds
  BY DEF GroupsCount, StarterOrder, OwnerLaunched, OnlyStopEnds
<1> QED
  BY <1>1, <1>2 DEF BaseInv

\* in every step,
LEMMA BaseStep == BaseInv /\ [Next]_vars => BaseInv'
<1> SUFFICES ASSUME BaseInv, [Next]_vars PROVE BaseInv'
  OBVIOUS
<1> USE NAssumption, CapAssumption
    DEF BaseInv, TypeOK, GroupsCount, StarterOrder, OwnerLaunched, OnlyStopEnds,
        OwnerSteps, StopSteps, PoolGoroutines, AggregatorId, Workers, poolVars, workerVars
<1>1. CASE Initialize
  BY <1>1 DEF Initialize
<1>2. CASE InitializeFails
  BY <1>2 DEF InitializeFails
<1>3. CASE Start
  <2> USE <1>3 DEF Start
  <2>1. TypeOK'
    <3>1. next' \in 1..(N + 1)
      OBVIOUS
    <3>2. poolWg' \in SUBSET PoolGoroutines
      OBVIOUS
    <3> QED
      BY <3>1, <3>2
  <2>2. GroupsCount'
    OBVIOUS
  <2>3. StarterOrder' /\ OwnerLaunched' /\ OnlyStopEnds'
    OBVIOUS
  <2> QED
    BY <2>1, <2>2, <2>3
<1>4. CASE LaunchStarter
  BY <1>4 DEF LaunchStarter
<1>5. CASE StartReturns
  BY <1>5 DEF StartReturns
<1>6. CASE Stop
  <2> USE <1>6 DEF Stop
  <2>1. TypeOK'
    <3>1. next' \in 1..(N + 1)
      OBVIOUS
    <3>2. poolWg' \in SUBSET PoolGoroutines
      OBVIOUS
    <3> QED
      BY <3>1, <3>2
  <2>2. GroupsCount'
    OBVIOUS
  <2>3. StarterOrder' /\ OwnerLaunched' /\ OnlyStopEnds'
    OBVIOUS
  <2> QED
    BY <2>1, <2>2, <2>3
<1>7. CASE StopClaimsWorker
  BY <1>7 DEF StopClaimsWorker
<1>8. CASE StopSkipsWorker
  BY <1>8 DEF StopSkipsWorker
<1>9. CASE StopClosesChannel
  BY <1>9 DEF StopClosesChannel
<1>10. CASE StopAwaitsWorker
  BY <1>10 DEF StopAwaitsWorker
<1>11. CASE StopCleansUp
  BY <1>11 DEF StopCleansUp
<1>12. CASE StopReturns
  BY <1>12 DEF StopReturns
<1>13. CASE AggregatorTakesTick
  BY <1>13 DEF AggregatorTakesTick
<1>14. CASE AggregatorPublishes
  BY <1>14 DEF AggregatorPublishes
<1>15. CASE AggregatorReceives
  BY <1>15 DEF AggregatorReceives
<1>16. CASE AggregatorReturns
  BY <1>16 DEF AggregatorReturns
<1>17. ASSUME NEW v \in Workers, StarterClaims(v) PROVE BaseInv'
  BY <1>17 DEF StarterClaims, Moves
<1>18. ASSUME NEW v \in Workers, StarterAddsMetrics(v) PROVE BaseInv'
  BY <1>18 DEF StarterAddsMetrics, Moves
<1>19. ASSUME NEW v \in Workers, StarterAddsSender(v) PROVE BaseInv'
  <2> USE <1>19 DEF StarterAddsSender, Moves
  <2>1. TypeOK'
    OBVIOUS
  <2>2. GroupsCount'
    OBVIOUS
  <2>3. StarterOrder' /\ OwnerLaunched' /\ OnlyStopEnds'
    OBVIOUS
  <2> QED
    BY <2>1, <2>2, <2>3
<1>20. ASSUME NEW v \in Workers, SenderTakesTick(v) PROVE BaseInv'
  BY <1>20 DEF SenderTakesTick, Moves
<1>21. ASSUME NEW v \in Workers, SenderWrites(v) PROVE BaseInv'
  BY <1>21 DEF SenderWrites, Moves
<1>22. ASSUME NEW v \in Workers, SenderReturns(v) PROVE BaseInv'
  BY <1>22 DEF SenderReturns, Moves
<1>23. ASSUME NEW v \in Workers, MetricsTakesTick(v) PROVE BaseInv'
  BY <1>23 DEF MetricsTakesTick, Moves
<1>24. ASSUME NEW v \in Workers, MetricsOffers(v) PROVE BaseInv'
  BY <1>24 DEF MetricsOffers, Moves
<1>25. ASSUME NEW v \in Workers, MetricsReturns(v) PROVE BaseInv'
  BY <1>25 DEF MetricsReturns, Moves
<1>26. CASE UNCHANGED vars
  BY <1>26 DEF vars
<1> QED
  BY <1>1, <1>2, <1>3, <1>4, <1>5, <1>6, <1>7, <1>8, <1>9, <1>10, <1>11,
     <1>12, <1>13, <1>14, <1>15, <1>16, <1>17, <1>18, <1>19, <1>20, <1>21,
     <1>22, <1>23, <1>24, <1>25, <1>26
  DEF Next, OwnerNext, AggregatorNext, StarterNext, LoopNext, Finished

\* and so always.
LEMMA BaseAlways == Safety => []BaseInv
  BY BaseInit, BaseStep, PTL DEF Safety

\* The state of the pool keeps its type: in particular the metrics channel never
\* holds more than its capacity, and the owner's loop index stays in the slice.
THEOREM TypeCorrect == Safety => []TypeOK
<1>1. BaseInv => TypeOK
  BY DEF BaseInv
<1> QED
  BY <1>1, BaseAlways, PTL

\* The goroutines Stop joins through the pool's own WaitGroup are gone when it
\* returns, even when a worker started too late for Stop to see it.
THEOREM PoolJoined == Safety => []StopJoinsPool
<1>1. BaseInv => StopJoinsPool
  BY DEF BaseInv, TypeOK, GroupsCount, OwnerLaunched, OnlyStopEnds, StopJoinsPool, StopSteps
<1> QED
  BY <1>1, BaseAlways, PTL

-----------------------------------------------------------------------------
(* The layer that rests on the timing assumption.                          *)

\* The invariant under the assumption that Start's sleeps suffice: at the start,
LEMMA SettledInit == Init => SettledInv
<1> SUFFICES ASSUME Init PROVE SettledInv
  OBVIOUS
<1>1. BaseInv
  BY BaseInit
<1>2. OwnerControls
  BY NAssumption DEF Init, OwnerControls, StopIsPast, StopSteps, Workers
<1> QED
  BY <1>1, <1>2 DEF SettledInv

\* in every step,
LEMMA SettledStep ==
  ASSUME SettleCoversStart
  PROVE  SettledInv /\ [Next]_vars => SettledInv'
<1> SUFFICES ASSUME SettledInv, [Next]_vars PROVE OwnerControls'
  BY BaseStep DEF SettledInv
<1> USE NAssumption, SettleCoversStart
    DEF SettledInv, BaseInv, TypeOK, GroupsCount, StarterOrder, OwnerLaunched,
        OwnerControls, StopIsPast, OwnerSteps, StopSteps, Workers, poolVars,
        workerVars
<1>1. CASE Initialize
  BY <1>1 DEF Initialize
<1>2. CASE InitializeFails
  BY <1>2 DEF InitializeFails
<1>3. CASE Start
  BY <1>3 DEF Start
<1>4. CASE LaunchStarter
  BY <1>4 DEF LaunchStarter
<1>5. CASE StartReturns
  BY <1>5 DEF StartReturns
<1>6. CASE Stop
  BY <1>6 DEF Stop
<1>7. CASE StopClaimsWorker
  BY <1>7 DEF StopClaimsWorker
<1>8. CASE StopSkipsWorker
  BY <1>8 DEF StopSkipsWorker
<1>9. CASE StopClosesChannel
  BY <1>9 DEF StopClosesChannel
<1>10. CASE StopAwaitsWorker
  BY <1>10 DEF StopAwaitsWorker
<1>11. CASE StopCleansUp
  BY <1>11 DEF StopCleansUp
<1>12. CASE StopReturns
  BY <1>12 DEF StopReturns
<1>13. CASE AggregatorTakesTick
  BY <1>13 DEF AggregatorTakesTick
<1>14. CASE AggregatorPublishes
  BY <1>14 DEF AggregatorPublishes
<1>15. CASE AggregatorReceives
  BY <1>15 DEF AggregatorReceives
<1>16. CASE AggregatorReturns
  BY <1>16 DEF AggregatorReturns
<1>17. ASSUME NEW v \in Workers, StarterClaims(v) PROVE OwnerControls'
  BY <1>17 DEF StarterClaims, Moves
<1>18. ASSUME NEW v \in Workers, StarterAddsMetrics(v) PROVE OwnerControls'
  BY <1>18 DEF StarterAddsMetrics, Moves
<1>19. ASSUME NEW v \in Workers, StarterAddsSender(v) PROVE OwnerControls'
  BY <1>19 DEF StarterAddsSender, Moves
<1>20. ASSUME NEW v \in Workers, SenderTakesTick(v) PROVE OwnerControls'
  BY <1>20 DEF SenderTakesTick, Moves
<1>21. ASSUME NEW v \in Workers, SenderWrites(v) PROVE OwnerControls'
  BY <1>21 DEF SenderWrites, Moves
<1>22. ASSUME NEW v \in Workers, SenderReturns(v) PROVE OwnerControls'
  BY <1>22 DEF SenderReturns, Moves
<1>23. ASSUME NEW v \in Workers, MetricsTakesTick(v) PROVE OwnerControls'
  BY <1>23 DEF MetricsTakesTick, Moves
<1>24. ASSUME NEW v \in Workers, MetricsOffers(v) PROVE OwnerControls'
  BY <1>24 DEF MetricsOffers, Moves
<1>25. ASSUME NEW v \in Workers, MetricsReturns(v) PROVE OwnerControls'
  BY <1>25 DEF MetricsReturns, Moves
<1>26. CASE UNCHANGED vars
  BY <1>26 DEF vars
<1> QED
  BY <1>1, <1>2, <1>3, <1>4, <1>5, <1>6, <1>7, <1>8, <1>9, <1>10, <1>11,
     <1>12, <1>13, <1>14, <1>15, <1>16, <1>17, <1>18, <1>19, <1>20, <1>21,
     <1>22, <1>23, <1>24, <1>25, <1>26
  DEF Next, OwnerNext, AggregatorNext, StarterNext, LoopNext, Finished

\* and so always.
LEMMA SettledAlways ==
  ASSUME SettleCoversStart
  PROVE  Safety => []SettledInv
  BY SettledInit, SettledStep, PTL DEF Safety

\* When Stop has returned, no worker is marked running, holds a socket or has a
\* goroutine left: UDPWorker.Stop was effective for every one of them.
THEOREM WorkersReleased ==
  ASSUME SettleCoversStart
  PROVE  Safety => []StopReleasesWorkers
<1>1. SettledInv => StopReleasesWorkers
  BY DEF SettledInv, BaseInv, TypeOK, OwnerControls, StopIsPast, StopReleasesWorkers,
         StopSteps, Idle
<1> QED
  BY <1>1, SettledAlways, PTL

\* A live send loop has an open socket, because worker.Stop waits before it cleans up.
THEOREM SocketOpenWhileSending ==
  ASSUME SettleCoversStart
  PROVE  Safety => []NoSendOnClosedSocket
<1>1. SettledInv => NoSendOnClosedSocket
  <2> SUFFICES ASSUME SettledInv, NEW w \in Workers, sender[w] \in {"loop", "sending"}
               PROVE  conn[w] = "open"
    BY DEF NoSendOnClosedSocket
  <2> USE DEF SettledInv, BaseInv, TypeOK
  <2>1. starter[w] = "done"
    BY DEF StarterOrder
  <2>2. owner \notin {"new", "failed", "ready", "stopped"} /\ ~StopIsPast(w)
    BY <2>1 DEF OwnerLaunched, OwnerControls, StopIsPast, StopSteps
  <2> QED
    BY <2>1, <2>2 DEF OwnerControls, OwnerSteps, StopSteps
<1> QED
  BY <1>1, SettledAlways, PTL

\* No goroutine joins a worker's WaitGroup once worker.Stop has started to wait on it.
THEOREM NoLateAdd ==
  ASSUME SettleCoversStart
  PROVE  Safety => NoAddDuringWait
<1>1. ASSUME SettledInv, [Next]_vars
      PROVE  [\A w \in Workers :
                owner \in StopSteps /\ stopClosed[w] => wg'[w] \subseteq wg[w]]_vars
  <2> SUFFICES ASSUME owner \in StopSteps, NEW u \in Workers
               PROVE  wg'[u] \subseteq wg[u]
    OBVIOUS
  <2>1. \A w \in Workers : starter[w] = "done"
    BY <1>1 DEF SettledInv, OwnerControls
  <2> USE <2>1 DEF SettledInv, BaseInv, TypeOK
  <2>2. ASSUME NEW v \in Workers, StarterNext(v) PROVE FALSE
    BY <2>2 DEF StarterNext, StarterClaims, StarterAddsMetrics, StarterAddsSender, Moves
  <2>3. ASSUME NEW v \in Workers, LoopNext(v) PROVE wg'[u] \subseteq wg[u]
    BY <1>1, <2>3
    DEF LoopNext, SenderTakesTick, SenderWrites, SenderReturns, MetricsTakesTick,
        MetricsOffers, MetricsReturns, Moves, workerVars
  <2>4. CASE OwnerNext \/ AggregatorNext \/ Finished \/ UNCHANGED vars
    BY <2>4
    DEF OwnerNext, AggregatorNext, Finished, Initialize, InitializeFails, Start,
        LaunchStarter, StartReturns, Stop, StopClaimsWorker, StopSkipsWorker,
        StopClosesChannel, StopAwaitsWorker, StopCleansUp, StopReturns,
        AggregatorTakesTick, AggregatorPublishes, AggregatorReceives,
        AggregatorReturns, workerVars, vars
  <2> QED
    BY <1>1, <2>2, <2>3, <2>4 DEF Next
<1> QED
  BY <1>1, SettledAlways, PTL DEF Safety, NoAddDuringWait

-----------------------------------------------------------------------------
(* The pool implements the safety part of ServiceLifecycle.                   *)

\* The initial states of the pool are some of the life cycle,
LEMMA LifecycleInit == Init => Lifecycle!Init
<1> SUFFICES ASSUME Init PROVE Lifecycle!Init
  OBVIOUS
<1>1. phaseOfOwner = "created"
  BY DEF Init, phaseOfOwner, StopSteps
<1>2. \A w \in Workers : ~WorkerAlive(w)
  BY DEF Init, WorkerAlive
<1>3. liveGoroutines = {}
  BY <1>2 DEF Init, liveGoroutines
<1> QED
  BY <1>1, <1>3 DEF Lifecycle!Init

\* A step that leaves the owner's phase and every goroutine's life alone stutters.
LEMMA LifecycleStutter ==
  ASSUME phaseOfOwner' = phaseOfOwner,
         \A w \in Workers : WorkerAlive(w)' <=> WorkerAlive(w),
         aggregator' \in {"select", "collect"} <=> aggregator \in {"select", "collect"}
  PROVE  UNCHANGED Lifecycle!vars
  BY DEF Lifecycle!vars, liveGoroutines

\* and its steps are steps of the life cycle, or none.
LEMMA LifecycleStep ==
  ASSUME SettleCoversStart, SettledInv, [Next]_vars
  PROVE  [Lifecycle!Next]_(Lifecycle!vars)
<1> USE DEF SettledInv, BaseInv, TypeOK, WorkerAlive
<1>1. CASE Initialize
  <2>1. phaseOfOwner = "created" /\ phaseOfOwner' = "ready"
    BY <1>1 DEF Initialize, phaseOfOwner, StopSteps
  <2>2. UNCHANGED liveGoroutines
    BY <1>1 DEF Initialize, liveGoroutines
  <2> QED
    BY <2>1, <2>2 DEF Lifecycle!Next, Lifecycle!Prepare
<1>2. CASE InitializeFails
  BY <1>2, LifecycleStutter DEF InitializeFails, phaseOfOwner, StopSteps
<1>3. CASE Start
  <2>1. phaseOfOwner = "ready" /\ phaseOfOwner' = "running"
    BY <1>3 DEF Start, phaseOfOwner, StopSteps
  <2>2. \A w \in Workers : ~WorkerAlive(w)'
    BY <1>3 DEF Start, OwnerLaunched, StarterOrder
  <2>3. liveGoroutines' = {AggregatorId}
    BY <1>3, <2>2 DEF Start, liveGoroutines
  <2>4. AggregatorId \in PoolGoroutines
    BY NAssumption DEF AggregatorId, PoolGoroutines
  <2> QED
    BY <2>1, <2>3, <2>4 DEF Lifecycle!Next, Lifecycle!Begin
<1>4. CASE LaunchStarter
  <2>1. phaseOfOwner = "running" /\ phaseOfOwner' = "running"
    BY <1>4 DEF LaunchStarter, phaseOfOwner, StopSteps
  <2>2. next \in Workers /\ next \in PoolGoroutines
    BY <1>4, NAssumption DEF LaunchStarter, Workers, PoolGoroutines
  <2>3. \A w \in Workers : WorkerAlive(w)' <=> WorkerAlive(w) \/ w = next
    BY <1>4, <2>2 DEF LaunchStarter
  <2>4. liveGoroutines' = liveGoroutines \cup {next}
    BY <1>4, <2>2, <2>3 DEF LaunchStarter, liveGoroutines
  <2> QED
    BY <2>1, <2>2, <2>4 DEF Lifecycle!Next, Lifecycle!Spawn
<1>5. CASE StartReturns
  BY <1>5, LifecycleStutter DEF StartReturns, phaseOfOwner, StopSteps
<1>6. CASE Stop
  <2>1. phaseOfOwner = "running" /\ phaseOfOwner' = "stopping"
    BY <1>6 DEF Stop, phaseOfOwner, StopSteps
  <2>2. UNCHANGED liveGoroutines
    BY <1>6 DEF Stop, liveGoroutines
  <2> QED
    BY <2>1, <2>2 DEF Lifecycle!Next, Lifecycle!Halt
<1>7. CASE StopClaimsWorker \/ StopSkipsWorker \/ StopClosesChannel
           \/ StopAwaitsWorker \/ StopCleansUp
  BY <1>7, LifecycleStutter
  DEF StopClaimsWorker, StopSkipsWorker, StopClosesChannel, StopAwaitsWorker,
      StopCleansUp, phaseOfOwner, StopSteps, workerVars
<1>8. CASE StopReturns
  <2>1. phaseOfOwner = "stopping" /\ phaseOfOwner' = "stopped"
    BY <1>8 DEF StopReturns, phaseOfOwner, StopSteps
  <2>2. UNCHANGED liveGoroutines
    BY <1>8 DEF StopReturns, liveGoroutines
  <2>3. \A w \in Workers : ~WorkerAlive(w)
    BY <1>8, NAssumption DEF StopReturns, OwnerControls, StopIsPast, StopSteps, Workers
  <2>4. aggregator \notin {"select", "collect"}
    BY <1>8 DEF StopReturns, GroupsCount
  <2>5. liveGoroutines = {}
    BY <2>3, <2>4 DEF liveGoroutines
  <2> QED
    BY <2>1, <2>2, <2>5 DEF Lifecycle!Next, Lifecycle!Finish
<1>9. CASE AggregatorTakesTick \/ AggregatorPublishes \/ AggregatorReceives
  BY <1>9, LifecycleStutter
  DEF AggregatorTakesTick, AggregatorPublishes, AggregatorReceives, phaseOfOwner
<1>10. CASE AggregatorReturns
  <2>1. phaseOfOwner = "stopping" /\ UNCHANGED phaseOfOwner
    <3>1. owner \in StopSteps
      BY <1>10 DEF AggregatorReturns, OnlyStopEnds, GroupsCount
    <3> QED
      BY <1>10, <3>1 DEF AggregatorReturns, phaseOfOwner, StopSteps
  <2>2. AggregatorId \notin Workers /\ AggregatorId \in PoolGoroutines
    BY NAssumption DEF Workers, AggregatorId, PoolGoroutines
  <2>3. AggregatorId \in liveGoroutines
    BY <1>10 DEF AggregatorReturns, liveGoroutines
  <2>4. liveGoroutines' = liveGoroutines \ {AggregatorId}
    BY <1>10, <2>2 DEF AggregatorReturns, liveGoroutines
  <2> QED
    BY <2>1, <2>2, <2>3, <2>4 DEF Lifecycle!Next, Lifecycle!Retire
<1>11. ASSUME NEW v \in Workers, StarterNext(v)
       PROVE  UNCHANGED Lifecycle!vars
  BY <1>11, LifecycleStutter
  DEF StarterNext, StarterClaims, StarterAddsMetrics, StarterAddsSender, Moves,
      phaseOfOwner
<1>12. ASSUME NEW v \in Workers,
              SenderTakesTick(v) \/ SenderWrites(v) \/ MetricsTakesTick(v) \/ MetricsOffers(v)
       PROVE  UNCHANGED Lifecycle!vars
  BY <1>12, LifecycleStutter
  DEF SenderTakesTick, SenderWrites, MetricsTakesTick, MetricsOffers, Moves, phaseOfOwner
<1>13. ASSUME NEW v \in Workers, SenderReturns(v) \/ MetricsReturns(v)
       PROVE  [Lifecycle!Next]_(Lifecycle!vars)
  <2>1. owner \in StopSteps
    BY <1>13
    DEF SenderReturns, MetricsReturns, LoopToldToEnd, LoopHearsStop, Moves,
        OnlyStopEnds, OwnerControls, StopIsPast
  <2>2. phaseOfOwner = "stopping" /\ UNCHANGED phaseOfOwner
    BY <1>13, <2>1 DEF SenderReturns, MetricsReturns, phaseOfOwner, StopSteps
  <2>3. WorkerAlive(v) /\ v \in PoolGoroutines /\ v # AggregatorId
    BY <1>13, NAssumption
    DEF SenderReturns, MetricsReturns, Moves, Workers, PoolGoroutines, AggregatorId
  <2>4. \A w \in Workers : w # v => (WorkerAlive(w)' <=> WorkerAlive(w))
    BY <1>13 DEF SenderReturns, MetricsReturns, Moves
  <2>5. UNCHANGED aggregator
    BY <1>13 DEF SenderReturns, MetricsReturns
  <2>6. CASE WorkerAlive(v)'
    BY <2>2, <2>3, <2>4, <2>5, <2>6, LifecycleStutter
  <2>7. CASE ~WorkerAlive(v)'
    <3>1. v \in liveGoroutines
      BY <2>3 DEF liveGoroutines
    <3>2. liveGoroutines' = liveGoroutines \ {v}
      BY <2>3, <2>4, <2>5, <2>7 DEF liveGoroutines
    <3> QED
      BY <2>2, <2>3, <3>1, <3>2 DEF Lifecycle!Next, Lifecycle!Retire
  <2> QED
    BY <2>6, <2>7
<1>14. CASE Finished \/ UNCHANGED vars
  BY <1>14, LifecycleStutter DEF Finished, vars, phaseOfOwner
<1> QED
  BY <1>1, <1>2, <1>3, <1>4, <1>5, <1>6, <1>7, <1>8, <1>9, <1>10, <1>11, <1>12,
     <1>13, <1>14
  DEF Next, OwnerNext, AggregatorNext, LoopNext

\* The pool implements ServiceLifecycle: once Stop has begun no goroutine appears, a
\* goroutine ends only because Stop asked it to, and Stop returns when none is left.
THEOREM LifecycleImplemented ==
  ASSUME SettleCoversStart
  PROVE  Safety => ImplementsLifecycleSafety
<1>1. SettledInv /\ [Next]_vars => [Lifecycle!Next]_(Lifecycle!vars)
  BY LifecycleStep
<1> QED
  BY <1>1, LifecycleInit, SettledAlways, PTL
  DEF Safety, ImplementsLifecycleSafety, Lifecycle!Safety
=============================================================================
