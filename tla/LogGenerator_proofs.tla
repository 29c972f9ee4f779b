------------------------- MODULE LogGenerator_proofs -------------------------
(***************************************************************************)
(* Theorems about LogGenerator, for every set of workers and every number  *)
(* of logs.                                                                *)
(***************************************************************************)
EXTENDS LogGenerator, TLAPS

\* The inductive invariant of the application at the start.
LEMMA AppInit == Init => AppInv
<1> SUFFICES ASSUME Init PROVE AppInv
  OBVIOUS
<1> USE MaxSentAssumption, FlagsAssumption DEF Init, NoMetrics, NoReport, Metrics
<1>1. TypeOK
  <2>1. asked \in BOOLEAN /\ sigChan \in BOOLEAN /\ steady \in BOOLEAN
    OBVIOUS
  <2>2. current \in Metrics /\ computed \in Metrics /\ loaded \in Metrics
    OBVIOUS
  <2> QED
    BY <2>1, <2>2 DEF TypeOK, StartSteps, Pool!Phases
<1>2. ServicesInTheirSpans
  BY DEF ServicesInTheirSpans, Active, Pool!Quiet, Dashboard!Quiet, Optimizer!Quiet
<1>3. CollectorInItsSpan /\ ExitIsTheEnd
  BY DEF CollectorInItsSpan, ExitIsTheEnd, CollectorSpan, PoolSpan, DashboardSpan
<1>4. NothingAhead /\ TotalsInOrder
  BY DEF NothingAhead, TotalsInOrder
<1> QED
  BY <1>1, <1>2, <1>3, <1>4 DEF AppInv


\* No step leaves the types.
LEMMA TypeStep ==
  ASSUME TypeOK, [Next]_vars
  PROVE  TypeOK'
<1> USE MaxSentAssumption
    DEF TypeOK, Metrics, NoMetrics, NoReport, Flags, StartSteps, StopSteps, Pool!Phases,
        processVars, optVars, poolVars, dashVars, trafficVars, collectorVars, updaterVars,
        metricsVars
<1>1. CASE Signal
  <2>1. asked' \in BOOLEAN /\ sigChan' \in BOOLEAN
    BY <1>1, Zenon DEF Signal
  <2> QED
    BY <1>1, <2>1 DEF Signal
<1>2. CASE ParseFlags
  BY <1>2 DEF ParseFlags, Fails
<1>3. CASE NewLogGenerator
  BY <1>3 DEF NewLogGenerator, Fails
<1>4. CASE Notify
  BY <1>4 DEF Notify, Goes
<1>5. CASE InitOptimizer
  BY <1>5 DEF InitOptimizer, Goes, Optimizer!Prepare
<1>6. CASE StartOptimizer
  BY <1>6 DEF StartOptimizer, Goes, Optimizer!Begin
<1>7. CASE StartMonitor
  BY <1>7 DEF StartMonitor, Goes, Optimizer!Spawn
<1>8. CASE StartCollector
  BY <1>8 DEF StartCollector, Goes
<1>9. CASE InitPool
  BY <1>9 DEF InitPool, Goes, Pool!Prepare
<1>10. CASE InitPoolFails
  BY <1>10 DEF InitPoolFails, Fails
<1>11. CASE StartPool
  BY <1>11 DEF StartPool, Goes, Pool!Begin
<1>12. ASSUME NEW w \in Workers, LaunchWorker(w)
      PROVE  TypeOK'
  BY <1>12 DEF LaunchWorker, Goes, Pool!Spawn
<1>13. CASE PoolStarted
  BY <1>13 DEF PoolStarted, Goes
<1>14. CASE StartDashboard
  BY <1>14 DEF StartDashboard, Goes, Dashboard!Begin
<1>15. CASE StartStreamer
  BY <1>15 DEF StartStreamer, Goes, Dashboard!Spawn
<1>16. CASE LaunchLoop
  BY <1>16 DEF LaunchLoop, Goes
<1>17. CASE Awaken
  <2>1. sigChan' \in BOOLEAN
    BY <1>17, Zenon DEF Awaken
  <2> QED
    BY <1>17, <2>1 DEF Awaken, Goes
<1>18. CASE Cancel
  BY <1>18 DEF Cancel, Goes
<1>19. CASE HaltPool
  BY <1>19 DEF HaltPool, Goes, Pool!Halt
<1>20. CASE AwaitPool
  BY <1>20 DEF AwaitPool, Goes, Pool!Finish
<1>21. CASE HaltDashboard
  BY <1>21 DEF HaltDashboard, Goes, Dashboard!Halt
<1>22. CASE AwaitDashboard
  BY <1>22 DEF AwaitDashboard, Goes, Dashboard!Finish
<1>23. CASE HaltCollector
  BY <1>23 DEF HaltCollector, Goes
<1>24. CASE AwaitCollector
  BY <1>24 DEF AwaitCollector, Goes
<1>25. CASE HaltOptimizer
  BY <1>25 DEF HaltOptimizer, Goes, Optimizer!Halt
<1>26. CASE AwaitOptimizer
  BY <1>26 DEF AwaitOptimizer, Goes, Optimizer!Finish
<1>27. CASE PrintFinalReport
  BY <1>27 DEF PrintFinalReport, Goes
<1>28. CASE Return
  BY <1>28 DEF Return, Goes
<1>29. ASSUME NEW g \in {"gcForcer", "memoryMonitor"}, OptimizerRetires(g)
      PROVE  TypeOK'
  BY <1>29 DEF OptimizerRetires, Optimizer!Retire
<1>30. ASSUME NEW g \in Workers \cup {Aggregator}, PoolRetires(g)
      PROVE  TypeOK'
  BY <1>30 DEF PoolRetires, Pool!Retire
<1>31. ASSUME NEW g \in {"broadcaster", "streamer"}, DashboardRetires(g)
      PROVE  TypeOK'
  BY <1>31 DEF DashboardRetires, Dashboard!Retire
<1>32. CASE SendLogs
  BY <1>32 DEF SendLogs, Traffic!Send
<1>33. CASE Publish
  BY <1>33 DEF Publish, Traffic!Publish
<1>34. CASE CollectorComputes
  BY <1>34 DEF CollectorComputes
<1>35. CASE CollectorStores
  BY <1>35 DEF CollectorStores
<1>36. CASE CollectorReturns
  BY <1>36 DEF CollectorReturns
<1>37. CASE UpdaterTicks
  BY <1>37 DEF UpdaterTicks, Traffic!Begin
<1>38. CASE UpdaterLoads
  BY <1>38 DEF UpdaterLoads, Traffic!End
<1>39. CASE UpdaterStores
  BY <1>39 DEF UpdaterStores, Traffic!Forget
<1>40. CASE UpdaterReturns
  BY <1>40 DEF UpdaterReturns, Cancelled
<1>41. CASE UNCHANGED vars
  BY <1>41 DEF vars
<1> QED
  BY <1>1, <1>2, <1>3, <1>4, <1>5, <1>6, <1>7, <1>8, <1>9, <1>10, <1>11, <1>12,
     <1>13, <1>14, <1>15, <1>16, <1>17, <1>18, <1>19, <1>20, <1>21, <1>22, <1>23,
     <1>24, <1>25, <1>26, <1>27, <1>28, <1>29, <1>30, <1>31, <1>32, <1>33, <1>34,
     <1>35, <1>36, <1>37, <1>38, <1>39, <1>40, <1>41
  DEF Next, Starts, Stops, CollectorSteps, UpdaterSteps, Ended


\* Each step of main changes its own service only, and moves between the spans.
LEMMA ControlStep ==
  ASSUME TypeOK, ServicesInTheirSpans, CollectorInItsSpan, ExitIsTheEnd, [Next]_vars
  PROVE  (ServicesInTheirSpans /\ CollectorInItsSpan /\ ExitIsTheEnd)'
<1> USE DEF TypeOK, ServicesInTheirSpans, CollectorInItsSpan, ExitIsTheEnd, Active, PoolSpan,
        DashboardSpan, CollectorSpan, OptimizerSpan, StartSteps, StopSteps, Pool!Quiet,
        Dashboard!Quiet, Optimizer!Quiet, NoReport, processVars, optVars, poolVars, dashVars, trafficVars, collectorVars, updaterVars,
        metricsVars
<1>1. CASE Signal
  BY <1>1 DEF Signal
<1>2. CASE ParseFlags
  BY <1>2 DEF ParseFlags, Fails
<1>3. CASE NewLogGenerator
  BY <1>3 DEF NewLogGenerator, Fails
<1>4. CASE Notify
  BY <1>4 DEF Notify, Goes
<1>5. CASE InitOptimizer
  BY <1>5 DEF InitOptimizer, Goes, Optimizer!Prepare
<1>6. CASE StartOptimizer
  BY <1>6 DEF StartOptimizer, Goes, Optimizer!Begin
<1>7. CASE StartMonitor
  BY <1>7 DEF StartMonitor, Goes, Optimizer!Spawn
<1>8. CASE StartCollector
  BY <1>8 DEF StartCollector, Goes
<1>9. CASE InitPool
  BY <1>9 DEF InitPool, Goes, Pool!Prepare
<1>10. CASE InitPoolFails
  BY <1>10 DEF InitPoolFails, Fails
<1>11. CASE StartPool
  BY <1>11 DEF StartPool, Goes, Pool!Begin
<1>12. ASSUME NEW w \in Workers, LaunchWorker(w)
      PROVE  (ServicesInTheirSpans /\ CollectorInItsSpan /\ ExitIsTheEnd)'
  BY <1>12 DEF LaunchWorker, Goes, Pool!Spawn
<1>13. CASE PoolStarted
  BY <1>13 DEF PoolStarted, Goes
<1>14. CASE StartDashboard
  BY <1>14 DEF StartDashboard, Goes, Dashboard!Begin
<1>15. CASE StartStreamer
  BY <1>15 DEF StartStreamer, Goes, Dashboard!Spawn
<1>16. CASE LaunchLoop
  BY <1>16 DEF LaunchLoop, Goes
<1>17. CASE Awaken
  BY <1>17 DEF Awaken, Goes
<1>18. CASE Cancel
  BY <1>18 DEF Cancel, Goes
<1>19. CASE HaltPool
  BY <1>19 DEF HaltPool, Goes, Pool!Halt
<1>20. CASE AwaitPool
  BY <1>20 DEF AwaitPool, Goes, Pool!Finish
<1>21. CASE HaltDashboard
  BY <1>21 DEF HaltDashboard, Goes, Dashboard!Halt
<1>22. CASE AwaitDashboard
  BY <1>22 DEF AwaitDashboard, Goes, Dashboard!Finish
<1>23. CASE HaltCollector
  BY <1>23 DEF HaltCollector, Goes
<1>24. CASE AwaitCollector
  BY <1>24 DEF AwaitCollector, Goes
<1>25. CASE HaltOptimizer
  BY <1>25 DEF HaltOptimizer, Goes, Optimizer!Halt
<1>26. CASE AwaitOptimizer
  BY <1>26 DEF AwaitOptimizer, Goes, Optimizer!Finish
<1>27. CASE PrintFinalReport
  BY <1>27 DEF PrintFinalReport, Goes
<1>28. CASE Return
  BY <1>28 DEF Return, Goes
<1>29. ASSUME NEW g \in {"gcForcer", "memoryMonitor"}, OptimizerRetires(g)
      PROVE  (ServicesInTheirSpans /\ CollectorInItsSpan /\ ExitIsTheEnd)'
  BY <1>29 DEF OptimizerRetires, Optimizer!Retire
<1>30. ASSUME NEW g \in Workers \cup {Aggregator}, PoolRetires(g)
      PROVE  (ServicesInTheirSpans /\ CollectorInItsSpan /\ ExitIsTheEnd)'
  BY <1>30 DEF PoolRetires, Pool!Retire
<1>31. ASSUME NEW g \in {"broadcaster", "streamer"}, DashboardRetires(g)
      PROVE  (ServicesInTheirSpans /\ CollectorInItsSpan /\ ExitIsTheEnd)'
  BY <1>31 DEF DashboardRetires, Dashboard!Retire
<1>32. CASE SendLogs
  BY <1>32 DEF SendLogs, Traffic!Send
<1>33. CASE Publish
  BY <1>33 DEF Publish, Traffic!Publish
<1>34. CASE CollectorComputes
  BY <1>34 DEF CollectorComputes
<1>35. CASE CollectorStores
  BY <1>35 DEF CollectorStores
<1>36. CASE CollectorReturns
  BY <1>36 DEF CollectorReturns
<1>37. CASE UpdaterTicks
  BY <1>37 DEF UpdaterTicks, Traffic!Begin
<1>38. CASE UpdaterLoads
  BY <1>38 DEF UpdaterLoads, Traffic!End
<1>39. CASE UpdaterStores
  BY <1>39 DEF UpdaterStores, Traffic!Forget
<1>40. CASE UpdaterReturns
  BY <1>40 DEF UpdaterReturns, Cancelled
<1>41. CASE UNCHANGED vars
  BY <1>41 DEF vars
<1> QED
  BY <1>1, <1>2, <1>3, <1>4, <1>5, <1>6, <1>7, <1>8, <1>9, <1>10, <1>11, <1>12,
     <1>13, <1>14, <1>15, <1>16, <1>17, <1>18, <1>19, <1>20, <1>21, <1>22, <1>23,
     <1>24, <1>25, <1>26, <1>27, <1>28, <1>29, <1>30, <1>31, <1>32, <1>33, <1>34,
     <1>35, <1>36, <1>37, <1>38, <1>39, <1>40, <1>41
  DEF Next, Starts, Stops, CollectorSteps, UpdaterSteps, Ended


\* Only sending adds to what was sent, and every figure is copied from one before it.
LEMMA DataStep ==
  ASSUME AppInv, [Next]_vars
  PROVE  (NothingAhead /\ TotalsInOrder)'
<1> USE DEF AppInv, TypeOK, NothingAhead, TotalsInOrder, NoMetrics, Metrics, NoReport,
        processVars, optVars, poolVars, dashVars, trafficVars, collectorVars, updaterVars,
        metricsVars
<1>1. CASE Signal
  BY <1>1 DEF Signal
<1>2. CASE ParseFlags
  BY <1>2 DEF ParseFlags, Fails
<1>3. CASE NewLogGenerator
  BY <1>3 DEF NewLogGenerator, Fails
<1>4. CASE Notify
  BY <1>4 DEF Notify, Goes
<1>5. CASE InitOptimizer
  BY <1>5 DEF InitOptimizer, Goes, Optimizer!Prepare
<1>6. CASE StartOptimizer
  BY <1>6 DEF StartOptimizer, Goes, Optimizer!Begin
<1>7. CASE StartMonitor
  BY <1>7 DEF StartMonitor, Goes, Optimizer!Spawn
<1>8. CASE StartCollector
  BY <1>8 DEF StartCollector, Goes
<1>9. CASE InitPool
  BY <1>9 DEF InitPool, Goes, Pool!Prepare
<1>10. CASE InitPoolFails
  BY <1>10 DEF InitPoolFails, Fails
<1>11. CASE StartPool
  BY <1>11 DEF StartPool, Goes, Pool!Begin
<1>12. ASSUME NEW w \in Workers, LaunchWorker(w)
      PROVE  (NothingAhead /\ TotalsInOrder)'
  BY <1>12 DEF LaunchWorker, Goes, Pool!Spawn
<1>13. CASE PoolStarted
  BY <1>13 DEF PoolStarted, Goes
<1>14. CASE StartDashboard
  BY <1>14 DEF StartDashboard, Goes, Dashboard!Begin
<1>15. CASE StartStreamer
  BY <1>15 DEF StartStreamer, Goes, Dashboard!Spawn
<1>16. CASE LaunchLoop
  BY <1>16 DEF LaunchLoop, Goes
<1>17. CASE Awaken
  BY <1>17 DEF Awaken, Goes
<1>18. CASE Cancel
  BY <1>18 DEF Cancel, Goes
<1>19. CASE HaltPool
  BY <1>19 DEF HaltPool, Goes, Pool!Halt
<1>20. CASE AwaitPool
  BY <1>20 DEF AwaitPool, Goes, Pool!Finish
<1>21. CASE HaltDashboard
  BY <1>21 DEF HaltDashboard, Goes, Dashboard!Halt
<1>22. CASE AwaitDashboard
  BY <1>22 DEF AwaitDashboard, Goes, Dashboard!Finish
<1>23. CASE HaltCollector
  BY <1>23 DEF HaltCollector, Goes
<1>24. CASE AwaitCollector
  BY <1>24 DEF AwaitCollector, Goes
<1>25. CASE HaltOptimizer
  BY <1>25 DEF HaltOptimizer, Goes, Optimizer!Halt
<1>26. CASE AwaitOptimizer
  BY <1>26 DEF AwaitOptimizer, Goes, Optimizer!Finish
<1>27. CASE PrintFinalReport
  BY <1>27 DEF PrintFinalReport, Goes
<1>28. CASE Return
  BY <1>28 DEF Return, Goes
<1>29. ASSUME NEW g \in {"gcForcer", "memoryMonitor"}, OptimizerRetires(g)
      PROVE  (NothingAhead /\ TotalsInOrder)'
  BY <1>29 DEF OptimizerRetires, Optimizer!Retire
<1>30. ASSUME NEW g \in Workers \cup {Aggregator}, PoolRetires(g)
      PROVE  (NothingAhead /\ TotalsInOrder)'
  BY <1>30 DEF PoolRetires, Pool!Retire
<1>31. ASSUME NEW g \in {"broadcaster", "streamer"}, DashboardRetires(g)
      PROVE  (NothingAhead /\ TotalsInOrder)'
  BY <1>31 DEF DashboardRetires, Dashboard!Retire
<1>32. CASE SendLogs
  BY <1>32 DEF SendLogs, Traffic!Send
<1>33. CASE Publish
  BY <1>33 DEF Publish, Traffic!Publish
<1>34. CASE CollectorComputes
  BY <1>34 DEF CollectorComputes
<1>35. CASE CollectorStores
  BY <1>35 DEF CollectorStores
<1>36. CASE CollectorReturns
  BY <1>36 DEF CollectorReturns
<1>37. CASE UpdaterTicks
  BY <1>37 DEF UpdaterTicks, Traffic!Begin
<1>38. CASE UpdaterLoads
  BY <1>38 DEF UpdaterLoads, Traffic!End
<1>39. CASE UpdaterStores
  BY <1>39 DEF UpdaterStores, Traffic!Forget
<1>40. CASE UpdaterReturns
  BY <1>40 DEF UpdaterReturns, Cancelled
<1>41. CASE UNCHANGED vars
  BY <1>41 DEF vars
<1> QED
  BY <1>1, <1>2, <1>3, <1>4, <1>5, <1>6, <1>7, <1>8, <1>9, <1>10, <1>11, <1>12,
     <1>13, <1>14, <1>15, <1>16, <1>17, <1>18, <1>19, <1>20, <1>21, <1>22, <1>23,
     <1>24, <1>25, <1>26, <1>27, <1>28, <1>29, <1>30, <1>31, <1>32, <1>33, <1>34,
     <1>35, <1>36, <1>37, <1>38, <1>39, <1>40, <1>41
  DEF Next, Starts, Stops, CollectorSteps, UpdaterSteps, Ended

\* It always holds.
LEMMA AppAlways == Safety => []AppInv
<1>1. AppInv /\ [Next]_vars => AppInv'
  BY TypeStep, ControlStep, DataStep DEF AppInv
<1> QED
  BY <1>1, AppInit, PTL DEF Safety

\* The state of the application keeps its type; no rate or total leaves its range.
THEOREM AppTypeCorrect == Safety => []TypeOK
<1>1. AppInv => TypeOK
  BY DEF AppInv
<1> QED
  BY <1>1, AppAlways, PTL

\* When the process ends, the pool and the dashboard run nothing, and after an orderly
\* Stop neither do the collector and the optimizer: each Stop waited for, and signals
\* that come while Start is at work wait in the channel.
THEOREM AppLeavesNothing == Safety => []NothingLeftAtExit
<1>1. AppInv => NothingLeftAtExit
  BY DEF AppInv, ServicesInTheirSpans, CollectorInItsSpan, ExitIsTheEnd, Pool!Quiet,
         Dashboard!Quiet, Optimizer!Quiet, Active, PoolSpan, DashboardSpan,
         NothingLeftAtExit
<1> QED
  BY <1>1, AppAlways, PTL

\* Whoever makes or shows metrics finds the collector at work.
THEOREM AppCollectsWhileUsed == Safety => []CollectedWhileUsed
<1>1. AppInv => CollectedWhileUsed
  BY DEF AppInv, ServicesInTheirSpans, CollectorInItsSpan, Pool!Quiet, Dashboard!Quiet,
         Active, CollectorSpan, CollectedWhileUsed
<1> QED
  BY <1>1, AppAlways, PTL

\* Without an outage no rate shown is negative, in whatever order the collector and the
\* update loop overwrite each other's metrics.
THEOREM SteadyRate == Safety => []SteadyRateIsNonNegative
<1>1. AppInv => SteadyRateIsNonNegative
  BY DEF AppInv, TotalsInOrder, SteadyRateIsNonNegative
<1> QED
  BY <1>1, AppAlways, PTL

\* Who writes the report, and who the count of what was sent.
LEMMA WhoWrites ==
  [Next]_vars => /\ PrintFinalReport \/ UNCHANGED report
                 /\ SendLogs \/ UNCHANGED sent
<1> USE DEF vars, processVars, trafficVars, Fails
<1>1. Starts \/ Signal \/ Awaken => UNCHANGED <<report, sent>>
  BY DEF Starts, Signal, Awaken, ParseFlags, NewLogGenerator, Notify, InitOptimizer,
         StartOptimizer, StartMonitor, StartCollector, InitPool, InitPoolFails, StartPool,
         LaunchWorker, PoolStarted, StartDashboard, StartStreamer, LaunchLoop
<1>2. Stops => UNCHANGED sent /\ (PrintFinalReport \/ UNCHANGED report)
  BY DEF Stops, Cancel, HaltPool, AwaitPool, HaltDashboard, AwaitDashboard,
         HaltCollector, AwaitCollector, HaltOptimizer, AwaitOptimizer, PrintFinalReport,
         Return
<1>3. ASSUME NEW g, OptimizerRetires(g) \/ PoolRetires(g) \/ DashboardRetires(g)
      PROVE  UNCHANGED <<report, sent>>
  BY <1>3 DEF OptimizerRetires, PoolRetires, DashboardRetires
<1>4. SendLogs \/ Publish => UNCHANGED report /\ (SendLogs \/ UNCHANGED sent)
  BY DEF SendLogs, Publish, Traffic!Publish
<1>5. CollectorSteps \/ CollectorReturns \/ UpdaterSteps \/ UpdaterReturns
        => UNCHANGED <<report, sent>>
  BY DEF CollectorSteps, CollectorComputes, CollectorStores, CollectorReturns,
         UpdaterSteps, UpdaterTicks, UpdaterLoads, UpdaterStores, UpdaterReturns,
         Traffic!Begin, Traffic!End, Traffic!Forget
<1> QED
  BY <1>1, <1>2, <1>3, <1>4, <1>5 DEF Next, Ended

\* The final report stands: it is printed once, no log leaves afterwards, and it claims
\* no more than was sent.
THEOREM FinalReport == Safety => ReportIsFinal
<1> DEFINE Final == report' # NoReport =>
                      sent' = sent /\ report'.sent <= sent /\ report \in {NoReport, report'}
<1>1. AppInv /\ [Next]_vars => [Final]_vars
  <2> SUFFICES ASSUME AppInv, [Next]_vars, report' # NoReport PROVE Final
    OBVIOUS
  <2> USE DEF AppInv, ExitIsTheEnd, NothingAhead
  <2>1. CASE PrintFinalReport
    BY <2>1 DEF PrintFinalReport, Goes, trafficVars
  <2>2. CASE ~PrintFinalReport
    <3>1. UNCHANGED report
      BY <2>2, WhoWrites
    <3>2. at = "return" \/ at = "exited"
      BY <3>1
    <3>3. ~SendLogs
      BY <3>2 DEF SendLogs, ServicesInTheirSpans, Pool!Quiet, Active, PoolSpan
    <3> QED
      BY <3>1, <3>3, WhoWrites
  <2> QED
    BY <2>1, <2>2
<1> QED
  BY <1>1, AppAlways, PTL DEF Safety, ReportIsFinal
=============================================================================
