----------------------------- MODULE WorkerPool -----------------------------
(***************************************************************************)
(* One WorkerPool (internal/worker/worker_pool.go) and its UDPWorkers      *)
(* (internal/worker/udp_worker.go, udp_worker_ultra.go): who runs, who     *)
(* waits for whom, and when a socket is closed.                            *)
(*                                                                         *)
(* Actors: the owner, a single goroutine that calls Initialize, Start and  *)
(* Stop (main.go, or an HTTP handler holding the control server's mutex);  *)
(* per worker a starter goroutine, the metrics goroutine and the send      *)
(* loop; and the metrics aggregator.  What the batches and the metrics     *)
(* contain is left to MetricsPipeline and RateControl.                     *)
(***************************************************************************)
EXTENDS Integers

CONSTANTS
  N,                  \* profile.WorkerCount, at most MAX_WORKERS
  MetricsCap,         \* capacity of metricsChannel
  Modes,              \* the precision modes a profile may select
  SettleCoversStart   \* Start's sleeps outlast the launch of every worker

AllModes == {"default", "high", "medium", "performance", "ultra"}

ASSUME NAssumption == N \in Nat \ {0}
ASSUME CapAssumption == MetricsCap \in Nat \ {0}
ASSUME ModesAssumption == Modes \subseteq AllModes
ASSUME SettleAssumption == SettleCoversStart \in BOOLEAN

Workers == 1..N

\* 0 stands for the aggregator in the pool's WaitGroup, w for worker w's starter.
AggregatorId == 0
PoolGoroutines == 0..N

VARIABLES
  owner,          \* where the owner is in Initialize, Start or Stop
  next,           \* the loop index of Start's and Stop's walk over wp.workers
  mode,           \* precisionMode, the same for every worker of the pool
  poolRunning,    \* wp.isRunning
  poolWg,         \* wp.wg: who was Added and is not Done
  ctxDone,        \* wp.cancel() was called
  aggregator,     \* metricsAggregator: idle, select, collect, done
  queued,         \* messages in metricsChannel
  running,        \* w.isRunning
  wg,             \* w.wg: which of "metrics", "sender" was Added and is not Done
  stopClosed,     \* w.stopChan is closed
  conn,           \* w.conn: none, open, closed
  starter,        \* the goroutine Start launches for w
  metrics,        \* metricsCollector of w: idle, wait, offer, done
  sender          \* sendLoop of w: idle, loop, sending, done

poolVars == <<poolRunning, poolWg, ctxDone>>
workerVars == <<running, wg, stopClosed, conn>>
vars == <<owner, next, mode, poolVars, aggregator, queued, workerVars,
          starter, metrics, sender>>

\* The owner is between Stop's first line and its return.
StopSteps == {"stopping", "closing", "waiting", "cleaning"}
OwnerSteps == {"new", "failed", "ready", "starting", "running", "stopped"}
              \cup StopSteps

TypeOK ==
  /\ owner \in OwnerSteps
  /\ next \in 1..(N + 1)
  /\ mode \in AllModes
  /\ poolRunning \in BOOLEAN
  /\ poolWg \in SUBSET PoolGoroutines
  /\ ctxDone \in BOOLEAN
  /\ aggregator \in {"idle", "select", "collect", "done"}
  /\ queued \in 0..MetricsCap
  /\ running \in [Workers -> BOOLEAN]
  /\ wg \in [Workers -> SUBSET {"metrics", "sender"}]
  /\ stopClosed \in [Workers -> BOOLEAN]
  /\ conn \in [Workers -> {"none", "open", "closed"}]
  /\ starter \in [Workers -> {"idle", "spawned", "addMetrics", "addSender", "done"}]
  /\ metrics \in [Workers -> {"idle", "wait", "offer", "done"}]
  /\ sender \in [Workers -> {"idle", "loop", "sending", "done"}]

Init ==
  /\ owner = "new" /\ next = 1
  /\ mode \in Modes
  /\ poolRunning = FALSE /\ poolWg = {} /\ ctxDone = FALSE
  /\ aggregator = "idle" /\ queued = 0
  /\ running = [w \in Workers |-> FALSE]
  /\ wg = [w \in Workers |-> {}]
  /\ stopClosed = [w \in Workers |-> FALSE]
  /\ conn = [w \in Workers |-> "none"]
  /\ starter = [w \in Workers |-> "idle"]
  /\ metrics = [w \in Workers |-> "idle"]
  /\ sender = [w \in Workers |-> "idle"]

\* Thread `pcs' of worker w moves from one place to another.
Moves(pcs, w, from, to) == pcs[w] = from /\ pcs' = [pcs EXCEPT ![w] = to]

-----------------------------------------------------------------------------
(* Initialize *)

\* Every worker is created, its UDP socket connected.
Initialize ==
  /\ owner = "new" /\ ~poolRunning
  /\ owner' = "ready"
  /\ conn' = [w \in Workers |-> "open"]
  /\ UNCHANGED <<next, mode, poolVars, aggregator, queued, running, wg,
                 stopClosed, starter, metrics, sender>>

\* Creating worker k + 1 fails (its address does not resolve): Initialize returns
\* the error and leaves the sockets of the first k workers as they are.
InitializeFails ==
  /\ owner = "new" /\ ~poolRunning
  /\ \E k \in 0..(N - 1) :
       conn' = [w \in Workers |-> IF w <= k THEN "open" ELSE "none"]
  /\ owner' = "failed"
  /\ UNCHANGED <<next, mode, poolVars, aggregator, queued, running, wg,
                 stopClosed, starter, metrics, sender>>

-----------------------------------------------------------------------------
(* Start *)

Start ==
  /\ owner = "ready" /\ ~poolRunning
  /\ poolRunning' = TRUE
  /\ poolWg' = poolWg \cup {AggregatorId}
  /\ aggregator' = "select"
  /\ owner' = "starting" /\ next' = 1
  /\ UNCHANGED <<mode, ctxDone, queued, workerVars, starter, metrics, sender>>

\* One turn of Start's loop: wg.Add(1) and the goroutine that will call w.Start.
LaunchStarter ==
  /\ owner = "starting" /\ next <= N
  /\ poolWg' = poolWg \cup {next}
  /\ starter' = [starter EXCEPT ![next] = "spawned"]
  /\ next' = next + 1
  /\ UNCHANGED <<owner, mode, poolRunning, ctxDone, aggregator, queued,
                 workerVars, metrics, sender>>

\* As if Start returned straight after its loop.
StartReturnsAtOnce ==
  /\ owner = "starting" /\ next = N + 1
  /\ owner' = "running"
  /\ UNCHANGED <<next, mode, poolVars, aggregator, queued, workerVars,
                 starter, metrics, sender>>

\* Start sleeps for 100 ms and returns.  Nothing in the code joins the starters:
\* that they have finished by then is an assumption about time.
StartReturns ==
  /\ owner = "starting" /\ next = N + 1
  /\ SettleCoversStart => \A w \in Workers : starter[w] = "done"
  /\ owner' = "running"
  /\ UNCHANGED <<next, mode, poolVars, aggregator, queued, workerVars,
                 starter, metrics, sender>>

-----------------------------------------------------------------------------
(* UDPWorker.Start, run by the starter of w.                               *)

\* The compare-and-swap on isRunning.  (It cannot fail: nobody else starts w.)
StarterClaims(w) ==
  /\ ~running[w]
  /\ Moves(starter, w, "spawned", "addMetrics")
  /\ running' = [running EXCEPT ![w] = TRUE]
  /\ UNCHANGED <<owner, next, mode, poolVars, aggregator, queued, wg,
                 stopClosed, conn, metrics, sender>>

\* wg.Add(1); go metricsCollector
StarterAddsMetrics(w) ==
  /\ Moves(starter, w, "addMetrics", "addSender")
  /\ wg' = [wg EXCEPT ![w] = @ \cup {"metrics"}]
  /\ metrics' = [metrics EXCEPT ![w] = "wait"]
  /\ UNCHANGED <<owner, next, mode, poolVars, aggregator, queued, running,
                 stopClosed, conn, sender>>

\* wg.Add(1); go sendLoop; then the starter returns, which is wp.wg.Done().
StarterAddsSender(w) ==
  /\ Moves(starter, w, "addSender", "done")
  /\ wg' = [wg EXCEPT ![w] = @ \cup {"sender"}]
  /\ sender' = [sender EXCEPT ![w] = "loop"]
  /\ poolWg' = poolWg \ {w}
  /\ UNCHANGED <<owner, next, mode, poolRunning, ctxDone, aggregator, queued,
                 running, stopClosed, conn, metrics>>

-----------------------------------------------------------------------------
(* The send loops.                                                         *)

\* sendLoopMedium and sendLoopPerformance do not look at stopChan at all.
LoopHearsStop(w) == mode \in {"default", "high", "ultra"} /\ stopClosed[w]

LoopToldToEnd(w) == ctxDone \/ LoopHearsStop(w)

\* The loop goes for another batch.  The ticker modes select at random among the
\* ready cases, so they may do so after the end was signalled; sendLoopUltra sends
\* in the default branch, only when no signal is there.
SenderTakesTick(w) ==
  /\ mode = "ultra" => ~LoopToldToEnd(w)
  /\ Moves(sender, w, "loop", "sending")
  /\ UNCHANGED <<owner, next, mode, poolVars, aggregator, queued, workerVars,
                 starter, metrics>>

\* sendBatch writes the batch to the socket; success or error, the loop goes on.
SenderWrites(w) ==
  /\ Moves(sender, w, "sending", "loop")
  /\ UNCHANGED <<owner, next, mode, poolVars, aggregator, queued, workerVars,
                 starter, metrics>>

SenderReturns(w) ==
  /\ LoopToldToEnd(w)
  /\ Moves(sender, w, "loop", "done")
  /\ wg' = [wg EXCEPT ![w] = @ \ {"sender"}]
  /\ UNCHANGED <<owner, next, mode, poolVars, aggregator, queued, running,
                 stopClosed, conn, starter, metrics>>

-----------------------------------------------------------------------------
(* metricsCollector of one worker.                                         *)

MetricsTakesTick(w) ==
  /\ Moves(metrics, w, "wait", "offer")
  /\ UNCHANGED <<owner, next, mode, poolVars, aggregator, queued, workerVars,
                 starter, sender>>

\* As if the send to metricsChannel had no default branch.
MetricsOffersBlocking(w) ==
  /\ Moves(metrics, w, "offer", "wait")
  /\ queued < MetricsCap
  /\ queued' = queued + 1
  /\ UNCHANGED <<owner, next, mode, poolVars, aggregator, workerVars, starter,
                 sender>>

\* As if the channel had no bound.
MetricsOffersUnbounded(w) ==
  /\ Moves(metrics, w, "offer", "wait")
  /\ queued <= MetricsCap
  /\ queued' = queued + 1
  /\ UNCHANGED <<owner, next, mode, poolVars, aggregator, workerVars, starter,
                 sender>>

\* The non-blocking send: a full channel drops the message.
MetricsOffers(w) ==
  /\ Moves(metrics, w, "offer", "wait")
  /\ queued' = IF queued < MetricsCap THEN queued + 1 ELSE queued
  /\ UNCHANGED <<owner, next, mode, poolVars, aggregator, workerVars, starter,
                 sender>>

MetricsReturns(w) ==
  /\ ctxDone \/ stopClosed[w]
  /\ Moves(metrics, w, "wait", "done")
  /\ wg' = [wg EXCEPT ![w] = @ \ {"metrics"}]
  /\ UNCHANGED <<owner, next, mode, poolVars, aggregator, queued, running,
                 stopClosed, conn, starter, sender>>

-----------------------------------------------------------------------------
(* metricsAggregator.  While it samples the CPU (100 ms) it receives nothing. *)

AggregatorTakesTick ==
  /\ aggregator = "select" /\ aggregator' = "collect"
  /\ UNCHANGED <<owner, next, mode, poolVars, queued, workerVars, starter,
                 metrics, sender>>

AggregatorPublishes ==
  /\ aggregator = "collect" /\ aggregator' = "select"
  /\ UNCHANGED <<owner, next, mode, poolVars, queued, workerVars, starter,
                 metrics, sender>>

AggregatorReceives ==
  /\ aggregator = "select" /\ queued > 0
  /\ queued' = queued - 1
  /\ UNCHANGED <<owner, next, mode, poolVars, aggregator, workerVars, starter,
                 metrics, sender>>

AggregatorReturns ==
  /\ aggregator = "select" /\ ctxDone
  /\ aggregator' = "done"
  /\ poolWg' = poolWg \ {AggregatorId}
  /\ UNCHANGED <<owner, next, mode, poolRunning, ctxDone, queued, workerVars,
                 starter, metrics, sender>>

-----------------------------------------------------------------------------
(* Stop *)

\* As if Stop did not cancel the context.
StopWithoutCancel ==
  /\ owner = "running" /\ poolRunning
  /\ poolRunning' = FALSE
  /\ owner' = "stopping" /\ next' = 1
  /\ UNCHANGED <<mode, poolWg, ctxDone, aggregator, queued, workerVars, starter,
                 metrics, sender>>

\* The compare-and-swap on the pool's isRunning, then wp.cancel().
Stop ==
  /\ owner = "running" /\ poolRunning
  /\ poolRunning' = FALSE
  /\ ctxDone' = TRUE
  /\ owner' = "stopping" /\ next' = 1
  /\ UNCHANGED <<mode, poolWg, aggregator, queued, workerVars, starter,
                 metrics, sender>>

\* worker.Stop of the next worker starts with its compare-and-swap.
StopClaimsWorker ==
  /\ owner = "stopping" /\ next <= N /\ running[next]
  /\ running' = [running EXCEPT ![next] = FALSE]
  /\ owner' = "closing"
  /\ UNCHANGED <<next, mode, poolVars, aggregator, queued, wg, stopClosed, conn,
                 starter, metrics, sender>>

\* It fails for a worker that is not (yet) running, and Stop drops the error.
StopSkipsWorker ==
  /\ owner = "stopping" /\ next <= N /\ ~running[next]
  /\ next' = next + 1
  /\ UNCHANGED <<owner, mode, poolVars, aggregator, queued, workerVars, starter,
                 metrics, sender>>

StopClosesChannel ==
  /\ owner = "closing" /\ owner' = "waiting"
  /\ stopClosed' = [stopClosed EXCEPT ![next] = TRUE]
  /\ UNCHANGED <<next, mode, poolVars, aggregator, queued, running, wg, conn,
                 starter, metrics, sender>>

\* As if worker.Stop closed the socket without waiting for its goroutines.
StopSkipsWait ==
  /\ owner = "waiting" /\ owner' = "cleaning"
  /\ UNCHANGED <<next, mode, poolVars, aggregator, queued, workerVars, starter,
                 metrics, sender>>

\* w.wg.Wait()
StopAwaitsWorker ==
  /\ owner = "waiting" /\ wg[next] = {}
  /\ owner' = "cleaning"
  /\ UNCHANGED <<next, mode, poolVars, aggregator, queued, workerVars, starter,
                 metrics, sender>>

\* As if cleanup stopped the ticker and left the socket.
StopLeavesSocket ==
  /\ owner = "cleaning" /\ owner' = "stopping" /\ next' = next + 1
  /\ UNCHANGED <<mode, poolVars, aggregator, queued, workerVars, starter,
                 metrics, sender>>

\* w.cleanup(), and on to the next worker.
StopCleansUp ==
  /\ owner = "cleaning" /\ owner' = "stopping" /\ next' = next + 1
  /\ conn' = [conn EXCEPT ![next] = "closed"]
  /\ UNCHANGED <<mode, poolVars, aggregator, queued, running, wg, stopClosed,
                 starter, metrics, sender>>

\* As if Stop returned without wp.wg.Wait().
StopReturnsEarly ==
  /\ owner = "stopping" /\ next = N + 1
  /\ owner' = "stopped"
  /\ UNCHANGED <<next, mode, poolVars, aggregator, queued, workerVars, starter,
                 metrics, sender>>

\* wp.wg.Wait(), then Stop returns.
StopReturns ==
  /\ owner = "stopping" /\ next = N + 1 /\ poolWg = {}
  /\ owner' = "stopped"
  /\ UNCHANGED <<next, mode, poolVars, aggregator, queued, workerVars, starter,
                 metrics, sender>>

-----------------------------------------------------------------------------
Idle(w) == starter[w] = "done" /\ metrics[w] = "done" /\ sender[w] = "done"

\* The pool is given up or stopped and none of its goroutines is left.  Stated as a
\* step, so that TLC's deadlock check reports any other state where nothing moves.
Finished ==
  /\ \/ owner = "failed"
     \/ owner = "stopped" /\ aggregator = "done" /\ \A w \in Workers : Idle(w)
  /\ UNCHANGED vars

OwnerNext == \/ Initialize \/ InitializeFails \/ Start \/ LaunchStarter
             \/ StartReturns \/ Stop \/ StopClaimsWorker \/ StopSkipsWorker
             \/ StopClosesChannel \/ StopAwaitsWorker \/ StopCleansUp
             \/ StopReturns

AggregatorNext == \/ AggregatorTakesTick \/ AggregatorPublishes
                  \/ AggregatorReceives \/ AggregatorReturns

StarterNext(w) == StarterClaims(w) \/ StarterAddsMetrics(w) \/ StarterAddsSender(w)

LoopNext(w) == \/ SenderTakesTick(w) \/ SenderWrites(w) \/ SenderReturns(w)
               \/ MetricsTakesTick(w) \/ MetricsOffers(w) \/ MetricsReturns(w)

Next == \/ OwnerNext \/ AggregatorNext \/ Finished
        \/ \E w \in Workers : StarterNext(w) \/ LoopNext(w)

\* Code that has started to run goes on running.  A select that keeps finding its
\* end-of-life case ready takes it in the end, since Go picks at random among the
\* ready cases: that is strong fairness, the case being ready only while the
\* goroutine is at the select.  Nothing is assumed about ticks, nor that the owner
\* ever calls Initialize, Start or Stop.
Fairness ==
  /\ WF_vars(LaunchStarter \/ StartReturns)
  /\ WF_vars(StopClaimsWorker \/ StopSkipsWorker \/ StopClosesChannel
             \/ StopAwaitsWorker \/ StopCleansUp \/ StopReturns)
  /\ WF_vars(AggregatorPublishes) /\ SF_vars(AggregatorReturns)
  /\ \A w \in Workers : /\ WF_vars(StarterNext(w))
                        /\ WF_vars(SenderWrites(w)) /\ SF_vars(SenderReturns(w))
                        /\ WF_vars(MetricsOffers(w)) /\ SF_vars(MetricsReturns(w))

Safety == Init /\ [][Next]_vars
Spec == Safety /\ Fairness

-----------------------------------------------------------------------------
(* Properties *)

\* When Stop has returned, every worker is stopped: its flag is down, its socket
\* closed, its goroutines gone ("stop all workers", worker_pool.go:457).
StopReleasesWorkers ==
  owner = "stopped" => \A w \in Workers :
    ~running[w] /\ conn[w] = "closed" /\ Idle(w)

\* A send loop that is still alive never works on a closed socket: worker.Stop waits
\* for the loop before cleanup closes it.
NoSendOnClosedSocket ==
  \A w \in Workers : sender[w] \in {"loop", "sending"} => conn[w] = "open"

\* While worker.Stop waits, or has waited, for a worker's goroutines, none is added to
\* the group: the rule of sync.WaitGroup that an Add from zero precedes the Wait.
NoAddDuringWait ==
  [][\A w \in Workers :
       owner \in StopSteps /\ stopClosed[w] => wg'[w] \subseteq wg[w]]_vars

\* Stop returns, whatever the metrics channel holds and whichever select is taken.
StopTerminates == owner \in StopSteps ~> owner = "stopped"

\* Every goroutine of a stopped pool ends, late starters included: none is left
\* blocked on the metrics channel, which nobody receives from any more.
StoppedPoolDrains ==
  owner = "stopped" ~> \A w \in Workers : Idle(w)

\* The goroutines that the pool joins itself are gone when Stop returns.
StopJoinsPool ==
  owner = "stopped" => /\ aggregator = "done" /\ poolWg = {}
                       /\ \A w \in Workers : starter[w] = "done"

-----------------------------------------------------------------------------
(* The inductive invariants behind the safety properties, in two layers.    *)

\* The WaitGroups count exactly the goroutines that are alive.
GroupsCount ==
  /\ AggregatorId \in poolWg <=> aggregator \in {"select", "collect"}
  /\ \A w \in Workers :
       /\ w \in poolWg <=> starter[w] \in {"spawned", "addMetrics", "addSender"}
       /\ "metrics" \in wg[w] <=> metrics[w] \in {"wait", "offer"}
       /\ "sender" \in wg[w] <=> sender[w] \in {"loop", "sending"}

\* A starter launches the metrics goroutine, then the send loop, then ends.
StarterOrder ==
  \A w \in Workers :
    /\ metrics[w] = "idle" <=> starter[w] \in {"idle", "spawned", "addMetrics"}
    /\ sender[w] = "idle" <=> starter[w] # "done"

\* How far the owner is tells which starters were launched.
OwnerLaunched ==
  /\ aggregator = "idle" <=> owner \in {"new", "failed", "ready"}
  /\ owner \in {"new", "failed", "ready"} => \A w \in Workers : starter[w] = "idle"
  /\ owner = "starting" => \A w \in Workers : starter[w] = "idle" <=> w >= next
  /\ owner \in StopSteps \cup {"running", "stopped"} =>
       \A w \in Workers : starter[w] # "idle"
  /\ owner \in StopSteps \ {"stopping"} => next <= N

\* Nobody but Stop signals the end, and Stop returns with the pool's group empty.
OnlyStopEnds ==
  /\ ctxDone \/ (\E w \in Workers : stopClosed[w]) => owner \in StopSteps \cup {"stopped"}
  /\ owner = "stopped" => poolWg = {}

\* What holds whether or not the starters finish within Start's sleeps.
BaseInv == TypeOK /\ GroupsCount /\ StarterOrder /\ OwnerLaunched /\ OnlyStopEnds

\* worker.Stop is through with w.
StopIsPast(w) == owner = "stopped" \/ (owner \in StopSteps /\ w < next)

\* With every starter done before Start returns, the owner's place in Stop tells the
\* state of each worker: behind it stopped and closed, ahead of it running and open.
OwnerControls ==
  /\ owner \in StopSteps \cup {"running", "stopped"} =>
       \A w \in Workers : starter[w] = "done"
  /\ owner \in {"new", "failed", "ready", "starting"} =>
       \A w \in Workers : running[w] <=> starter[w] \in {"addMetrics", "addSender", "done"}
  /\ owner \in {"ready", "starting", "running"} \cup StopSteps =>
       \A w \in Workers : ~StopIsPast(w) => conn[w] = "open"
  /\ owner \in {"running", "stopping"} =>
       \A w \in Workers : ~StopIsPast(w) => running[w]
  /\ owner \in StopSteps \ {"stopping"} =>
       \A w \in Workers : running[w] <=> w > next
  /\ owner = "cleaning" => metrics[next] = "done" /\ sender[next] = "done"
  /\ \A w \in Workers : StopIsPast(w) =>
       ~running[w] /\ conn[w] = "closed" /\ metrics[w] = "done" /\ sender[w] = "done"

SettledInv == BaseInv /\ OwnerControls

-----------------------------------------------------------------------------
(* Refinement *)

phaseOfOwner ==
  CASE owner \in {"new", "failed"} -> "created"
    [] owner = "ready" -> "ready"
    [] owner \in {"starting", "running"} -> "running"
    [] owner \in StopSteps -> "stopping"
    [] owner = "stopped" -> "stopped"

WorkerAlive(w) ==
  \/ starter[w] \in {"spawned", "addMetrics", "addSender"}
  \/ metrics[w] \in {"wait", "offer"}
  \/ sender[w] \in {"loop", "sending"}

liveGoroutines ==
  {w \in Workers : WorkerAlive(w)}
  \cup {g \in {AggregatorId} : aggregator \in {"select", "collect"}}

Lifecycle == INSTANCE ServiceLifecycle
               WITH Goroutines <- PoolGoroutines,
                    phase <- phaseOfOwner, live <- liveGoroutines

\* The pool keeps the promise of ServiceLifecycle, safety and liveness.
ImplementsLifecycle == Lifecycle!Spec

\* Its safety part, the part that is also proved.
ImplementsLifecycleSafety == Lifecycle!Safety
=============================================================================
