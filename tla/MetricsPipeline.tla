--------------------------- MODULE MetricsPipeline ---------------------------
(***************************************************************************)
(* How the counters of the workers of a running pool reach the screen:     *)
(* worker -> metricsChannel -> metricsAggregator (its map and poolMetrics) *)
(* -> GetMetrics -> the server's update loop -> MetricsCollector, whose    *)
(* current metrics are loaded and stored by three writers that take no     *)
(* lock.  (internal/worker, internal/monitor/control_server.go,            *)
(* pkg/metrics/collector.go)                                               *)
(*                                                                         *)
(* Kept of a metrics record: how much was sent.  Whether the worker was    *)
(* active travels with it too, and is left open until it is used; CPU,     *)
(* memory, rates and scores are left out.                                  *)
(* A local variable that is dead is set back to its initial value.         *)
(***************************************************************************)
EXTENDS Integers, Sequences, Functions

CONSTANTS
  N,           \* workers of the pool
  ChannelCap,  \* capacity of metricsChannel
  MaxSent      \* bound: batches one worker sends

ASSUME SizesAssumption == N \in Nat \ {0} /\ ChannelCap \in Nat \ {0} /\ MaxSent \in Nat

Workers == 1..N
Messages == [id : Workers, sent : 0..MaxSent]
Entries == [Workers -> 0..MaxSent]          \* 0 also stands for no entry yet
Totals == 0..(N * MaxSent)

VARIABLES
  sent,        \* totalSent of each worker
  channel,     \* metricsChannel
  aggregator,  \* select, collect (sampling the CPU), store (writing its map)
  received,    \* the message the aggregator is storing
  map,         \* workerMetricsMap, which poolMetrics refers to and does not copy
  published,   \* poolMetrics.TotalSent
  shared,      \* whether poolMetrics refers to that map yet: it starts with an empty one
  updater,     \* where metricsUpdateLoop is
  todo,        \* entries its GetMetrics has still to copy
  copy,        \* the copy, and the TotalSent that came with it
  current,     \* the collector's currentMetrics: [sent, tx]
  loaded,      \* what the update loop and the collect loop loaded of it
  collector    \* collectLoop: wait, computed

workerVars == <<sent, channel>>
poolVars == <<aggregator, received, map, published, shared>>
updateVars == <<updater, todo, copy>>
vars == <<workerVars, poolVars, updateVars, current, loaded, collector>>

TotalOf(f) == FoldFunction(+, 0, f)

Current == [sent : Totals, tx : Totals]
Nothing == [sent |-> 0, tx |-> 0]
NoMessage == [id |-> 1, sent |-> 0]
NoCopy == [entries |-> [w \in Workers |-> 0], total |-> 0]

TypeOK ==
  /\ sent \in [Workers -> 0..MaxSent]
  /\ channel \in Seq(Messages) /\ Len(channel) <= ChannelCap
  /\ aggregator \in {"select", "collect", "store"}
  /\ received \in Messages
  /\ map \in Entries
  /\ published \in Totals /\ shared \in BOOLEAN
  /\ updater \in {"wait", "copy", "storeWorkers", "loadSystem", "storeSystem"}
  /\ todo \in SUBSET Workers
  /\ copy \in [entries : Entries, total : Totals]
  /\ current \in Current
  /\ loaded \in [{"updater", "collector"} -> Current]
  /\ collector \in {"wait", "computed"}

Init ==
  /\ sent = [w \in Workers |-> 0] /\ channel = <<>>
  /\ aggregator = "select"
  /\ received = NoMessage
  /\ map = [w \in Workers |-> 0]
  /\ published = 0 /\ shared = FALSE
  /\ updater = "wait" /\ todo = {}
  /\ copy = NoCopy
  /\ current = Nothing
  /\ loaded = [t \in {"updater", "collector"} |-> Nothing]
  /\ collector = "wait"

-----------------------------------------------------------------------------
(* The workers.                                                            *)

\* A batch leaves: totalSent.Add.
SendBatch(w) ==
  /\ sent[w] < MaxSent
  /\ sent' = [sent EXCEPT ![w] = @ + 1]
  /\ UNCHANGED <<channel, poolVars, updateVars, current, loaded, collector>>

\* As if each message were sent by a goroutine of its own, so that they overtake each other.
ReportsInAnyOrder(w) ==
  /\ Len(channel) < ChannelCap
  /\ \E i \in 0..Len(channel) :
       channel' = SubSeq(channel, 1, i) \o <<[id |-> w, sent |-> sent[w]]>>
                  \o SubSeq(channel, i + 1, Len(channel))
  /\ UNCHANGED <<sent, poolVars, updateVars, current, loaded, collector>>

\* As if the channel had no limit.
ReportUnbounded(w) ==
  /\ channel' = Append(channel, [id |-> w, sent |-> sent[w]])
  /\ UNCHANGED <<sent, poolVars, updateVars, current, loaded, collector>>

\* One tick of metricsCollector: the counters go into the channel, or are dropped when
\* it is full, which changes nothing.
Report(w) ==
  /\ Len(channel) < ChannelCap
  /\ channel' = Append(channel, [id |-> w, sent |-> sent[w]])
  /\ UNCHANGED <<sent, poolVars, updateVars, current, loaded, collector>>

-----------------------------------------------------------------------------
(* metricsAggregator                                                       *)

AggregatorReceives ==
  /\ aggregator = "select" /\ channel # <<>>
  /\ aggregator' = "store"
  /\ received' = Head(channel) /\ channel' = Tail(channel)
  /\ UNCHANGED <<sent, map, published, shared, updateVars, current, loaded, collector>>

\* As if the counters were what came on top of the last message's.
AggregatorAddsUp ==
  /\ aggregator = "store" /\ aggregator' = "select"
  /\ map' = [map EXCEPT ![received.id] = @ + received.sent]
  /\ received' = NoMessage
  /\ UNCHANGED <<workerVars, published, shared, updateVars, current, loaded,
                 collector>>

\* workerMetricsMap[id] = m
AggregatorStores ==
  /\ aggregator = "store" /\ aggregator' = "select"
  /\ map' = [map EXCEPT ![received.id] = received.sent]
  /\ received' = NoMessage
  /\ UNCHANGED <<workerVars, published, shared, updateVars, current, loaded,
                 collector>>

AggregatorTicks ==
  /\ aggregator = "select" /\ aggregator' = "collect"
  /\ UNCHANGED <<workerVars, received, map, published, shared, updateVars, current,
                 loaded, collector>>

\* The totals of the running workers are read off their counters, not off the map.
AggregatorPublishes ==
  /\ aggregator = "collect" /\ aggregator' = "select"
  /\ published' = TotalOf(sent) /\ shared' = TRUE
  /\ UNCHANGED <<workerVars, received, map, updateVars, current, loaded, collector>>

-----------------------------------------------------------------------------
(* metricsUpdateLoop: GetMetrics, UpdateWorkerMetrics, UpdateSystemMetrics. *)

\* The pool's metrics are loaded; the initial ones hold an empty map of their own.
UpdaterTicks ==
  /\ updater = "wait" /\ updater' = "copy"
  /\ todo' = IF shared THEN Workers ELSE {}
  /\ copy' = [NoCopy EXCEPT !.total = published]
  /\ UNCHANGED <<workerVars, poolVars, current, loaded, collector>>

\* GetMetrics copies the shared map entry by entry, in no particular order.
UpdaterCopies(w) ==
  /\ updater = "copy" /\ w \in todo
  /\ todo' = todo \ {w}
  /\ copy' = [copy EXCEPT !.entries[w] = map[w]]
  /\ UNCHANGED <<workerVars, poolVars, updater, current, loaded, collector>>

UpdaterLoadsForWorkers ==
  /\ updater = "copy" /\ todo = {} /\ updater' = "storeWorkers"
  /\ loaded' = [loaded EXCEPT !["updater"] = current]
  /\ UNCHANGED <<workerVars, poolVars, todo, copy, current, collector>>

\* Only the entries of active workers count.  A worker is active when its rate was above
\* zero: one that has sent may or may not be, its first measurement always is zero.
ActiveTotals(entries) ==
  {TotalOf([w \in Workers |-> IF w \in active THEN entries[w] ELSE 0]) :
     active \in SUBSET Workers}

\* As if the new total were added to the old one.
UpdaterAddsToTotal ==
  /\ updater = "storeWorkers" /\ updater' = "loadSystem"
  /\ \E total \in ActiveTotals(copy.entries) :
       current' = [loaded["updater"] EXCEPT !.sent = @ + total]
  /\ loaded' = [loaded EXCEPT !["updater"] = Nothing]
  /\ copy' = [NoCopy EXCEPT !.total = copy.total]
  /\ UNCHANGED <<workerVars, poolVars, todo, collector>>

UpdaterStoresWorkers ==
  /\ updater = "storeWorkers" /\ updater' = "loadSystem"
  /\ \E total \in ActiveTotals(copy.entries) :
       current' = [loaded["updater"] EXCEPT !.sent = total]
  /\ loaded' = [loaded EXCEPT !["updater"] = Nothing]
  /\ copy' = [NoCopy EXCEPT !.total = copy.total]
  /\ UNCHANGED <<workerVars, poolVars, todo, collector>>

UpdaterLoadsForSystem ==
  /\ updater = "loadSystem" /\ updater' = "storeSystem"
  /\ loaded' = [loaded EXCEPT !["updater"] = current]
  /\ UNCHANGED <<workerVars, poolVars, todo, copy, current, collector>>

\* As if, like the command line's updateMetrics, it filled in a copy and left it there.
UpdaterFillsInCopy ==
  /\ updater = "storeSystem" /\ updater' = "wait"
  /\ loaded' = [loaded EXCEPT !["updater"] = Nothing]
  /\ copy' = NoCopy
  /\ UNCHANGED <<workerVars, poolVars, todo, current, collector>>

\* The transmitted packets are the pool's TotalSent.
UpdaterStoresSystem ==
  /\ updater = "storeSystem" /\ updater' = "wait"
  /\ current' = [loaded["updater"] EXCEPT !.tx = copy.total]
  /\ loaded' = [loaded EXCEPT !["updater"] = Nothing]
  /\ copy' = NoCopy
  /\ UNCHANGED <<workerVars, poolVars, todo, collector>>

-----------------------------------------------------------------------------
(* collectLoop of the MetricsCollector.                                    *)

\* collectCurrentMetrics starts from the current metrics ...
CollectorComputes ==
  /\ collector = "wait" /\ collector' = "computed"
  /\ loaded' = [loaded EXCEPT !["collector"] = current]
  /\ UNCHANGED <<workerVars, poolVars, updateVars, current>>

\* ... and updateMetrics stores the result over whatever was stored in the meantime.
CollectorStores ==
  /\ collector = "computed" /\ collector' = "wait"
  /\ current' = loaded["collector"]
  /\ loaded' = [loaded EXCEPT !["collector"] = Nothing]
  /\ UNCHANGED <<workerVars, poolVars, updateVars>>

-----------------------------------------------------------------------------
AggregatorSteps == AggregatorStores \/ AggregatorPublishes
UpdaterSteps == \/ UpdaterTicks \/ \E w \in Workers : UpdaterCopies(w)
                \/ UpdaterLoadsForWorkers \/ UpdaterStoresWorkers
                \/ UpdaterLoadsForSystem \/ UpdaterStoresSystem

Next == \/ \E w \in Workers : SendBatch(w) \/ Report(w)
        \/ AggregatorReceives \/ AggregatorTicks \/ AggregatorSteps
        \/ UpdaterSteps
        \/ CollectorComputes \/ CollectorStores

\* Tickers fire; a select that finds its ticker ready again and again takes it, since
\* Go chooses at random among the ready cases.
Fairness == /\ SF_vars(AggregatorTicks) /\ WF_vars(AggregatorSteps)
            /\ WF_vars(UpdaterSteps)

Safety == Init /\ [][Next]_vars
Spec == Safety /\ Fairness

-----------------------------------------------------------------------------
(* Properties *)

\* No entry of the aggregator's map claims more than its worker has sent.
EntriesBacked == \A w \in Workers : map[w] <= sent[w]

\* No figure on the way claims more than the workers have sent, although entries are
\* copied one by one and stale metrics are stored over newer ones.
NeverOverstated ==
  /\ EntriesBacked
  /\ \A total \in {published, copy.total, current.sent, current.tx} :
       total <= TotalOf(sent)

\* The entry of a worker in the aggregator's map never falls back: the channel drops
\* the newest message, not one between two others, and has one receiver.
EntriesAdvance == [][\A w \in Workers : map'[w] >= map[w]]_vars

\* Once the workers have stopped sending, the collector's count of transmitted packets
\* (network_tx_packets) is the exact total, at least until the collect loop next stores
\* what it loaded before.  Not so total_sent, in which workers only count while active.
TotalIsShown == (\A w \in Workers : sent[w] = MaxSent) ~> current.tx = TotalOf(sent)

\* The entries as the copy will show them, if the aggregator writes none of them first.
Walk == [w \in Workers |-> IF w \in todo THEN map[w] ELSE copy.entries[w]]

\* The pipeline with all entries counting, as SentTotals sees it.
Promise == INSTANCE SentTotals
             WITH steady <- TRUE, sent <- TotalOf(sent),
                  published <- IF shared THEN TotalOf(map) ELSE 0,
                  reading <- updater = "copy", total <- TotalOf(Walk)

\* What the aggregator's map says in all never falls and never claims too much, and a
\* copy of it, made while it changes, sums up to no less than the map did when the
\* copying began and to no more than it does when it ends.
ImplementsTotals == Promise!Safety

\* GetMetrics is thread-safe (worker_pool.go:476, control_server.go:207): it never walks
\* the map while the aggregator writes to it.
NoConcurrentMapAccess == ~(updater = "copy" /\ todo # {} /\ aggregator = "store")

-----------------------------------------------------------------------------
(* The inductive invariants behind EntriesAdvance, and behind the others.    *)

EntryTypes ==
  /\ sent \in [Workers -> 0..MaxSent]
  /\ channel \in Seq(Messages) /\ received \in Messages
  /\ map \in Entries

\* A message lies between the entry it will replace and the counter it was read from.
Timely(m) == map[m.id] <= m.sent /\ m.sent <= sent[m.id]

\* The messages of a worker are in the channel in the order of their counts, behind the
\* one the aggregator holds.
MessagesInOrder ==
  /\ \A i \in 1..Len(channel) : Timely(channel[i])
  /\ \A i, j \in 1..Len(channel) :
       i < j /\ channel[i].id = channel[j].id => channel[i].sent <= channel[j].sent
  /\ aggregator = "store" =>
       /\ Timely(received)
       /\ \A i \in 1..Len(channel) :
            channel[i].id = received.id => received.sent <= channel[i].sent

EntryInv == EntryTypes /\ MessagesInOrder /\ EntriesBacked

\* The copy shows entries the map had once, and none unless it is made or used.
CopyBehindMap ==
  /\ \A w \in Workers : copy.entries[w] <= map[w]
  /\ updater # "copy" => todo = {}
  /\ updater \notin {"copy", "storeWorkers"} => copy.entries = NoCopy.entries
  /\ ~shared => todo = {} /\ copy.entries = NoCopy.entries

\* Whatever is stored next, also by those who loaded long ago, was sent.
FiguresBacked ==
  /\ published <= TotalOf(sent) /\ copy.total <= TotalOf(sent)
  /\ current.sent <= TotalOf(sent) /\ current.tx <= TotalOf(sent)
  /\ \A t \in {"updater", "collector"} :
       loaded[t].sent <= TotalOf(sent) /\ loaded[t].tx <= TotalOf(sent)

PipelineInv == TypeOK /\ EntryInv /\ CopyBehindMap /\ FiguresBacked
=============================================================================
