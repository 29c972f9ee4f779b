----------------------- MODULE MetricsPipeline_proofs -----------------------
(***************************************************************************)
(* Theorems about MetricsPipeline, for every number of workers, channel    *)
(* capacity and number of batches.                                         *)
(***************************************************************************)
EXTENDS MetricsPipeline, SumTheorems

\* The invariant of the entries: at the start,
LEMMA EntryInit == Init => EntryInv
<1> SUFFICES ASSUME Init PROVE EntryInv
  OBVIOUS
<1> USE SizesAssumption DEF Init, Workers
<1>1. EntryTypes
  BY DEF EntryTypes, Messages, NoMessage, Entries
<1>2. MessagesInOrder /\ EntriesBacked
  BY DEF MessagesInOrder, EntriesBacked
<1> QED
  BY <1>1, <1>2 DEF EntryInv

\* The steps of the updater and of the collector do not touch the entries' way.
LEMMA ReadersKeepEntries ==
  ASSUME EntryInv, UNCHANGED <<sent, channel, aggregator, received, map>>
  PROVE  EntryInv'
BY DEF EntryInv, EntryTypes, MessagesInOrder, EntriesBacked, Timely, Entries, Messages, Workers

\* A batch only raises what a worker has sent.
LEMMA BatchKeepsOrder ==
  ASSUME EntryInv, NEW w \in Workers, SendBatch(w)
  PROVE  EntryInv' /\ UNCHANGED map
<1> USE DEF Timely
<1>1. /\ UNCHANGED <<channel, aggregator, received, map>>
      /\ sent' \in [Workers -> 0..MaxSent]
      /\ \A v \in Workers : sent[v] <= sent'[v]
  BY SizesAssumption DEF SendBatch, poolVars, EntryInv, EntryTypes
<1>2. \A m \in Messages : Timely(m) => map[m.id] <= m.sent /\ m.sent <= sent'[m.id]
  BY <1>1, SizesAssumption DEF Messages, EntryInv, EntryTypes
<1>3. EntriesBacked'
  BY <1>1, SizesAssumption DEF EntriesBacked, EntryInv, EntryTypes, Entries
<1>4. \A i \in 1..Len(channel) : channel[i] \in Messages
  BY DEF EntryInv, EntryTypes
<1>5. MessagesInOrder'
  <2>1. \A i \in 1..Len(channel) : Timely(channel[i])'
    BY <1>1, <1>2, <1>4 DEF EntryInv, MessagesInOrder
  <2>2. aggregator = "store" => Timely(received)'
    BY <1>1, <1>2 DEF EntryInv, EntryTypes, MessagesInOrder
  <2> QED
    BY <1>1, <2>1, <2>2 DEF EntryInv, MessagesInOrder, Timely
<1>6. EntryTypes'
  BY <1>1 DEF EntryInv, EntryTypes, Entries
<1> QED
  BY <1>1, <1>3, <1>5, <1>6 DEF EntryInv

\* A message carries the counter of the moment, which no earlier one exceeds.
LEMMA ReportKeepsOrder ==
  ASSUME EntryInv, NEW w \in Workers, Report(w)
  PROVE  EntryInv' /\ UNCHANGED map
<1> USE DEF Timely
<1> DEFINE m == [id |-> w, sent |-> sent[w]]
<1>1. UNCHANGED <<sent, aggregator, received, map>> /\ channel' = Append(channel, m)
  BY DEF Report, poolVars
<1>2. m \in Messages /\ m.id = w /\ m.sent = sent[w]
  BY DEF Messages, EntryInv, EntryTypes
<1> HIDE DEF m
<1>3. channel \in Seq(Messages) /\ \A i \in 1..Len(channel) : channel[i] \in Messages
  BY DEF EntryInv, EntryTypes
<1>4. /\ channel' \in Seq(Messages) /\ Len(channel') = Len(channel) + 1
      /\ channel'[Len(channel) + 1] = m
      /\ \A i \in 1..Len(channel) : channel'[i] = channel[i]
  BY <1>1, <1>2, <1>3
<1>5. \A n \in Messages : Timely(n)' <=> Timely(n)
  BY <1>1 DEF Timely
<1>6. Timely(m)
  BY <1>2, SizesAssumption DEF Timely, EntryInv, EntryTypes, EntriesBacked, Entries
<1>7. \A i \in 1..Len(channel) : channel[i].id = w => channel[i].sent <= m.sent
  BY <1>2, <1>3 DEF EntryInv, MessagesInOrder, Timely
<1>8. aggregator = "store" /\ received.id = w => received.sent <= m.sent
  BY <1>2 DEF EntryInv, MessagesInOrder, Timely
<1>9. \A i \in 1..Len(channel') : Timely(channel[i])'
  <2> SUFFICES ASSUME NEW i \in 1..Len(channel')
               PROVE  Timely(channel[i])'
    OBVIOUS
  <2>1. CASE i \in 1..Len(channel)
    BY <2>1, <1>1, <1>3, <1>4 DEF EntryInv, MessagesInOrder, Timely
  <2>2. CASE i = Len(channel) + 1
    BY <2>2, <1>1, <1>4, <1>6 DEF Timely
  <2> QED
    BY <2>1, <2>2, <1>3, <1>4
<1>10. \A i, j \in 1..Len(channel') :
         i < j /\ channel'[i].id = channel'[j].id => channel'[i].sent <= channel'[j].sent
  <2> SUFFICES ASSUME NEW i \in 1..Len(channel'), NEW j \in 1..Len(channel'),
                      i < j, channel'[i].id = channel'[j].id
               PROVE  channel'[i].sent <= channel'[j].sent
    OBVIOUS
  <2>1. i \in 1..Len(channel)
    BY <1>3, <1>4
  <2>2. CASE j \in 1..Len(channel)
    BY <2>1, <2>2, <1>4 DEF EntryInv, MessagesInOrder
  <2>3. CASE j = Len(channel) + 1
    BY <2>1, <2>3, <1>2, <1>4, <1>7
  <2> QED
    BY <2>2, <2>3, <1>3, <1>4
<1>11. aggregator = "store" =>
         /\ Timely(received)'
         /\ \A i \in 1..Len(channel') :
              channel'[i].id = received.id => received.sent <= channel'[i].sent
  <2> SUFFICES ASSUME aggregator = "store", NEW i \in 1..Len(channel'),
                      channel'[i].id = received.id
               PROVE  received.sent <= channel'[i].sent
    BY <1>1, <1>5 DEF EntryInv, EntryTypes, MessagesInOrder
  <2>1. CASE i \in 1..Len(channel)
    BY <2>1, <1>4 DEF EntryInv, MessagesInOrder
  <2>2. CASE i = Len(channel) + 1
    BY <2>2, <1>2, <1>4, <1>8
  <2> QED
    BY <2>1, <2>2, <1>3, <1>4
<1>12. EntryTypes' /\ EntriesBacked'
  BY <1>1, <1>4 DEF EntryInv, EntryTypes, EntriesBacked, Entries
<1> QED
  BY <1>1, <1>9, <1>10, <1>11, <1>12 DEF EntryInv, MessagesInOrder

\* The oldest message leaves the channel for the aggregator's hands.
LEMMA ReceiveKeepsOrder ==
  ASSUME EntryInv, AggregatorReceives
  PROVE  EntryInv' /\ UNCHANGED map
<1> USE DEF Timely
<1>1. /\ UNCHANGED <<sent, map>> /\ channel # <<>> /\ aggregator' = "store"
      /\ received' = Head(channel) /\ channel' = Tail(channel)
  BY DEF AggregatorReceives
<1>2. channel \in Seq(Messages)
  BY DEF EntryInv, EntryTypes
<1>3. /\ Len(channel) \in Nat \ {0} /\ received' = channel[1] /\ received' \in Messages
      /\ channel' \in Seq(Messages) /\ Len(channel') = Len(channel) - 1
      /\ \A i \in 1..Len(channel') : channel'[i] = channel[i + 1]
  BY <1>1, <1>2
<1>4. \A i \in 1..Len(channel') : i + 1 \in 1..Len(channel) /\ 1 < i + 1
  BY <1>3
<1>5. \A i \in 1..Len(channel') : Timely(channel[i])'
  BY <1>1, <1>3, <1>4 DEF EntryInv, MessagesInOrder, Timely
<1>6. \A i, j \in 1..Len(channel') :
        i < j /\ channel'[i].id = channel'[j].id => channel'[i].sent <= channel'[j].sent
  <2> SUFFICES ASSUME NEW i \in 1..Len(channel'), NEW j \in 1..Len(channel'),
                      i < j, channel'[i].id = channel'[j].id
               PROVE  channel'[i].sent <= channel'[j].sent
    OBVIOUS
  <2>1. i + 1 \in 1..Len(channel) /\ j + 1 \in 1..Len(channel) /\ i + 1 < j + 1
    BY <1>3, <1>4
  <2> QED
    BY <2>1, <1>3 DEF EntryInv, MessagesInOrder
<1>7. Timely(received)'
  <2>1. 1 \in 1..Len(channel)
    BY <1>3
  <2> QED
    BY <2>1, <1>1, <1>3 DEF EntryInv, MessagesInOrder, Timely
<1>8. \A i \in 1..Len(channel') :
        channel'[i].id = received'.id => received'.sent <= channel'[i].sent
  <2>1. 1 \in 1..Len(channel)
    BY <1>3
  <2> QED
    BY <2>1, <1>3, <1>4 DEF EntryInv, MessagesInOrder
<1>9. EntryTypes' /\ EntriesBacked'
  BY <1>1, <1>3 DEF EntryInv, EntryTypes, EntriesBacked, Entries
<1> QED
  BY <1>1, <1>5, <1>6, <1>7, <1>8, <1>9 DEF EntryInv, MessagesInOrder

\* The aggregator writes its map: the entry grows, and still no message lies behind it.
LEMMA StoreKeepsOrder ==
  ASSUME EntryInv, AggregatorStores
  PROVE  EntryInv' /\ \A w \in Workers : map[w] <= map'[w]
<1>1. /\ aggregator = "store" /\ aggregator' = "select" /\ UNCHANGED <<sent, channel>>
      /\ received' = NoMessage /\ map' = [map EXCEPT ![received.id] = received.sent]
  BY DEF AggregatorStores, workerVars
<1>2. received \in Messages /\ received.id \in Workers /\ received.sent \in 0..MaxSent
  BY DEF EntryInv, EntryTypes, Messages
<1>3. /\ map \in Entries /\ map' \in Entries /\ map'[received.id] = received.sent
      /\ \A w \in Workers \ {received.id} : map'[w] = map[w]
  BY <1>1, <1>2 DEF EntryInv, EntryTypes, Entries
<1>4. map[received.id] <= received.sent /\ received.sent <= sent[received.id]
  BY <1>1 DEF EntryInv, MessagesInOrder, Timely
<1>5. \A w \in Workers : map[w] <= map'[w] /\ map'[w] <= sent[w]
  BY <1>2, <1>3, <1>4, SizesAssumption DEF EntryInv, EntriesBacked, Entries
<1>6. \A i \in 1..Len(channel) : channel[i] \in Messages
  BY DEF EntryInv, EntryTypes
<1>7. \A i \in 1..Len(channel) : Timely(channel[i])'
  <2> SUFFICES ASSUME NEW i \in 1..Len(channel)
               PROVE  map'[channel[i].id] <= channel[i].sent /\ channel[i].sent <= sent[channel[i].id]
    BY <1>1 DEF Timely
  <2>1. Timely(channel[i]) /\ channel[i].id \in Workers
    BY <1>6 DEF EntryInv, MessagesInOrder, Messages
  <2>2. CASE channel[i].id = received.id
    BY <2>1, <2>2, <1>1, <1>3 DEF EntryInv, MessagesInOrder, Timely
  <2>3. CASE channel[i].id # received.id
    BY <2>1, <2>3, <1>3 DEF Timely
  <2> QED
    BY <2>2, <2>3
<1>8. NoMessage \in Messages
  BY SizesAssumption DEF NoMessage, Messages, Workers
<1>9. EntryTypes' /\ EntriesBacked' /\ MessagesInOrder'
  BY <1>1, <1>3, <1>5, <1>7, <1>8 DEF EntryInv, EntryTypes, EntriesBacked, MessagesInOrder
<1> QED
  BY <1>5, <1>9 DEF EntryInv

\* The invariant of the entries is inductive,
LEMMA EntryStep ==
  ASSUME EntryInv, [Next]_vars
  PROVE  EntryInv' /\ \A w \in Workers : map'[w] >= map[w]
<1>1. \A w \in Workers : map[w] \in Int
  BY SizesAssumption DEF EntryInv, EntryTypes, Entries
<1>2. ASSUME NEW w \in Workers, SendBatch(w) \/ Report(w)
      PROVE  EntryInv' /\ UNCHANGED map
  BY <1>2, BatchKeepsOrder, ReportKeepsOrder
<1>3. CASE AggregatorReceives
  BY <1>1, <1>3, ReceiveKeepsOrder
<1>4. CASE AggregatorStores
  <2>1. EntryInv' /\ \A w \in Workers : map[w] <= map'[w]
    BY <1>4, StoreKeepsOrder
  <2>2. \A w \in Workers : map'[w] \in Int
    BY <2>1, SizesAssumption DEF EntryInv, EntryTypes, Entries
  <2> QED
    BY <2>1, <2>2, <1>1
<1>5. ASSUME AggregatorTicks \/ AggregatorPublishes
      PROVE  EntryInv' /\ UNCHANGED map
  <2> USE DEF EntryInv, EntryTypes, MessagesInOrder, EntriesBacked, Timely, Entries,
              Messages, Workers, workerVars
  <2>1. CASE AggregatorTicks
    BY <2>1 DEF AggregatorTicks
  <2>2. CASE AggregatorPublishes
    BY <2>2 DEF AggregatorPublishes
  <2> QED
    BY <1>5, <2>1, <2>2
<1>6. CASE UpdaterSteps \/ CollectorComputes \/ CollectorStores \/ UNCHANGED vars
  <2>1. UNCHANGED <<sent, channel, aggregator, received, map>>
    BY <1>6 DEF UpdaterSteps, UpdaterTicks, UpdaterCopies, UpdaterLoadsForWorkers,
         UpdaterStoresWorkers, UpdaterLoadsForSystem, UpdaterStoresSystem,
         CollectorComputes, CollectorStores, vars, workerVars, poolVars
  <2> QED
    BY <2>1, <1>1, ReadersKeepEntries
<1> QED
  BY <1>1, <1>2, <1>3, <1>4, <1>5, <1>6 DEF Next, AggregatorSteps

\* and so holds always.
LEMMA EntryAlways == Safety => []EntryInv
<1>1. EntryInv /\ [Next]_vars => EntryInv'
  BY EntryStep
<1> QED
  BY EntryInit, <1>1, PTL DEF Safety

\* The entries of the aggregator's map never claim more than their workers have sent.
THEOREM EntriesNeverAhead == Safety => []EntriesBacked
<1>1. EntryInv => EntriesBacked
  BY DEF EntryInv
<1> QED
  BY EntryAlways, <1>1, PTL

\* And none ever falls back, however messages are dropped and delayed.
THEOREM EntriesOnlyAdvance == Safety => EntriesAdvance
<1>1. EntryInv /\ [Next]_vars => [\A w \in Workers : map'[w] >= map[w]]_vars
  BY EntryStep
<1> QED
  BY EntryAlways, <1>1, PTL DEF Safety, EntriesAdvance

-----------------------------------------------------------------------------
(* The totals.                                                              *)

Counters == [Workers -> Nat]

\* Totals of counters: none is more than N times the largest, none exceeds that of counters
\* that are ahead of it, and one more of one is one more of all.
LEMMA TotalsOfCounters ==
  /\ \A f \in Counters : TotalOf(f) \in Nat
  /\ \A f \in Entries : TotalOf(f) \in Totals
  /\ TotalOf([w \in Workers |-> 0]) = 0
  /\ \A f, g \in Counters : (\A w \in Workers : f[w] <= g[w]) => TotalOf(f) <= TotalOf(g)
  /\ \A f \in Counters, w \in Workers : TotalOf([f EXCEPT ![w] = @ + 1]) = TotalOf(f) + 1
<1>1. IsFiniteSet(Workers) /\ Cardinality(Workers) = N
  BY FS_Interval, SizesAssumption DEF Workers
<1>2. \A f : DOMAIN f = Workers => TotalOf(f) = Sum(f, Workers)
  BY DEF TotalOf, Sum, FoldFunction
<1>3. ASSUME NEW f \in Counters, NEW g \in Counters, \A w \in Workers : f[w] <= g[w]
      PROVE  TotalOf(f) \in Nat /\ TotalOf(f) <= TotalOf(g)
  <2>1. \A w \in Workers : f[w] \in Nat /\ g[w] \in Nat /\ f[w] <= g[w]
    BY <1>3 DEF Counters
  <2>2. Sum(f, Workers) \in Nat /\ Sum(f, Workers) <= Sum(g, Workers)
    BY <2>1, <1>1, SumIsMonotone
  <2>3. TotalOf(f) = Sum(f, Workers) /\ TotalOf(g) = Sum(g, Workers)
    BY <1>2 DEF Counters
  <2> QED
    BY <2>2, <2>3
<1>4. ASSUME NEW f \in Counters
      PROVE  TotalOf(f) \in Nat
  <2>1. \A w \in Workers : f[w] <= f[w]
    BY DEF Counters
  <2> QED
    BY <2>1, <1>3
<1>5. ASSUME NEW M \in Nat, NEW f \in [Workers -> 0..M]
      PROVE  TotalOf(f) \in 0..(N * M)
  <2>1. Sum(f, Workers) \in 0..(Cardinality(Workers) * M)
    BY <1>1, SumIsBounded
  <2>2. TotalOf(f) = Sum(f, Workers)
    BY <1>2
  <2> QED
    BY <2>1, <2>2, <1>1
<1>6. \A f \in Entries : TotalOf(f) \in Totals
  BY <1>5, SizesAssumption DEF Entries, Totals
<1>7. TotalOf([w \in Workers |-> 0]) = 0
  <2>1. [w \in Workers |-> 0] \in [Workers -> 0..0]
    OBVIOUS
  <2>2. TotalOf([w \in Workers |-> 0]) \in 0..(N * 0)
    BY <2>1, <1>5
  <2> QED
    BY <2>2, SizesAssumption
<1>8. ASSUME NEW f \in Counters, NEW w \in Workers
      PROVE  TotalOf([f EXCEPT ![w] = @ + 1]) = TotalOf(f) + 1
  <2>1. Sum([f EXCEPT ![w] = @ + 1], Workers) = Sum(f, Workers) + 1
    BY <1>1, SumCountsUp DEF Counters
  <2>2. TotalOf(f) = Sum(f, Workers)
    BY <1>2 DEF Counters
  <2>3. TotalOf([f EXCEPT ![w] = @ + 1]) = Sum([f EXCEPT ![w] = @ + 1], Workers)
    BY <1>2 DEF Counters
  <2> QED
    BY <2>1, <2>2, <2>3, Zenon
<1> QED
  BY <1>3, <1>4, <1>6, <1>7, <1>8, Zenon

\* When one counter is raised, the total is raised by as much.
LEMMA TotalIsRaised ==
  ASSUME NEW f \in Counters, NEW g \in Counters, NEW w \in Workers, f[w] <= g[w],
         \A v \in Workers \ {w} : g[v] = f[v]
  PROVE  TotalOf(g) = TotalOf(f) + g[w] - f[w]
<1> DEFINE n == g[w] - f[w]
<1>1. IsFiniteSet(Workers)
  BY FS_Interval, SizesAssumption DEF Workers
<1>2. \A h : DOMAIN h = Workers => TotalOf(h) = Sum(h, Workers)
  BY DEF TotalOf, Sum, FoldFunction
<1>3. n \in Nat /\ f \in [Workers -> Nat]
  BY DEF Counters
<1>4. g = [f EXCEPT ![w] = @ + n]
  BY DEF Counters
<1>5. f[w] \in Nat /\ g[w] \in Nat /\ TotalOf(f) \in Nat
  BY TotalsOfCounters DEF Counters
<1> HIDE DEF n
<1>6. Sum([f EXCEPT ![w] = @ + n], Workers) = Sum(f, Workers) + n
  BY <1>1, <1>3, SumCountsUp
<1>7. TotalOf(f) = Sum(f, Workers) /\ TotalOf(g) = Sum(g, Workers)
  BY <1>2 DEF Counters
<1>8. TotalOf(g) = TotalOf(f) + n
  BY <1>6, <1>7, <1>4, Zenon
<1> QED
  BY <1>5, <1>8 DEF n

\* What the aggregator and the update loop keep of the workers can be summed up.
LEMMA EntriesAreCounters == Entries \subseteq Counters
BY SizesAssumption DEF Entries, Counters

\* What is summed up over a copy of the map was sent.
LEMMA ActiveTotalsBacked ==
  ASSUME TypeOK, EntryInv, CopyBehindMap, NEW total \in ActiveTotals(copy.entries)
  PROVE  total \in Totals /\ total <= TotalOf(sent)
<1>1. PICK active \in SUBSET Workers :
        total = TotalOf([w \in Workers |-> IF w \in active THEN copy.entries[w] ELSE 0])
  BY DEF ActiveTotals
<1> DEFINE f == [w \in Workers |-> IF w \in active THEN copy.entries[w] ELSE 0]
<1>2. copy.entries \in Entries /\ map \in Entries /\ sent \in Entries
  BY DEF TypeOK, Entries
<1>3. f \in Entries
  BY <1>2, SizesAssumption DEF Entries
<1>4. \A w \in Workers : f[w] <= sent[w]
  BY <1>2, SizesAssumption DEF EntryInv, EntriesBacked, CopyBehindMap, Entries
<1> HIDE DEF f
<1>5. TotalOf(f) \in Totals /\ TotalOf(f) <= TotalOf(sent)
  BY <1>2, <1>3, <1>4, TotalsOfCounters, EntriesAreCounters
<1> QED
  BY <1>1, <1>5 DEF f

\* The invariant of the whole pipeline at the start.
LEMMA PipelineInit == Init => PipelineInv
<1> SUFFICES ASSUME Init PROVE PipelineInv
  OBVIOUS
<1> USE SizesAssumption DEF Init, Workers, Nothing
<1>1. TypeOK
  <2>1. /\ 0 \in Totals /\ Nothing \in Current
        /\ sent \in Entries /\ map \in Entries /\ NoCopy.entries \in Entries
    BY DEF Totals, Entries, Current, NoCopy
  <2>2. channel \in Seq(Messages) /\ Len(channel) <= ChannelCap /\ received \in Messages
    BY DEF Messages, NoMessage
  <2>3. copy \in [entries : Entries, total : Totals] /\ current \in Current
    BY <2>1 DEF NoCopy
  <2>4. loaded \in [{"updater", "collector"} -> Current] /\ shared \in BOOLEAN
    BY <2>1
  <2> QED
    BY <2>1, <2>2, <2>3, <2>4 DEF TypeOK, Entries
<1>2. CopyBehindMap
  BY DEF CopyBehindMap, NoCopy
<1>3. TotalOf(sent) = 0
  BY TotalsOfCounters
<1>4. FiguresBacked
  BY <1>3 DEF FiguresBacked, NoCopy
<1> QED
  BY <1>1, <1>2, <1>4, EntryInit DEF PipelineInv

\* No step leaves the types: what bounds a total is what was sent, or that it was copied.
LEMMA PipelineTypeStep ==
  ASSUME PipelineInv, [Next]_vars
  PROVE  TypeOK'
<1> USE DEF TypeOK, PipelineInv, workerVars, poolVars, updateVars
<1>1. NoMessage \in Messages /\ Nothing \in Current /\ NoCopy.entries \in Entries
  BY SizesAssumption DEF NoMessage, Messages, Nothing, Current, Totals, NoCopy, Entries, Workers
<1>2. ASSUME NEW w \in Workers, SendBatch(w)
      PROVE  TypeOK'
  <2>1. sent' \in [Workers -> 0..MaxSent]
    BY <1>2, SizesAssumption DEF SendBatch
  <2> QED
    BY <1>2, <2>1 DEF SendBatch
<1>3. ASSUME NEW w \in Workers, Report(w)
      PROVE  TypeOK'
  <2>1. channel' \in Seq(Messages) /\ Len(channel') <= ChannelCap
    BY <1>3, SizesAssumption DEF Report, Messages
  <2> QED
    BY <1>3, <2>1 DEF Report
<1>4. CASE AggregatorReceives
  <2>1. /\ channel' \in Seq(Messages) /\ Len(channel') <= ChannelCap
        /\ received' \in Messages
    BY <1>4, SizesAssumption DEF AggregatorReceives
  <2> QED
    BY <1>4, <2>1 DEF AggregatorReceives
<1>5. CASE AggregatorStores
  <2>1. map' \in Entries
    BY <1>5 DEF AggregatorStores, Entries, Messages
  <2> QED
    BY <1>1, <1>5, <2>1 DEF AggregatorStores
<1>6. CASE AggregatorTicks
  BY <1>6 DEF AggregatorTicks
<1>7. CASE AggregatorPublishes
  <2>1. published' \in Totals /\ shared' \in BOOLEAN
    BY <1>7, TotalsOfCounters DEF AggregatorPublishes, Entries
  <2> QED
    BY <1>7, <2>1 DEF AggregatorPublishes
<1>8. CASE UpdaterTicks
  <2>1. todo' \in SUBSET Workers /\ copy' \in [entries : Entries, total : Totals]
    BY <1>1, <1>8 DEF UpdaterTicks, NoCopy
  <2> QED
    BY <1>8, <2>1 DEF UpdaterTicks
<1>9. ASSUME NEW w \in Workers, UpdaterCopies(w)
      PROVE  TypeOK'
  <2>1. todo' \in SUBSET Workers /\ copy' \in [entries : Entries, total : Totals]
    BY <1>9 DEF UpdaterCopies, Entries
  <2> QED
    BY <1>9, <2>1 DEF UpdaterCopies
<1>10. ASSUME UpdaterLoadsForWorkers \/ UpdaterLoadsForSystem \/ CollectorComputes
       PROVE  TypeOK'
  <2>1. loaded' \in [{"updater", "collector"} -> Current]
    BY <1>10 DEF UpdaterLoadsForWorkers, UpdaterLoadsForSystem, CollectorComputes
  <2> QED
    BY <1>10, <2>1 DEF UpdaterLoadsForWorkers, UpdaterLoadsForSystem, CollectorComputes
<1>11. CASE UpdaterStoresWorkers
  <2>1. PICK total \in ActiveTotals(copy.entries) :
          current' = [loaded["updater"] EXCEPT !.sent = total]
    BY <1>11 DEF UpdaterStoresWorkers
  <2>2. total \in Totals
    BY ActiveTotalsBacked
  <2>3. current' \in Current
    BY <2>1, <2>2 DEF Current
  <2>4. /\ loaded' \in [{"updater", "collector"} -> Current]
        /\ copy' \in [entries : Entries, total : Totals]
    BY <1>1, <1>11 DEF UpdaterStoresWorkers, NoCopy
  <2> QED
    BY <1>11, <2>3, <2>4 DEF UpdaterStoresWorkers
<1>12. CASE UpdaterStoresSystem
  <2>1. current' \in Current
    BY <1>12 DEF UpdaterStoresSystem, Current
  <2>2. loaded' \in [{"updater", "collector"} -> Current]
    BY <1>1, <1>12 DEF UpdaterStoresSystem
  <2>3. copy' = NoCopy /\ NoCopy \in [entries : Entries, total : Totals]
    BY <1>1, <1>12, SizesAssumption DEF UpdaterStoresSystem, NoCopy, Totals
  <2> QED
    BY <1>12, <2>1, <2>2, <2>3 DEF UpdaterStoresSystem
<1>13. CASE CollectorStores
  BY <1>1, <1>13 DEF CollectorStores
<1>14. CASE UNCHANGED vars
  BY <1>14 DEF vars
<1> QED
  BY <1>2, <1>3, <1>4, <1>5, <1>6, <1>7, <1>8, <1>9, <1>10, <1>11, <1>12, <1>13, <1>14
  DEF Next, AggregatorSteps, UpdaterSteps

\* The map only moves ahead of the copy, which is made of its entries.
LEMMA CopyStep ==
  ASSUME PipelineInv, [Next]_vars
  PROVE  CopyBehindMap'
<1> USE DEF TypeOK, PipelineInv, CopyBehindMap, workerVars, poolVars, updateVars
<1>1. \A w \in Workers : map'[w] >= map[w] /\ map'[w] \in Nat
  BY EntryStep, SizesAssumption DEF EntryInv, EntryTypes, Entries
<1>2. \A w \in Workers : copy.entries[w] \in Nat /\ map[w] \in Nat /\ NoCopy.entries[w] = 0
  BY SizesAssumption DEF Entries, NoCopy
<1>3. ASSUME UNCHANGED <<updater, todo, copy, shared>>
      PROVE  CopyBehindMap'
  <2>1. \A w \in Workers : copy'.entries[w] <= map'[w]
    BY <1>1, <1>2, <1>3
  <2>2. updater' = updater /\ todo' = todo /\ copy'.entries = copy.entries /\ shared' = shared
    BY <1>3
  <2> QED
    BY <2>1, <2>2, Zenon
<1>4. ASSUME NEW w \in Workers, SendBatch(w) \/ Report(w)
      PROVE  CopyBehindMap'
  BY <1>3, <1>4 DEF SendBatch, Report
<1>5. CASE AggregatorReceives \/ AggregatorStores \/ AggregatorTicks
  BY <1>3, <1>5 DEF AggregatorReceives, AggregatorStores, AggregatorTicks
<1>6. CASE AggregatorPublishes
  BY <1>6 DEF AggregatorPublishes
<1>7. CASE UpdaterTicks
  BY <1>2, <1>7 DEF UpdaterTicks
<1>8. ASSUME NEW w \in Workers, UpdaterCopies(w)
      PROVE  CopyBehindMap'
  <2>1. /\ updater = "copy" /\ w \in todo /\ UNCHANGED <<updater, map, shared>>
        /\ copy'.entries = [copy.entries EXCEPT ![w] = map[w]]
    BY <1>8 DEF UpdaterCopies
  <2>2. \A v \in Workers : copy'.entries[v] <= map'[v]
    BY <1>2, <2>1 DEF Entries
  <2> QED
    BY <2>1, <2>2
<1>9. CASE UpdaterLoadsForWorkers
  BY <1>9 DEF UpdaterLoadsForWorkers
<1>10. CASE UpdaterStoresWorkers
  BY <1>2, <1>10 DEF UpdaterStoresWorkers
<1>11. CASE UpdaterLoadsForSystem
  BY <1>11 DEF UpdaterLoadsForSystem
<1>12. CASE UpdaterStoresSystem
  BY <1>2, <1>12 DEF UpdaterStoresSystem
<1>13. CASE CollectorComputes \/ CollectorStores \/ UNCHANGED vars
  BY <1>3, <1>13 DEF CollectorComputes, CollectorStores, vars
<1> QED
  BY <1>4, <1>5, <1>6, <1>7, <1>8, <1>9, <1>10, <1>11, <1>12, <1>13
  DEF Next, AggregatorSteps, UpdaterSteps

\* Every figure is a total of what was sent once, or a copy of such a figure.
LEMMA FiguresStep ==
  ASSUME PipelineInv, [Next]_vars
  PROVE  FiguresBacked'
<1> USE DEF PipelineInv, FiguresBacked, workerVars, poolVars, updateVars
<1> DEFINE Figures == {published, copy.total, current.sent, current.tx,
                       loaded["updater"].sent, loaded["updater"].tx,
                       loaded["collector"].sent, loaded["collector"].tx}
<1>1. TotalOf(sent) \in Nat /\ Figures \subseteq Nat
  BY TotalsOfCounters, EntriesAreCounters, SizesAssumption
  DEF TypeOK, Entries, Current, Totals
<1>2. Nothing.sent = 0 /\ Nothing.tx = 0 /\ NoCopy.total = 0
  BY DEF Nothing, NoCopy
<1>3. ASSUME NEW w \in Workers, SendBatch(w)
      PROVE  FiguresBacked'
  <2>1. TotalOf(sent') = TotalOf(sent) + 1
    BY <1>3, TotalsOfCounters, EntriesAreCounters DEF SendBatch, TypeOK, Entries
  <2>2. UNCHANGED <<published, copy, current, loaded>>
    BY <1>3 DEF SendBatch
  <2> QED
    BY <1>1, <2>1, <2>2
<1>4. ASSUME \/ \E w \in Workers : Report(w)
             \/ AggregatorReceives \/ AggregatorStores \/ AggregatorTicks
             \/ UNCHANGED vars
      PROVE  FiguresBacked'
  BY <1>4 DEF Report, AggregatorReceives, AggregatorStores, AggregatorTicks, vars
<1>5. CASE AggregatorPublishes
  BY <1>1, <1>5 DEF AggregatorPublishes
<1>6. CASE UpdaterTicks
  BY <1>1, <1>6 DEF UpdaterTicks
<1>7. ASSUME UpdaterLoadsForWorkers \/ UpdaterLoadsForSystem \/ CollectorComputes
      PROVE  FiguresBacked'
  BY <1>1, <1>7 DEF UpdaterLoadsForWorkers, UpdaterLoadsForSystem, CollectorComputes, TypeOK
<1>8. CASE UpdaterStoresWorkers
  <2>1. PICK total \in ActiveTotals(copy.entries) :
          current' = [loaded["updater"] EXCEPT !.sent = total]
    BY <1>8 DEF UpdaterStoresWorkers
  <2>2. total \in Totals /\ total <= TotalOf(sent)
    BY ActiveTotalsBacked
  <2>3. current'.sent = total /\ current'.tx = loaded["updater"].tx
    BY <2>1 DEF TypeOK, Current
  <2> QED
    BY <1>1, <1>2, <1>8, <2>2, <2>3 DEF UpdaterStoresWorkers, TypeOK
<1>9. CASE UpdaterStoresSystem
  <2>1. current'.sent = loaded["updater"].sent /\ current'.tx = copy.total
    BY <1>9 DEF UpdaterStoresSystem, TypeOK, Current
  <2> QED
    BY <1>1, <1>2, <1>9, <2>1 DEF UpdaterStoresSystem, TypeOK
<1>10. CASE CollectorStores
  BY <1>1, <1>2, <1>10 DEF CollectorStores, TypeOK
<1>11. ASSUME NEW w \in Workers, UpdaterCopies(w)
       PROVE  FiguresBacked'
  <2>1. copy'.total = copy.total
    BY <1>11 DEF UpdaterCopies, TypeOK
  <2> QED
    BY <1>11, <2>1 DEF UpdaterCopies
<1> QED
  BY <1>3, <1>4, <1>5, <1>6, <1>7, <1>8, <1>9, <1>10, <1>11
  DEF Next, AggregatorSteps, UpdaterSteps

\* The invariant of the whole pipeline always holds.
LEMMA PipelineAlways == Safety => []PipelineInv
<1>1. PipelineInv /\ [Next]_vars => PipelineInv'
  BY EntryStep, PipelineTypeStep, CopyStep, FiguresStep DEF PipelineInv
<1> QED
  BY PipelineInit, <1>1, PTL DEF Safety

\* The state of the pipeline keeps its type: the channel never holds more than it can, and
\* no total exceeds what all the workers may send.
THEOREM PipelineTypeCorrect == Safety => []TypeOK
<1>1. PipelineInv => TypeOK
  BY DEF PipelineInv
<1> QED
  BY PipelineAlways, <1>1, PTL

\* No figure on its way to the screen claims more than the workers have sent, whatever
\* is dropped, copied while it changes, or overwritten by an older figure.
THEOREM NothingOverstated == Safety => []NeverOverstated
<1>1. PipelineInv => NeverOverstated
  BY DEF PipelineInv, EntryInv, FiguresBacked, NeverOverstated
<1> QED
  BY PipelineAlways, <1>1, PTL

-----------------------------------------------------------------------------
(* The promise of SentTotals.                                               *)

\* The map and the walk over it are counters in the order the promise wants.
LEMMA WalkInOrder ==
  ASSUME PipelineInv
  PROVE  /\ Walk \in Counters /\ map \in Counters /\ sent \in Counters
         /\ \A w \in Workers : Walk[w] <= map[w] /\ map[w] <= sent[w]
         /\ ~shared => Walk = [w \in Workers |-> 0]
<1>1. /\ copy.entries \in Entries /\ map \in Entries /\ sent \in Entries
      /\ NoCopy.entries = [w \in Workers |-> 0]
  BY DEF PipelineInv, TypeOK, Entries, NoCopy
<1>2. Walk \in Entries /\ \A w \in Workers : Walk[w] <= map[w] /\ map[w] <= sent[w]
  BY <1>1, SizesAssumption DEF Walk, PipelineInv, EntryInv, EntriesBacked, CopyBehindMap, Entries
<1>3. ASSUME ~shared PROVE Walk = [w \in Workers |-> 0]
  <2>1. todo = {} /\ copy.entries = [w \in Workers |-> 0]
    BY <1>1, <1>3 DEF PipelineInv, CopyBehindMap
  <2>2. \A w \in Workers : copy.entries[w] = 0
    BY <2>1
  <2> QED
    BY <2>1, <2>2 DEF Walk
<1> QED
  BY <1>1, <1>2, <1>3, EntriesAreCounters

\* The figures of the promise.
Said == IF shared THEN TotalOf(map) ELSE 0
Read == TotalOf(Walk)

InOrder == /\ Said \in Nat /\ Read \in Nat /\ TotalOf(sent) \in Nat
           /\ Read <= Said /\ Said <= TotalOf(sent)
           /\ updater \notin {"copy", "storeWorkers"} => Read = 0

\* What the invariant says of the state, in the terms of SentTotals.
LEMMA PromiseInOrder == PipelineInv => InOrder
<1> SUFFICES ASSUME PipelineInv PROVE InOrder
  OBVIOUS
<1>1. /\ TotalOf(Walk) \in Nat /\ TotalOf(map) \in Nat /\ TotalOf(sent) \in Nat
      /\ TotalOf(Walk) <= TotalOf(map) /\ TotalOf(map) <= TotalOf(sent)
  BY WalkInOrder, TotalsOfCounters
<1>2. ~shared => TotalOf(Walk) = 0
  BY WalkInOrder, TotalsOfCounters
<1>3. ASSUME updater \notin {"copy", "storeWorkers"} PROVE TotalOf(Walk) = 0
  <2>1. todo = {} /\ copy.entries = [w \in Workers |-> 0]
    BY <1>3 DEF PipelineInv, CopyBehindMap, NoCopy
  <2>2. \A w \in Workers : copy.entries[w] = 0
    BY <2>1
  <2>3. Walk = [w \in Workers |-> 0]
    BY <2>1, <2>2 DEF Walk
  <2> QED
    BY <2>3, TotalsOfCounters
<1> QED
  BY <1>1, <1>2, <1>3 DEF Said, Read, InOrder

\* The total of the walk does not change with it when its parts do not.
LEMMA SameWalk ==
  ASSUME UNCHANGED <<todo, copy>>, UNCHANGED map \/ todo = {}
  PROVE  Walk' = Walk
BY DEF Walk

\* A step of the pipeline is one of the promise, or changes none of its figures.
LEMMA PromiseStep ==
  ASSUME PipelineInv, PipelineInv', [Next]_vars
  PROVE  [Promise!Next]_(Promise!vars)
<1> USE DEF workerVars, poolVars, updateVars
<1> DEFINE Copying == updater = "copy"
           All == TotalOf(sent)
<1>1. InOrder /\ InOrder'
  BY PromiseInOrder, PTL
<1>2. All \in Nat /\ Said \in Nat /\ Read \in Nat /\ Read <= Said /\ Said <= All
  BY <1>1 DEF InOrder
<1>3. All' \in Nat /\ Said' \in Nat /\ Read' \in Nat /\ Read' <= Said' /\ Said' <= All'
  BY <1>1 DEF InOrder
\* What the steps come to.
<1>4. ASSUME All' = All, Said' = Said, Read' = Read, Copying' = Copying
      PROVE  UNCHANGED Promise!vars
  BY <1>4 DEF Said, Read, Promise!vars
<1>5. ASSUME All' = All + 1, Said' = Said, Read' = Read, Copying' = Copying
      PROVE  Promise!Send
  BY <1>5 DEF Said, Read, Promise!Send
<1>6. ASSUME All' = All, Said <= Said', Copying' = Copying,
             \/ Read' = Read
             \/ Copying /\ Read' = Read + Said' - Said
      PROVE  Promise!Publish
  <2>1. Said' \in Said .. All /\ Read' \in 0..All
    BY <1>2, <1>3, <1>6
  <2> QED
    BY <1>6, <2>1 DEF Said, Read, Promise!Publish
<1>7. ASSUME ~Copying, Copying', All' = All, Said' = Said, Read' = Said
      PROVE  Promise!Begin
  BY <1>7 DEF Said, Read, Promise!Begin
<1>8. ASSUME Copying, ~Copying', All' = All, Said' = Said, Read' = Read
      PROVE  Promise!End
  BY <1>8 DEF Said, Read, Promise!End
<1>9. ASSUME ~Copying, ~Copying', All' = All, Said' = Said, Read' = 0
      PROVE  Promise!Forget
  BY <1>9 DEF Said, Read, Promise!Forget
<1> HIDE DEF Copying, All
\* The steps.
<1>10. ASSUME NEW w \in Workers, SendBatch(w)
       PROVE  Promise!Send
  <2>1. TotalOf(sent') = TotalOf(sent) + 1
    BY <1>10, TotalsOfCounters, WalkInOrder DEF SendBatch
  <2>2. Walk' = Walk
    BY <1>10, SameWalk DEF SendBatch
  <2> QED
    BY <1>5, <1>10, <2>1, <2>2 DEF SendBatch, Said, Read, Copying, All
<1>11. ASSUME \/ \E w \in Workers : Report(w)
              \/ AggregatorReceives \/ AggregatorTicks
              \/ CollectorComputes \/ CollectorStores \/ UNCHANGED vars
       PROVE  UNCHANGED Promise!vars
  <2>1. UNCHANGED <<sent, map, shared, updater, todo, copy>>
    BY <1>11 DEF Report, AggregatorReceives, AggregatorTicks, CollectorComputes,
         CollectorStores, vars
  <2>2. Walk' = Walk
    BY <2>1, SameWalk
  <2> QED
    BY <1>4, <2>1, <2>2 DEF Said, Read, Copying, All
<1>12. ASSUME AggregatorStores
       PROVE  Promise!Publish
  <2>1. UNCHANGED <<sent, shared, updater, todo, copy>>
    BY <1>12 DEF AggregatorStores
  <2> DEFINE w == received.id
  <2>2. w \in Workers /\ \A v \in Workers \ {w} : map'[v] = map[v]
    BY <1>12 DEF AggregatorStores, PipelineInv, TypeOK, Messages, Entries
  <2>3. map \in Counters /\ map' \in Counters /\ \A v \in Workers : map[v] <= map'[v]
    BY <1>12, StoreKeepsOrder, EntriesAreCounters DEF PipelineInv, TypeOK
  <2>4. Walk \in Counters /\ Walk' \in Counters
    <3>1. /\ copy.entries \in Entries /\ map \in Entries /\ map' \in Entries
          /\ copy'.entries \in Entries
      BY DEF PipelineInv, TypeOK
    <3> QED
      BY <3>1, EntriesAreCounters DEF Walk, Counters
  <2> HIDE DEF w
  <2>5. TotalOf(map') = TotalOf(map) + map'[w] - map[w]
    BY <2>2, <2>3, TotalIsRaised
  <2>6. Said <= Said'
    BY <2>1, <2>3, TotalsOfCounters DEF Said
  <2>7. CASE w \in todo
    <3>1. shared /\ Copying
      BY <2>7 DEF Copying, PipelineInv, CopyBehindMap
    <3>2. Walk[w] = map[w] /\ Walk'[w] = map'[w] /\ \A v \in Workers \ {w} : Walk'[v] = Walk[v]
      BY <2>1, <2>2, <2>7 DEF Walk
    <3>3. TotalOf(Walk') = TotalOf(Walk) + map'[w] - map[w]
      BY <2>2, <2>3, <2>4, <3>2, TotalIsRaised
    <3>4. /\ map[w] \in Nat /\ map'[w] \in Nat
          /\ TotalOf(map) \in Nat /\ TotalOf(Walk) \in Nat
      BY <2>2, <2>3, <2>4, TotalsOfCounters DEF Counters
    <3>5. TotalOf(Walk') = TotalOf(Walk) + TotalOf(map') - TotalOf(map)
      BY <2>5, <3>3, <3>4
    <3>6. Read' = Read + Said' - Said
      BY <2>1, <3>1, <3>5 DEF Read, Said
    <3> QED
      BY <1>6, <2>1, <2>6, <3>1, <3>6 DEF Copying, All
  <2>8. CASE w \notin todo
    <3>1. Walk' = Walk
      BY <2>1, <2>2, <2>8 DEF Walk
    <3> QED
      BY <1>6, <2>1, <2>6, <3>1 DEF Read, Copying, All
  <2> QED
    BY <2>7, <2>8
<1>13. ASSUME AggregatorPublishes
       PROVE  Promise!Publish
  <2>1. UNCHANGED <<sent, map, updater, todo, copy>> /\ shared' = TRUE
    BY <1>13 DEF AggregatorPublishes
  <2>2. Walk' = Walk
    BY <2>1, SameWalk
  <2>3. Said <= Said'
    <3>1. TotalOf(map) \in Nat
      BY WalkInOrder, TotalsOfCounters
    <3> QED
      BY <2>1, <3>1 DEF Said
  <2> QED
    BY <1>2, <1>6, <2>1, <2>2, <2>3 DEF Read, Copying, All
<1>14. ASSUME UpdaterTicks
       PROVE  Promise!Begin
  <2>1. /\ updater = "wait" /\ updater' = "copy" /\ UNCHANGED <<sent, map, shared>>
        /\ todo' = (IF shared THEN Workers ELSE {}) /\ copy'.entries = NoCopy.entries
    BY <1>14 DEF UpdaterTicks, NoCopy
  <2>2. Read' = Said
    <3>1. CASE shared
      <4>1. Walk' = map
        BY <2>1, <3>1 DEF Walk, PipelineInv, TypeOK, Entries
      <4> QED
        BY <3>1, <4>1 DEF Read, Said
    <3>2. CASE ~shared
      <4>1. Said' = 0
        BY <2>1, <3>2 DEF Said
      <4> QED
        BY <1>3, <3>2, <4>1 DEF Said
    <3> QED
      BY <3>1, <3>2
  <2> QED
    BY <1>7, <2>1, <2>2 DEF Said, Copying, All
<1>15. ASSUME NEW w \in Workers, UpdaterCopies(w)
       PROVE  UNCHANGED Promise!vars
  <2>1. /\ UNCHANGED <<sent, map, shared, updater>> /\ w \in todo /\ todo' = todo \ {w}
        /\ copy'.entries = [copy.entries EXCEPT ![w] = map[w]]
    BY <1>15 DEF UpdaterCopies, PipelineInv, TypeOK
  <2>2. copy.entries \in Entries
    BY DEF PipelineInv, TypeOK
  <2>3. \A v \in Workers : (IF v \in todo' THEN map'[v] ELSE copy'.entries[v])
                           = (IF v \in todo THEN map[v] ELSE copy.entries[v])
    BY <2>1, <2>2 DEF Entries
  <2>4. Walk' = Walk
    BY <2>3 DEF Walk
  <2> QED
    BY <1>4, <2>1, <2>4 DEF Said, Read, Copying, All
<1>16. ASSUME UpdaterLoadsForWorkers
       PROVE  Promise!End
  <2>1. /\ updater = "copy" /\ updater' = "storeWorkers"
        /\ UNCHANGED <<sent, map, shared, todo, copy>>
    BY <1>16 DEF UpdaterLoadsForWorkers
  <2>2. Walk' = Walk
    BY <2>1, SameWalk
  <2> QED
    BY <1>8, <2>1, <2>2 DEF Said, Read, Copying, All
<1>17. ASSUME UpdaterStoresWorkers \/ UpdaterLoadsForSystem \/ UpdaterStoresSystem
       PROVE  Promise!Forget
  <2>1. /\ UNCHANGED <<sent, map, shared>> /\ updater # "copy"
        /\ updater' \notin {"copy", "storeWorkers"}
    BY <1>17 DEF UpdaterStoresWorkers, UpdaterLoadsForSystem, UpdaterStoresSystem
  <2>2. Read' = 0
    BY <1>1, <2>1 DEF InOrder
  <2> QED
    BY <1>9, <2>1, <2>2 DEF Said, Copying, All
<1> QED
  BY <1>10, <1>11, <1>12, <1>13, <1>14, <1>15, <1>16, <1>17
  DEF Next, AggregatorSteps, UpdaterSteps, Promise!Next

\* The pipeline keeps the promise on which the command-line application is built: totals
\* that never fall and never claim too much, also for a reader who copies the map while
\* it is written.
THEOREM PipelineKeepsPromise == Safety => ImplementsTotals
<1>1. Init => Promise!Init
  <2> SUFFICES ASSUME Init PROVE Promise!Init
    OBVIOUS
  <2>1. TotalOf(sent) = 0
    BY TotalsOfCounters DEF Init
  <2>2. TotalOf(Walk) = 0
    <3>1. \A w \in Workers : copy.entries[w] = 0
      BY DEF Init, NoCopy
    <3>2. Walk = [w \in Workers |-> 0]
      BY <3>1 DEF Init, Walk
    <3> QED
      BY <3>2, TotalsOfCounters
  <2> QED
    BY <2>1, <2>2 DEF Init, Promise!Init
<1>2. PipelineInv /\ PipelineInv' /\ [Next]_vars => [Promise!Next]_(Promise!vars)
  BY PromiseStep
<1> QED
  BY PipelineAlways, <1>1, <1>2, PTL DEF Safety, ImplementsTotals, Promise!Safety
=============================================================================
