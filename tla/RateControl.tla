----------------------------- MODULE RateControl -----------------------------
(***************************************************************************)
(* How the send loops hold the rate their profile promises: the feedback   *)
(* of sendLoopMedium and sendLoopPerformance (internal/worker/             *)
(* udp_worker.go), which compare what they sent in a window with the       *)
(* worker's share of the profile's rate, and scale the next batches.       *)
(*                                                                         *)
(* All the workers of a pool do the same, so one of them stands for the    *)
(* pool.  Floating-point numbers are fixed-point ones, in units of         *)
(* 1/Scale.  The worker's target is never zero, so that the loops' default *)
(* for it is not reached (see NoDefaultRate), and the ticker interval of   *)
(* the profiles that use sendLoopPerformance is the 10 ms that             *)
(* sendLoopMedium has built in.                                            *)
(***************************************************************************)
EXTENDS EPSProfiles

CONSTANTS
  Requests,     \* the requests [profile, eps] a generator may be started with
  MaxOutages    \* bound: how often sending starts to fail

Scale == 10000
TicksPerSecond == 100

\* A predefined profile whose mode is regulated (the "high" mode of the others sends a
\* fixed batch per tick), or a custom rate above zero.
ASSUME RequestsAssumption ==
  \A r \in Requests : \/ r.profile \in {"1m", "2m", "4m"}
                      \/ r.profile = "custom" /\ r.eps \in Nat \ {0}
ASSUME OutagesAssumption == MaxOutages \in Nat

\* What initializeGenerator makes of them.
Profiles == {ProfileOf(r) : r \in Requests}

VARIABLES
  profile,   \* of the request
  factor,    \* adjustmentFactor
  batch,     \* size of the last batch: currentBatchSize, batchSize
  ticks,     \* how many ticks of the window have passed
  counted,   \* in how many of them the batch was sent: totalSentInWindow
  down,      \* writes to the socket fail
  outages    \* how often they have started to

vars == <<profile, factor, batch, ticks, counted, down, outages>>

\* The constants of the two loops, sendLoopMedium and sendLoopPerformance: ticks per
\* window, and in units of 1/Scale the error that is tolerated, the gain, the largest
\* correction, the range and the initial value of the factor.
MediumLoop ==
  [window |-> 20, deadband |-> 200, gain |-> 4000, step |-> 800,
   low |-> 7000, high |-> 13000, initial |-> 10000]
PerformanceLoop ==
  [window |-> 10, deadband |-> 100, gain |-> 5000, step |-> 1000,
   low |-> 5000, high |-> 20000, initial |-> 10640]
Settings == [medium |-> MediumLoop, performance |-> PerformanceLoop]

mode == profile.PrecisionMode
loop == Settings[mode]

Between(low, x, high) == maxInt(low, minInt(x, high))
Near(x, bound) == -bound <= x /\ x <= bound     \* math.Abs(x) <= bound

\* Initialize divides the rate among the workers, rounding down.
targetEPS == profile.TargetEPS \div profile.WorkerCount

logsPerBatch ==
  maxInt(1, IF mode = "medium" THEN targetEPS \div TicksPerSecond
            ELSE (targetEPS * 10 * 1064) \div 1000000)

nextBatch == maxInt(1, (logsPerBatch * factor) \div Scale)

TypeOK ==
  /\ profile \in Profiles
  /\ factor \in loop.low..loop.high
  /\ batch \in Nat
  /\ ticks \in 0..loop.window
  /\ counted \in 0..ticks
  /\ down \in BOOLEAN
  /\ outages \in 0..MaxOutages

Init ==
  /\ profile \in Profiles
  /\ factor = loop.initial /\ batch = 0
  /\ ticks = 0 /\ counted = 0
  /\ down = FALSE /\ outages = 0

-----------------------------------------------------------------------------
\* As if the factor had no range.
AdjustedUnclamped(sent) ==
  LET actualEPS == sent * (TicksPerSecond \div loop.window)
      error == actualEPS - targetEPS
      adjustment == Between(-loop.step, -((loop.gain * error) \div targetEPS), loop.step)
  IN IF Near(error * Scale, loop.deadband * targetEPS)
     THEN factor
     ELSE (factor * (Scale + adjustment)) \div Scale

\* As if too high a rate raised the factor.
AdjustedWrongWay(sent) ==
  LET actualEPS == sent * (TicksPerSecond \div loop.window)
      error == actualEPS - targetEPS
      adjustment == Between(-loop.step, (loop.gain * error) \div targetEPS, loop.step)
  IN IF Near(error * Scale, loop.deadband * targetEPS)
     THEN factor
     ELSE Between(loop.low, (factor * (Scale + adjustment)) \div Scale, loop.high)

\* The factor after a window in which `sent' logs left: what they make per second is
\* reckoned from the nominal length of the window.
Adjusted(sent) ==
  LET actualEPS == sent * (TicksPerSecond \div loop.window)
      error == actualEPS - targetEPS
      adjustment == Between(-loop.step, -((loop.gain * error) \div targetEPS), loop.step)
  IN IF Near(error * Scale, loop.deadband * targetEPS)
     THEN factor
     ELSE Between(loop.low, (factor * (Scale + adjustment)) \div Scale, loop.high)

\* A batch is one datagram of at most 65507 bytes, and a log with its line feed takes
\* 82.2 bytes on average, with a standard deviation of 9.8: up to LogsThatFit a batch
\* always fits, from TooManyLogs on it never does (both by eight deviations and more).
LogsThatFit == 770
TooManyLogs == 830

\* The number of batches that a tick with a batch of that size adds to the count: the
\* write fails while the network is away, and when the datagram is too long.
Leaving(size) ==
  CASE down \/ size >= TooManyLogs -> {0}
    [] ~down /\ size <= LogsThatFit -> {1}
    [] ~down /\ LogsThatFit < size /\ size < TooManyLogs -> {0, 1}

\* A tick before the end of the window.
SendBatch ==
  /\ ticks < loop.window
  /\ batch' = nextBatch
  /\ ticks' = ticks + 1
  /\ \E n \in Leaving(batch') : counted' = counted + n
  /\ UNCHANGED <<profile, factor, down, outages>>

\* As if a new window went on with the old count.
SendBatchKeepsCount ==
  /\ ticks >= loop.window - 1
  /\ batch' = nextBatch
  /\ \E n \in Leaving(batch') : /\ factor' = Adjusted((counted + n) * batch')
                               /\ counted' = counted + n
  /\ ticks' = 0
  /\ UNCHANGED <<profile, down, outages>>

\* A tick that finds the window over.  The last tick due in a window arrives about when
\* the window ends: if it is a little early, the window lasts one tick more.  (A machine
\* too slow for its batches drops ticks; that is left out.)
SendBatchAndAdjust ==
  /\ ticks >= loop.window - 1
  /\ batch' = nextBatch
  /\ \E n \in Leaving(batch') : factor' = Adjusted((counted + n) * batch')
  /\ ticks' = 0 /\ counted' = 0
  /\ UNCHANGED <<profile, down, outages>>

\* The network to the target goes away and comes back.
TargetFails ==
  /\ ~down /\ outages < MaxOutages
  /\ down' = TRUE /\ outages' = outages + 1
  /\ UNCHANGED <<profile, factor, batch, ticks, counted>>

TargetReturns ==
  /\ down /\ down' = FALSE
  /\ UNCHANGED <<profile, factor, batch, ticks, counted, outages>>

Next == SendBatch \/ SendBatchAndAdjust \/ TargetFails \/ TargetReturns

Safety == Init /\ [][Next]_vars

\* The ticker fires, and outages end.
Spec == Safety /\ WF_vars(SendBatch \/ SendBatchAndAdjust) /\ WF_vars(TargetReturns)

-----------------------------------------------------------------------------
(* Properties *)

\* By how much batches of that size, one a tick, miss the target.
Distance(size) ==
  LET error == size * TicksPerSecond - targetEPS IN maxInt(error, -error)

\* They leave within the precision promised to the mode: "medium (error < 5%),
\* performance (error < 10%)" (profiles.go:20).
Precise(size) ==
  \/ mode = "medium" /\ Distance(size) * 100 <= targetEPS * 5
  \/ mode = "performance" /\ Distance(size) * 100 <= targetEPS * 10

OnTarget == Precise(batch)

\* Whatever outages did to the factor, the rate settles within the precision the mode
\* promises, although a window is reckoned shorter than it may have been.
Settles == <>[]OnTarget

\* Worker targets from which a batch is large enough for what rounding takes from it.
LargeTarget == 20000

\* A window in which every batch left brings the rate closer to the target, from wherever
\* outages have driven it, until it is within the precision the mode promises; and then
\* keeps it there.  That is so although a window may have had a tick more than it is
\* reckoned to have, and corrections are rounded and limited.  (At a small custom rate a
\* batch is a large step.)
ClosesIn ==
  [][/\ mode = "performance" \/ targetEPS >= LargeTarget
     /\ ~down /\ ticks' < ticks /\ counted = ticks /\ batch' <= LogsThatFit
     => Precise(nextBatch)' \/ Distance(nextBatch)' < Distance(batch)']_vars

\* Nothing ever makes the rate too low: not an outage, after which the factor is too high,
\* and none of the corrections that bring it down again, although they are made from
\* windows that look up to a tenth faster than they were.
KeepsUp ==
  batch > 0 /\ (mode = "performance" \/ targetEPS >= LargeTarget) =>
    batch * TicksPerSecond >= targetEPS \/ Precise(batch)

\* sendLoopPerformance never outgrows the buffer it allocated for its largest batch.
FitsPreallocatedBuffer == mode = "performance" => batch <= logsPerBatch * 2
=============================================================================
