------------------------- MODULE RateControl_proofs -------------------------
(***************************************************************************)
(* Theorems about EPSProfiles and RateControl, for every number of cores,  *)
(* every custom rate and every number of outages.                          *)
(***************************************************************************)
EXTENDS RateControl, TLAPS

\* Worker counts are positive and within the pool's limit, and no worker is left without
\* a share of the rate.
LEMMA WorkersOfRate ==
  ASSUME NEW eps \in Nat \ {0}
  PROVE  /\ calculateWorkerCount(eps) \in 1..MAX_WORKERS
         /\ calculateWorkerCount(eps) <= eps
<1> DEFINE perWorker == optimalEPSPerWorker(eps)
           least == leastWorkers(eps)
           workers == maxInt(eps \div perWorker, least)
<1>1. perWorker \in {10000, 20000, 25000}
  BY DEF optimalEPSPerWorker
<1>2. least \in Nat /\ 1 <= least /\ least <= eps
  BY DEF leastWorkers
<1>3. eps \div perWorker \in Nat /\ eps \div perWorker <= eps
  <2> HIDE DEF perWorker
  <2>1. CASE perWorker = 10000
    BY <2>1
  <2>2. CASE perWorker = 20000
    BY <2>2
  <2>3. CASE perWorker = 25000
    BY <2>3
  <2> QED
    BY <1>1, <2>1, <2>2, <2>3
<1>4. workers \in Nat /\ 1 <= workers /\ workers <= eps
  <2> HIDE DEF perWorker, least
  <2> QED
    BY <1>2, <1>3 DEF maxInt
<1>5. calculateWorkerCount(eps) = minInt(minInt(workers, Cores * 10), 200)
  BY DEF calculateWorkerCount, MAX_WORKERS
<1> HIDE DEF workers
<1> QED
  BY <1>4, <1>5, CoresAssumption DEF minInt, MAX_WORKERS

\* What every regulated profile is like.
Regulated(p) == /\ p.PrecisionMode \in {"medium", "performance"}
                /\ p.TargetEPS \in Nat /\ p.WorkerCount \in Nat \ {0}
                /\ p.WorkerCount <= p.TargetEPS
                /\ p.PrecisionMode = "performance" =>
                     p.WorkerCount \in {40, 80, 160} /\ p.TargetEPS = p.WorkerCount * 25000

\* Whatever is requested.
LEMMA ProfilesAreRegulated ==
  ASSUME NEW r \in Requests
  PROVE  Regulated(ProfileOf(r))
<1>1. CASE r.profile = "custom" /\ r.eps \in Nat \ {0}
  <2>1. ProfileOf(r) = CalculateCustomProfile(r.eps)
    BY <1>1 DEF ProfileOf
  <2> DEFINE p == CalculateCustomProfile(r.eps)
  <2>2. /\ p.PrecisionMode = "medium" /\ p.TargetEPS = r.eps
        /\ p.WorkerCount = calculateWorkerCount(r.eps)
    BY DEF CalculateCustomProfile, EPSProfile
  <2> HIDE DEF p
  <2> QED
    BY <1>1, <2>1, <2>2, WorkersOfRate DEF Regulated, MAX_WORKERS, p
<1>2. CASE r.profile \in {"1m", "2m", "4m"}
  BY <1>2 DEF ProfileOf, EPSProfiles, EPSProfile, Regulated
<1> QED
  BY <1>1, <1>2, RequestsAssumption

-----------------------------------------------------------------------------
(* The settings of the two loops.                                          *)

\* What they have in common, as far as the proofs need it.
LEMMA LoopOfProfile ==
  ASSUME Regulated(profile)
  PROVE  /\ mode = "medium" => loop = Settings["medium"]
         /\ mode = "performance" => loop = Settings["performance"]
         /\ mode \in {"medium", "performance"}
         /\ loop.low \in Nat /\ loop.high \in Nat /\ loop.low <= loop.high
         /\ loop.initial \in loop.low..loop.high
         /\ loop.window \in {10, 20} /\ loop.gain \in Nat /\ loop.step \in Nat
         /\ loop.high <= 20000 /\ loop.deadband \in Nat
BY DEF Regulated, mode, loop, Settings, MediumLoop, PerformanceLoop

\* Initialize gives every worker a target above zero: the loops never fall back on
\* their default.
LEMMA ShareIsPositive ==
  ASSUME Regulated(profile)
  PROVE  targetEPS \in Nat \ {0}
<1> DEFINE e == profile.TargetEPS
           w == profile.WorkerCount
<1>1. e \in Nat /\ w \in Nat \ {0} /\ w <= e
  BY DEF Regulated
<1> HIDE DEF e, w
<1>2. e \div w \in Nat /\ e \div w > 0
  BY <1>1, Z3
<1> QED
  BY <1>2 DEF targetEPS, e, w

\* A batch is at most twice the nominal one.
LEMMA BatchIsBounded ==
  ASSUME Regulated(profile), factor \in Nat, factor <= 20000
  PROVE  logsPerBatch \in Nat \ {0} /\ nextBatch \in Nat /\ nextBatch <= logsPerBatch * 2
<1>1. logsPerBatch \in Nat \ {0}
  <2> DEFINE t == targetEPS
  <2>1. t \in Nat
    BY ShareIsPositive
  <2> HIDE DEF t
  <2>2. t \div 100 \in Nat /\ (t * 10 * 1064) \div 1000000 \in Nat
    BY <2>1
  <2> QED
    BY <2>2 DEF logsPerBatch, t, maxInt, TicksPerSecond
<1> DEFINE l == logsPerBatch
           x == l * factor
<1>2. x \in Nat /\ x <= l * 20000
  BY <1>1
<1>3. nextBatch = maxInt(1, x \div 10000)
  BY DEF nextBatch, Scale
<1> HIDE DEF l, x
<1>4. l \in Nat \ {0}
  BY <1>1 DEF l
<1>5. x \div 10000 \in Nat /\ x \div 10000 <= l * 2
  BY <1>2, <1>4
<1>6. nextBatch \in Nat /\ nextBatch <= l * 2
  BY <1>3, <1>4, <1>5 DEF maxInt
<1> QED
  BY <1>1, <1>6 DEF l

\* Whatever a window counted, the factor stays in its range.
LEMMA AdjustedInRange ==
  ASSUME Regulated(profile), factor \in loop.low..loop.high, NEW sent \in Nat
  PROVE  Adjusted(sent) \in loop.low..loop.high
<1>1. /\ loop.low \in Nat /\ loop.high \in Nat /\ loop.low <= loop.high
      /\ loop.step \in Nat /\ loop.gain \in Nat /\ loop.window \in {10, 20}
  BY LoopOfProfile
<1> DEFINE error == sent * (TicksPerSecond \div loop.window) - targetEPS
           adjustment == Between(-loop.step, -((loop.gain * error) \div targetEPS), loop.step)
           scaled == (factor * (Scale + adjustment)) \div Scale
<1>2. error \in Int
  <2>1. TicksPerSecond \div loop.window \in Nat
    BY <1>1 DEF TicksPerSecond
  <2> QED
    BY <2>1, ShareIsPositive
<1>3. adjustment \in Int
  <2> HIDE DEF error
  <2>1. (loop.gain * error) \div targetEPS \in Int
    BY <1>1, <1>2, ShareIsPositive
  <2> QED
    BY <1>1, <2>1 DEF Between, maxInt, minInt
<1>4. scaled \in Int
  <2> HIDE DEF adjustment
  <2> QED
    BY <1>1, <1>3 DEF Scale
<1>5. Between(loop.low, scaled, loop.high) \in loop.low..loop.high
  <2> HIDE DEF scaled
  <2> QED
    BY <1>1, <1>4 DEF Between, maxInt, minInt
<1>6. Adjusted(sent) = factor \/ Adjusted(sent) = Between(loop.low, scaled, loop.high)
  BY DEF Adjusted
<1> QED
  BY <1>5, <1>6

\* A batch counts once or not at all.
LEMMA LeavingCounts ==
  ASSUME NEW size \in Nat
  PROVE  Leaving(size) \subseteq {0, 1}
<1>1. CASE down \/ size >= TooManyLogs
  BY <1>1 DEF Leaving, TooManyLogs, LogsThatFit
<1>2. CASE ~down /\ size <= LogsThatFit
  BY <1>2 DEF Leaving, TooManyLogs, LogsThatFit
<1>3. CASE ~down /\ LogsThatFit < size /\ size < TooManyLogs
  BY <1>3 DEF Leaving, TooManyLogs, LogsThatFit
<1> QED
  BY <1>1, <1>2, <1>3 DEF TooManyLogs, LogsThatFit

-----------------------------------------------------------------------------
(* The inductive invariant, and the theorems.                              *)

RateInv == /\ TypeOK /\ Regulated(profile)
           /\ batch <= logsPerBatch * 2

\* The invariant at the start,
LEMMA RateInit == Init => RateInv
<1> SUFFICES ASSUME Init PROVE RateInv
  OBVIOUS
<1>1. Regulated(profile)
  BY ProfilesAreRegulated DEF Init, Profiles
<1>2. TypeOK
  <2>1. factor \in loop.low..loop.high /\ loop.window \in Nat
    BY <1>1, LoopOfProfile DEF Init
  <2>2. down \in BOOLEAN
    BY Zenon DEF Init
  <2> QED
    BY <2>1, <2>2, OutagesAssumption DEF Init, TypeOK
<1>3. batch <= logsPerBatch * 2
  BY <1>1, <1>2, LoopOfProfile, BatchIsBounded DEF Init
<1> QED
  BY <1>1, <1>2, <1>3 DEF RateInv

\* in every step,
LEMMA RateStep ==
  ASSUME RateInv, [Next]_vars
  PROVE  RateInv'
<1>1. CASE UNCHANGED vars
  BY <1>1 DEF vars, RateInv, TypeOK, Regulated, logsPerBatch, targetEPS, mode, loop
<1>2. CASE TargetFails \/ TargetReturns
  <2>1. UNCHANGED <<profile, factor, batch, ticks, counted>> /\ outages' \in 0..MaxOutages
    BY <1>2, OutagesAssumption DEF TargetFails, TargetReturns, RateInv, TypeOK
  <2>2. down' \in BOOLEAN
    BY <1>2, Zenon DEF TargetFails, TargetReturns
  <2>3. loop' = loop /\ logsPerBatch' = logsPerBatch
    BY <2>1 DEF logsPerBatch, targetEPS, mode, loop
  <2> QED
    BY <2>1, <2>2, <2>3 DEF RateInv, TypeOK, Regulated
<1>3. ASSUME SendBatch \/ SendBatchAndAdjust
      PROVE  RateInv'
  <2>1. profile' = profile /\ batch' = nextBatch /\ down' = down /\ outages' = outages
    BY <1>3 DEF SendBatch, SendBatchAndAdjust
  <2>2. Regulated(profile) /\ Regulated(profile')
    BY <2>1 DEF RateInv
  <2>3. logsPerBatch' = logsPerBatch /\ loop' = loop
    BY <2>1 DEF logsPerBatch, targetEPS, mode, loop
  <2>4. factor \in Nat /\ factor <= 20000 /\ loop.window \in {10, 20}
    BY <2>2, LoopOfProfile DEF RateInv, TypeOK
  <2>5. nextBatch \in Nat /\ nextBatch <= logsPerBatch * 2
    BY <2>2, <2>4, BatchIsBounded
  <2>6. ticks \in 0..loop.window /\ counted \in 0..ticks
    BY DEF RateInv, TypeOK
  <2>7. /\ ticks' \in 0..loop.window /\ counted' \in 0..ticks'
        /\ factor' \in loop.low..loop.high
    <3>1. CASE SendBatch
      <4>1. PICK n \in Leaving(batch') : counted' = counted + n
        BY <3>1 DEF SendBatch
      <4>2. n \in {0, 1}
        BY <2>1, <2>5, LeavingCounts
      <4>3. ticks' = ticks + 1 /\ factor' = factor /\ ticks < loop.window
        BY <3>1 DEF SendBatch
      <4> QED
        BY <4>1, <4>2, <4>3, <2>4, <2>6 DEF RateInv, TypeOK
    <3>2. CASE SendBatchAndAdjust
      <4>1. PICK n \in Leaving(batch') : factor' = Adjusted((counted + n) * batch')
        BY <3>2 DEF SendBatchAndAdjust
      <4>2. n \in {0, 1}
        BY <2>1, <2>5, LeavingCounts
      <4>3. (counted + n) * batch' \in Nat
        BY <4>2, <2>1, <2>4, <2>5, <2>6
      <4>4. factor' \in loop.low..loop.high
        BY <4>1, <4>3, <2>2, AdjustedInRange DEF RateInv, TypeOK
      <4> QED
        BY <3>2, <4>4, <2>4 DEF SendBatchAndAdjust
    <3> QED
      BY <1>3, <3>1, <3>2
  <2>8. TypeOK'
    BY <2>1, <2>3, <2>5, <2>7 DEF RateInv, TypeOK
  <2> QED
    BY <2>1, <2>2, <2>3, <2>5, <2>8 DEF RateInv
<1> QED
  BY <1>1, <1>2, <1>3 DEF Next

\* and so always.
LEMMA RateAlways == Safety => []RateInv
<1>1. RateInv /\ [Next]_vars => RateInv'
  BY RateStep
<1> QED
  BY RateInit, <1>1, PTL DEF Safety

\* Type correctness: the factor never leaves the range of its loop.
THEOREM RateTypeCorrect == Safety => []TypeOK
<1>1. RateInv => TypeOK
  BY DEF RateInv
<1> QED
  BY RateAlways, <1>1, PTL

\* sendLoopPerformance stays within its buffer, whatever rate, cores and outages.
THEOREM BufferSuffices == Safety => []FitsPreallocatedBuffer
<1>1. RateInv => FitsPreallocatedBuffer
  BY DEF RateInv, FitsPreallocatedBuffer
<1> QED
  BY RateAlways, <1>1, PTL

\* Every worker of every regulated profile has a target above zero: the default of the
\* loops is dead code.
THEOREM NoDefaultRate == Safety => [](targetEPS > 0)
<1>1. RateInv => targetEPS > 0
  BY ShareIsPositive DEF RateInv
<1> QED
  BY RateAlways, <1>1, PTL

-----------------------------------------------------------------------------
(* The feedback of sendLoopPerformance, whose workers have to send 25,000  *)
(* logs a second each: 250 in a tick, with batches of 266 at a factor of 1. *)

\* What a factor makes of a batch, and what a correction makes of a factor.
Sized(f) == (266 * f) \div 10000
Corrected(f, a) == (f * (10000 + a)) \div 10000

\* The correction after a window with k batches of size b, and the next factor.
Correction(k, b) == Between(-1000, 5000 - 2 * k * b, 1000)
Tolerated(k, b) == Near(10 * k * b - 25000, 250)
NextFactor(k, f) ==
  IF Tolerated(k, Sized(f)) THEN f
  ELSE Between(5000, Corrected(f, Correction(k, Sized(f))), 20000)

\* A size that is within a tenth of 250, or nearer to it than the old one and on its side.
Closer(old, new) ==
  \/ 225 <= new /\ new <= 275
  \/ 275 < new /\ new < old
  \/ old < new /\ new < 225

\* Between which bounds the correction for a batch of size b lies, whether the window had
\* ten or eleven ticks, and what becomes of the factor.
CorrectionFits(b, a) ==
  \/ b <= 200 /\ 600 <= a /\ a <= 1000
  \/ 200 < b /\ b < 225 /\ 72 <= a /\ a <= 1000
  \/ 225 <= b /\ b < 230 /\ 0 <= a /\ a <= 500
  \/ 230 <= b /\ b < 233 /\ -104 <= a /\ a <= 400
  \/ 233 <= b /\ b < 239 /\ -236 <= a /\ a <= 340
  \/ 239 <= b /\ b < 251 /\ -500 <= a /\ a <= 220
  \/ 251 <= b /\ b <= 275 /\ -1000 <= a /\ a <= -20
  \/ 275 < b /\ -1000 <= a /\ a <= -520

FactorFits(b, f, c) ==
  \/ b <= 200 /\ f * 10600 < 10000 * (c + 1) /\ 10000 * c <= f * 11000
  \/ 200 < b /\ b < 225 /\ f * 10072 < 10000 * (c + 1) /\ 10000 * c <= f * 11000
  \/ 225 <= b /\ b < 230 /\ f * 10000 < 10000 * (c + 1) /\ 10000 * c <= f * 10500
  \/ 230 <= b /\ b < 233 /\ f * 9896 < 10000 * (c + 1) /\ 10000 * c <= f * 10400
  \/ 233 <= b /\ b < 239 /\ f * 9764 < 10000 * (c + 1) /\ 10000 * c <= f * 10340
  \/ 239 <= b /\ b < 251 /\ f * 9500 < 10000 * (c + 1) /\ 10000 * c <= f * 10220
  \/ 251 <= b /\ b <= 275 /\ f * 9000 < 10000 * (c + 1) /\ 10000 * c <= f * 9980
  \/ 275 < b /\ f * 9000 < 10000 * (c + 1) /\ 10000 * c <= f * 9480

\* The size of a batch, as the bounds that rounding down leaves.
LEMMA SizedBetween ==
  ASSUME NEW f \in Int
  PROVE  /\ Sized(f) \in Int
         /\ 10000 * Sized(f) <= 266 * f /\ 266 * f < 10000 * (Sized(f) + 1)
BY DEF Sized

\* Where the correction lies: ten ticks.
LEMMA CorrectionAfterTen ==
  ASSUME NEW b \in Int, NEW a \in Int, ~Near(100 * b - 25000, 250),
         a = Between(-1000, 5000 - 20 * b, 1000)
  PROVE  CorrectionFits(b, a)
BY DEF CorrectionFits, Between, Near, maxInt, minInt

\* Eleven ticks.
LEMMA CorrectionAfterEleven ==
  ASSUME NEW b \in Int, NEW a \in Int, ~Near(110 * b - 25000, 250),
         a = Between(-1000, 5000 - 22 * b, 1000)
  PROVE  CorrectionFits(b, a)
BY DEF CorrectionFits, Between, Near, maxInt, minInt

\* Either way.
LEMMA CorrectionIsFit ==
  ASSUME NEW k \in {10, 11}, NEW b \in Int, ~Tolerated(k, b)
  PROVE  Correction(k, b) \in Int /\ CorrectionFits(b, Correction(k, b))
<1>1. CASE k = 10
  <2>1. Correction(k, b) = Between(-1000, 5000 - 20 * b, 1000) /\ ~Near(100 * b - 25000, 250)
    BY <1>1 DEF Correction, Tolerated
  <2>2. Between(-1000, 5000 - 20 * b, 1000) \in Int
    BY DEF Between, maxInt, minInt
  <2> QED
    BY <2>1, <2>2, CorrectionAfterTen
<1>2. CASE k = 11
  <2>1. Correction(k, b) = Between(-1000, 5000 - 22 * b, 1000) /\ ~Near(110 * b - 25000, 250)
    BY <1>2 DEF Correction, Tolerated
  <2>2. Between(-1000, 5000 - 22 * b, 1000) \in Int
    BY DEF Between, maxInt, minInt
  <2> QED
    BY <2>1, <2>2, CorrectionAfterEleven
<1> QED
  BY <1>1, <1>2

\* What a correction within those bounds makes of a factor.
LEMMA FactorIsFit ==
  ASSUME NEW f \in Int, 0 <= f, NEW b \in Int, NEW a \in Int, CorrectionFits(b, a)
  PROVE  Corrected(f, a) \in Int /\ FactorFits(b, f, Corrected(f, a))
<1> DEFINE x == f * (10000 + a)
<1>1. x \in Int /\ Corrected(f, a) = x \div 10000
  BY DEF Corrected
<1>2. ASSUME 600 <= a, a <= 1000 PROVE f * 10600 <= x /\ x <= f * 11000
  <2>1. f * (a - 600) >= 0 /\ f * (1000 - a) >= 0
    BY <1>2, Z3
  <2> QED
    BY <2>1, Z3
<1>3. ASSUME 72 <= a, a <= 1000 PROVE f * 10072 <= x /\ x <= f * 11000
  <2>1. f * (a - 72) >= 0 /\ f * (1000 - a) >= 0
    BY <1>3, Z3
  <2> QED
    BY <2>1, Z3
<1>4. ASSUME 0 <= a, a <= 500 PROVE f * 10000 <= x /\ x <= f * 10500
  <2>1. f * (a - 0) >= 0 /\ f * (500 - a) >= 0
    BY <1>4, Z3
  <2> QED
    BY <2>1, Z3
<1>5. ASSUME -104 <= a, a <= 400 PROVE f * 9896 <= x /\ x <= f * 10400
  <2>1. f * (a - (-104)) >= 0 /\ f * (400 - a) >= 0
    BY <1>5, Z3
  <2> QED
    BY <2>1, Z3
<1>6. ASSUME -236 <= a, a <= 340 PROVE f * 9764 <= x /\ x <= f * 10340
  <2>1. f * (a - (-236)) >= 0 /\ f * (340 - a) >= 0
    BY <1>6, Z3
  <2> QED
    BY <2>1, Z3
<1>7. ASSUME -500 <= a, a <= 220 PROVE f * 9500 <= x /\ x <= f * 10220
  <2>1. f * (a - (-500)) >= 0 /\ f * (220 - a) >= 0
    BY <1>7, Z3
  <2> QED
    BY <2>1, Z3
<1>8. ASSUME -1000 <= a, a <= -20 PROVE f * 9000 <= x /\ x <= f * 9980
  <2>1. f * (a - (-1000)) >= 0 /\ f * (-20 - a) >= 0
    BY <1>8, Z3
  <2> QED
    BY <2>1, Z3
<1>9. ASSUME -1000 <= a, a <= -520 PROVE f * 9000 <= x /\ x <= f * 9480
  <2>1. f * (a - (-1000)) >= 0 /\ f * (-520 - a) >= 0
    BY <1>9, Z3
  <2> QED
    BY <2>1, Z3
<1> HIDE DEF x
<1>10. FactorFits(b, f, x \div 10000)
  BY <1>1, <1>2, <1>3, <1>4, <1>5, <1>6, <1>7, <1>8, <1>9 DEF CorrectionFits, FactorFits
<1> QED
  BY <1>1, <1>10

\* Such a factor stays away from the ends of its range, and brings the size of the batch
\* closer.
LEMMA FitFactorCloses ==
  ASSUME NEW f \in Int, NEW b \in Int, NEW c \in Int, NEW n \in Int,
         5000 <= f, f <= 20000,
         10000 * b <= 266 * f, 266 * f < 10000 * (b + 1),
         10000 * n <= 266 * c, 266 * c < 10000 * (n + 1), FactorFits(b, f, c)
  PROVE  5000 <= c /\ c <= 20000 /\ Closer(b, n)
BY DEF Closer, FactorFits

\* From anywhere in the range of the factor, a window brings the size of a batch closer to
\* 250, or to where it is within a tenth of it.
LEMMA WindowCloses ==
  ASSUME NEW f \in Int, 5000 <= f, f <= 20000, NEW k \in {10, 11}
  PROVE  NextFactor(k, f) \in Int /\ Closer(Sized(f), Sized(NextFactor(k, f)))
<1>1. Sized(f) \in Int
  BY SizedBetween
<1>2. ASSUME Tolerated(k, Sized(f))
      PROVE  NextFactor(k, f) \in Int /\ Closer(Sized(f), Sized(NextFactor(k, f)))
  <2>1. NextFactor(k, f) = f
    BY <1>2 DEF NextFactor
  <2>2. ASSUME NEW b \in Int, Tolerated(k, b) PROVE 225 <= b /\ b <= 275
    <3>1. CASE k = 10
      BY <2>2, <3>1 DEF Tolerated, Near
    <3>2. CASE k = 11
      BY <2>2, <3>2 DEF Tolerated, Near
    <3> QED
      BY <3>1, <3>2
  <2>3. 225 <= Sized(f) /\ Sized(f) <= 275
    BY <1>1, <1>2, <2>2
  <2> QED
    BY <2>1, <2>3 DEF Closer
<1>3. ASSUME ~Tolerated(k, Sized(f))
      PROVE  NextFactor(k, f) \in Int /\ Closer(Sized(f), Sized(NextFactor(k, f)))
  <2>1. PICK a \in Int : a = Correction(k, Sized(f)) /\ CorrectionFits(Sized(f), a)
    BY <1>1, <1>3, CorrectionIsFit
  <2>2. PICK c \in Int : c = Corrected(f, a) /\ FactorFits(Sized(f), f, c)
    BY <1>1, <2>1, FactorIsFit
  <2>3. 5000 <= c /\ c <= 20000 /\ Closer(Sized(f), Sized(c))
    <3>1. /\ 10000 * Sized(f) <= 266 * f /\ 266 * f < 10000 * (Sized(f) + 1)
          /\ Sized(c) \in Int
          /\ 10000 * Sized(c) <= 266 * c /\ 266 * c < 10000 * (Sized(c) + 1)
      BY SizedBetween
    <3> QED
      BY <1>1, <2>2, <3>1, FitFactorCloses
  <2>4. NextFactor(k, f) = Between(5000, c, 20000)
    BY <1>3, <2>1, <2>2 DEF NextFactor
  <2>5. Between(5000, c, 20000) = c
    BY <2>3 DEF Between, maxInt, minInt
  <2> QED
    BY <2>3, <2>4, <2>5
<1> QED
  BY <1>2, <1>3

\* In the mode "performance" every worker has the same target, batch and settings.
LEMMA PerformanceSettings ==
  ASSUME Regulated(profile), mode = "performance"
  PROVE  /\ targetEPS = 25000 /\ logsPerBatch = 266
         /\ loop = Settings["performance"]
<1>1. profile.WorkerCount \in {40, 80, 160} /\ profile.TargetEPS = profile.WorkerCount * 25000
  BY DEF Regulated, mode
<1>2. targetEPS = 25000
  BY <1>1 DEF targetEPS
<1>3. logsPerBatch = 266
  BY <1>2 DEF logsPerBatch, maxInt
<1> QED
  BY <1>2, <1>3 DEF loop

\* A batch of that mode is never empty.
LEMMA SizedIsPositive ==
  ASSUME NEW f \in Int, 5000 <= f
  PROVE  Sized(f) \in Int /\ maxInt(1, Sized(f)) = Sized(f)
<1> DEFINE b == Sized(f)
<1>1. b \in Int /\ 266 * f < 10000 * (b + 1)
  BY SizedBetween
<1> HIDE DEF b
<1>2. maxInt(1, b) = b
  BY <1>1 DEF maxInt
<1> QED
  BY <1>1, <1>2 DEF b

\* What the loop makes of a window in which k batches of the current size left.
LEMMA AdjustedAsNext ==
  ASSUME targetEPS = 25000, loop = Settings["performance"], factor \in Int,
         NEW k \in {10, 11}
  PROVE  Adjusted(k * Sized(factor)) = NextFactor(k, factor)
<1> DEFINE b == Sized(factor)
           error == (k * b) * 10 - 25000
<1>1. b \in Int
  BY SizedBetween
<1>2. /\ TicksPerSecond \div loop.window = 10 /\ loop.gain = 5000 /\ loop.step = 1000
      /\ loop.deadband = 100 /\ loop.low = 5000 /\ loop.high = 20000
  BY DEF Settings, MediumLoop, PerformanceLoop, TicksPerSecond
<1>3. Adjusted(k * b) =
        IF Near(error * 10000, 100 * 25000) THEN factor
        ELSE Between(5000, Corrected(factor, Between(-1000, -((5000 * error) \div 25000), 1000)),
                     20000)
  BY <1>2 DEF Adjusted, Corrected, Scale
<1> HIDE DEF b
<1>4. error \in Int /\ error = 10 * k * b - 25000
  BY <1>1
<1>5. Near(error * 10000, 100 * 25000) <=> Near(error, 250)
  <2> HIDE DEF error
  <2> QED
    BY <1>4 DEF Near
<1>6. -((5000 * error) \div 25000) = 5000 - 2 * k * b
  BY <1>1
<1> HIDE DEF error
<1> QED
  BY <1>3, <1>4, <1>5, <1>6 DEF NextFactor, Correction, Tolerated, b

\* By how much batches of a size miss 25,000 logs a second.
Away(size) == maxInt(size * 100 - 25000, -(size * 100 - 25000))

\* What is closer to 250 a tick is closer to 25,000 a second, or within a tenth of it.
LEMMA CloserIsNearer ==
  ASSUME NEW b \in Int, NEW n \in Int, Closer(b, n)
  PROVE  Away(n) * 100 <= 25000 * 10 \/ Away(n) < Away(b)
BY DEF Closer, Away, maxInt

\* The feedback step: a window of the mode "performance" without a failure.
LEMMA PerformanceWindow ==
  ASSUME RateInv, [Next]_vars, mode = "performance", ~down, ticks' < ticks, counted = ticks
  PROVE  (Precise(nextBatch) \/ Distance(nextBatch) < Distance(batch))'
<1>1. SendBatchAndAdjust
  BY DEF Next, SendBatch, TargetFails, TargetReturns, vars, RateInv, TypeOK
<1>2. Regulated(profile) /\ profile' = profile /\ RateInv'
  BY <1>1, RateStep DEF SendBatchAndAdjust, RateInv
<1>3. targetEPS = 25000 /\ logsPerBatch = 266 /\ loop = Settings["performance"]
  BY <1>2, PerformanceSettings
<1>4. /\ mode' = "performance" /\ targetEPS' = 25000 /\ logsPerBatch' = 266
      /\ loop' = Settings["performance"]
  BY <1>2, <1>3 DEF mode, targetEPS, logsPerBatch, loop
<1>5. loop.low = 5000 /\ loop.high = 20000 /\ loop.window = 10
  BY <1>3 DEF Settings, MediumLoop, PerformanceLoop
<1>6. factor \in Int /\ 5000 <= factor /\ factor <= 20000
  BY <1>5 DEF RateInv, TypeOK
<1>7. batch' = Sized(factor) /\ Sized(factor) \in Int
  <2>1. batch' = maxInt(1, Sized(factor))
    BY <1>1, <1>3 DEF SendBatchAndAdjust, nextBatch, Scale, Sized
  <2> QED
    BY <1>6, <2>1, SizedIsPositive
<1>8. factor' \in Int /\ 5000 <= factor'
  <2>1. loop'.low = 5000 /\ loop'.high = 20000
    BY <1>4 DEF Settings, MediumLoop, PerformanceLoop
  <2> QED
    BY <1>2, <2>1 DEF RateInv, TypeOK
<1>9. nextBatch' = Sized(factor') /\ Sized(factor') \in Int
  <2>1. nextBatch' = maxInt(1, Sized(factor'))
    BY <1>4 DEF nextBatch, Scale, Sized
  <2> QED
    BY <1>8, <2>1, SizedIsPositive
<1>10. Leaving(batch') = {1}
  <2>1. Sized(factor) <= 770
    <3> DEFINE b == Sized(factor)
    <3>1. b \in Int /\ 10000 * b <= 266 * factor
      BY <1>6, SizedBetween
    <3> HIDE DEF b
    <3> QED
      BY <1>6, <3>1 DEF b
  <2> QED
    BY <1>7, <2>1 DEF Leaving, LogsThatFit, TooManyLogs
<1>11. PICK k \in {10, 11} : k = counted + 1
  BY <1>1, <1>5 DEF SendBatchAndAdjust, RateInv, TypeOK
<1>12. factor' = NextFactor(k, factor)
  <2>1. factor' = Adjusted(k * Sized(factor))
    BY <1>1, <1>7, <1>10, <1>11 DEF SendBatchAndAdjust
  <2> QED
    BY <2>1, <1>3, <1>6, AdjustedAsNext
<1>13. Closer(batch', nextBatch')
  BY <1>6, <1>7, <1>9, <1>12, WindowCloses
<1>14. Away(nextBatch') * 100 <= 25000 * 10 \/ Away(nextBatch') < Away(batch')
  BY <1>7, <1>9, <1>13, CloserIsNearer
<1>15. Distance(batch)' = Away(batch') /\ Distance(nextBatch)' = Away(nextBatch')
  BY <1>4 DEF Distance, Away, TicksPerSecond
<1>16. Precise(nextBatch)' <=> Away(nextBatch') * 100 <= 25000 * 10
  BY <1>4, <1>15 DEF Precise
<1> QED
  BY <1>14, <1>15, <1>16

-----------------------------------------------------------------------------
(* The rate is never too low: the factor has a bound that no window passes, *)
(* whatever part of it left.                                                *)

\* What a correction takes from a factor.
LEMMA CorrectedAtLeast ==
  ASSUME NEW f \in Int, 0 <= f, NEW a \in Int, NEW x \in Int, f * (10000 + a) >= 10000 * x
  PROVE  Corrected(f, a) \in Int /\ Corrected(f, a) >= x
<1> DEFINE y == f * (10000 + a)
<1>1. y \in Int /\ y >= 10000 * x
  BY Z3
<1> HIDE DEF y
<1>2. y \div 10000 \in Int /\ y \div 10000 >= x
  BY <1>1
<1> QED
  BY <1>2 DEF Corrected, y

\* One that is not negative takes nothing.
LEMMA RaisedAtLeast ==
  ASSUME NEW f \in Int, 0 <= f, NEW a \in Int, 0 <= a
  PROVE  Corrected(f, a) \in Int /\ Corrected(f, a) >= f
<1>1. f * a >= 0
  BY Z3
<1>2. f * (10000 + a) >= 10000 * f
  BY <1>1, Z3
<1> QED
  BY <1>2, CorrectedAtLeast

\* sendLoopMedium, with s logs sent in a window: if that is too many, then the factor is
\* high enough for what the correction -d takes.
LEMMA MediumLowers ==
  ASSUME NEW T \in Nat \ {0}, NEW s \in Nat, NEW f \in Int, 1000000 * s <= 21 * (T * f),
         NEW d \in Int, T * d <= 4000 * (5 * s - T), 50 * (5 * s - T) > T
  PROVE  9715 <= f /\ 100 * (-d) >= 400000 - 42 * f
<1>1. 250 * s > 51 * T
  OBVIOUS
<1>2. 5250 * (T * f) > 51000000 * T
  <2>1. T * f \in Int
    BY Z3
  <2> DEFINE x == T * f
  <2> HIDE DEF x
  <2>2. 1000000 * s <= 21 * x /\ x \in Int
    BY <2>1 DEF x
  <2>3. 5250 * x > 51000000 * T
    BY <1>1, <2>2
  <2> QED
    BY <2>3 DEF x
<1>3. 9715 <= f
  <2>1. T * (5250 * f - 51000000) > 0
    BY <1>2, Z3
  <2>2. 5250 * f - 51000000 > 0
    BY <2>1, Z3
  <2> QED
    BY <2>2
<1>4. T * (100 * (-d) - 400000 + 42 * f) >= 0
  <2>1. T * f \in Int /\ T * d \in Int
    BY Z3
  <2> DEFINE x == T * f
             y == T * d
  <2>2. T * (100 * (-d) - 400000 + 42 * f) = -(100 * y) - 400000 * T + 42 * x
    BY Z3
  <2> HIDE DEF x, y
  <2>3. -(100 * y) - 400000 * T + 42 * x >= 0
    <3>1. y \in Int /\ x \in Int /\ y <= 4000 * (5 * s - T) /\ 1000000 * s <= 21 * x
      BY <2>1 DEF x, y
    <3> QED
      BY <3>1
  <2> QED
    BY <2>2, <2>3
<1>5. 100 * (-d) - 400000 + 42 * f >= 0
  BY <1>4, Z3
<1> QED
  BY <1>3, <1>5

\* If it is not too many, nothing is taken.
LEMMA TooFewRaise ==
  ASSUME NEW T \in Nat \ {0}, NEW e \in Int, NEW d \in Int, T * d <= 4000 * e, e <= 0
  PROVE  d <= 0
BY Z3

\* What is left of the factor then.
LEMMA MediumStays ==
  ASSUME NEW f \in Int, 9715 <= f, f <= 13000, NEW a \in Int, 100 * a >= 400000 - 42 * f
  PROVE  Corrected(f, a) \in Int /\ Corrected(f, a) >= 9600
<1>1. f * (100 * a - (400000 - 42 * f)) >= 0
  BY Z3
<1>2. (f - 9715) * (13000 - f) >= 0
  BY Z3
<1> DEFINE x == f * a
           y == f * f
<1>3. x \in Int /\ y \in Int
  BY Z3
<1>4. /\ f * (100 * a - (400000 - 42 * f)) = 100 * x - 400000 * f + 42 * y
      /\ (f - 9715) * (13000 - f) = 22715 * f - y - 126295000
      /\ f * (10000 + a) = 10000 * f + x
  BY Z3
<1> HIDE DEF x, y
<1>5. 100 * x - 400000 * f + 42 * y >= 0 /\ 22715 * f - y - 126295000 >= 0
  BY <1>1, <1>2, <1>4
<1>6. 10000 * f + x >= 96000000
  BY <1>3, <1>5
<1>7. (10000 * f + x) \div 10000 \in Int /\ (10000 * f + x) \div 10000 >= 9600
  BY <1>3, <1>6
<1> QED
  BY <1>4, <1>7 DEF Corrected

\* The same for sendLoopPerformance, whose correction is an integer.
LEMMA PerformanceStays ==
  ASSUME NEW f \in Int, 8459 <= f, f <= 20000, NEW b \in Int, 10000 * b <= 266 * f, 230 <= b,
         NEW a \in Int, a >= -1000, a >= 5000 - 22 * b
  PROVE  Corrected(f, a) \in Int /\ Corrected(f, a) >= 8459
<1>1. 100000 * a >= 500000000 - 58520 * f /\ 8647 <= f
  OBVIOUS
<1> DEFINE x == f * a
           y == f * f
<1>2. x \in Int /\ y \in Int /\ f * (10000 + a) = 10000 * f + x
  BY Z3
<1>3. 10000 * f + x >= 84590000
  <2>1. CASE f >= 10000
    <3>1. f * (a + 1000) >= 0 /\ f * (a + 1000) = x + 1000 * f
      BY Z3
    <3> HIDE DEF x, y
    <3> QED
      BY <1>2, <2>1, <3>1
  <2>2. CASE f < 10000
    <3>1. f * (100000 * a - 500000000 + 58520 * f) >= 0
      BY <1>1, Z3
    <3>2. (f - 8647) * (10000 - f) >= 0
      BY <1>1, <2>2, Z3
    <3>3. /\ f * (100000 * a - 500000000 + 58520 * f) = 100000 * x - 500000000 * f + 58520 * y
          /\ (f - 8647) * (10000 - f) = 18647 * f - y - 86470000
      BY Z3
    <3> HIDE DEF x, y
    <3>4. 100000 * x - 500000000 * f + 58520 * y >= 0 /\ 18647 * f - y - 86470000 >= 0
      BY <3>1, <3>2, <3>3
    <3> QED
      BY <1>1, <1>2, <3>4
  <2> QED
    BY <2>1, <2>2
<1> HIDE DEF x, y
<1>4. (10000 * f + x) \div 10000 \in Int /\ (10000 * f + x) \div 10000 >= 8459
  BY <1>2, <1>3
<1> QED
  BY <1>2, <1>4 DEF Corrected

\* The bounds of the factor.
HighEnough ==
  /\ mode = "performance" => factor >= 8459
  /\ mode = "medium" /\ targetEPS >= LargeTarget => factor >= 9600

\* What a batch is made of, in the mode medium.
LEMMA MediumBatch ==
  ASSUME Regulated(profile), mode = "medium", targetEPS >= LargeTarget,
         factor \in Int, 7000 <= factor, factor <= 13000
  PROVE  /\ nextBatch \in Nat /\ 1000000 * nextBatch <= targetEPS * factor
         /\ factor >= 9600 => 10000 * nextBatch >= 95 * targetEPS
<1> DEFINE t == targetEPS
           l == t \div 100
           x == l * factor
           b == x \div 10000
<1>1. t \in Nat /\ t >= 20000
  BY ShareIsPositive DEF LargeTarget
<1>2. logsPerBatch = maxInt(1, l)
  BY DEF logsPerBatch, TicksPerSecond
<1> HIDE DEF t
<1>3. l \in Nat /\ l >= 200 /\ 100 * l <= t /\ t < 100 * l + 100
  BY <1>1
<1> HIDE DEF l
<1>4. nextBatch = maxInt(1, b)
  BY <1>2, <1>3 DEF nextBatch, Scale, maxInt
<1>5. x \in Nat /\ x >= l * 7000 /\ 100 * x <= t * factor
  <2>1. x \in Nat
    BY <1>3
  <2>2. l * (factor - 7000) >= 0 /\ (t - 100 * l) * factor >= 0
    BY <1>1, <1>3, Z3
  <2> QED
    BY <1>1, <1>3, <2>1, <2>2, Z3
<1>6. factor >= 9600 => x >= l * 9600
  <2>1. factor >= 9600 => l * (factor - 9600) >= 0
    BY <1>3, Z3
  <2> QED
    BY <1>3, <2>1, Z3
<1> HIDE DEF x
<1>7. b \in Int /\ 10000 * b <= x /\ x < 10000 * (b + 1)
  BY <1>5
<1> HIDE DEF b
<1>8. b >= 1
  BY <1>3, <1>5, <1>7
<1>9. nextBatch = b
  BY <1>4, <1>7, <1>8 DEF maxInt
<1>10. 1000000 * b <= t * factor
  <2> DEFINE y == t * factor
  <2>1. y \in Int
    BY <1>1, Z3
  <2> HIDE DEF y
  <2>2. 100 * x <= y
    BY <1>5 DEF y
  <2>3. 1000000 * b <= y
    BY <1>5, <1>7, <2>1, <2>2
  <2> QED
    BY <2>3 DEF y
<1>11. factor >= 9600 => 10000 * b >= 95 * t
  BY <1>1, <1>3, <1>5, <1>6, <1>7
<1> QED
  BY <1>8, <1>7, <1>9, <1>10, <1>11 DEF t

\* A window of sendLoopMedium in which at most 21 batches left.
LEMMA MediumHolds ==
  ASSUME Regulated(profile), mode = "medium", targetEPS >= LargeTarget,
         factor \in 7000..13000, factor >= 9600, NEW k \in 0..21
  PROVE  Adjusted(k * nextBatch) >= 9600
<1>0. factor \in Int /\ 7000 <= factor /\ factor <= 13000
  OBVIOUS
<1>1a. nextBatch \in Nat /\ 1000000 * nextBatch <= targetEPS * factor
  BY <1>0, MediumBatch
<1> DEFINE t == targetEPS
           s == k * nextBatch
           error == s * 5 - t
           d == (4000 * error) \div t
           a == Between(-800, -d, 800)
<1>1. t \in Nat \ {0}
  BY ShareIsPositive
<1>2. /\ TicksPerSecond \div loop.window = 5 /\ loop.gain = 4000 /\ loop.step = 800
      /\ loop.deadband = 200 /\ loop.low = 7000 /\ loop.high = 13000
  BY DEF loop, Settings, MediumLoop, PerformanceLoop, TicksPerSecond
<1>3. Adjusted(s) = IF Near(error * 10000, 200 * t) THEN factor
                    ELSE Between(7000, Corrected(factor, a), 13000)
  BY <1>2 DEF Adjusted, Corrected, Scale
<1>4. s \in Nat /\ 1000000 * s <= 21 * (t * factor)
  <2>1. nextBatch \in Nat /\ 1000000 * nextBatch <= t * factor
    BY <1>1a
  <2> DEFINE b == nextBatch
             y == t * factor
  <2>2. b \in Nat /\ y \in Int
    BY <2>1, <1>1, Z3
  <2> HIDE DEF b, y, t
  <2>3. 1000000 * b <= y
    BY <2>1 DEF b, y
  <2>4. k * b \in Nat /\ k * b <= 21 * b
    <3>1. (21 - k) * b >= 0
      BY <2>2, Z3
    <3> QED
      BY <2>2, <3>1, Z3
  <2>5. 1000000 * (k * b) <= 21 * y
    BY <2>2, <2>3, <2>4
  <2> QED
    BY <2>4, <2>5 DEF b, y
<1> HIDE DEF t, s
<1>5. error \in Int
  BY <1>1, <1>4
<1>6. d \in Int /\ t * d <= 4000 * error
  <2> HIDE DEF error
  <2>1. 4000 * error \in Int
    BY <1>5
  <2> QED
    BY <1>1, <2>1, Z3
<1>7. a \in Int /\ a >= -800 /\ (a >= -d \/ a = 800)
  <2> HIDE DEF d
  <2> QED
    BY <1>6 DEF Between, maxInt, minInt
<1>8. ASSUME ~Near(error * 10000, 200 * t)
      PROVE  Corrected(factor, a) \in Int /\ Corrected(factor, a) >= 9600
  <2>1. CASE error <= 0
    <3>1. d <= 0
      <4> HIDE DEF d, error
      <4> QED
        BY <1>1, <1>5, <1>6, <2>1, TooFewRaise
    <3> HIDE DEF a, d
    <3>2. a >= 0
      BY <1>6, <1>7, <3>1
    <3> QED
      BY <1>7, <3>2, RaisedAtLeast
  <2>2. CASE error > 0
    <3>1. 50 * error > t
      <4> HIDE DEF error
      <4> QED
        BY <1>1, <1>5, <1>8, <2>2 DEF Near
    <3>2. 9715 <= factor /\ 100 * (-d) >= 400000 - 42 * factor
      <4> HIDE DEF d
      <4>1. t * d <= 4000 * (5 * s - t) /\ 50 * (5 * s - t) > t
        BY <1>1, <1>4, <1>6, <3>1
      <4> QED
        BY <1>1, <1>4, <1>6, <4>1, MediumLowers
    <3> HIDE DEF a, d
    <3>3. 100 * a >= 400000 - 42 * factor
      BY <1>6, <1>7, <3>2
    <3> QED
      BY <1>0, <1>7, <3>2, <3>3, MediumStays
  <2> HIDE DEF a
  <2> QED
    BY <1>5, <2>1, <2>2
<1> HIDE DEF a, error
<1>9. Adjusted(s) >= 9600
  BY <1>3, <1>8 DEF Between, maxInt, minInt
<1> QED
  BY <1>9 DEF s

\* A window of sendLoopPerformance in which at most eleven batches left.
LEMMA PerformanceHolds ==
  ASSUME targetEPS = 25000, loop = Settings["performance"],
         factor \in Int, 8459 <= factor, factor <= 20000, NEW k \in 0..11
  PROVE  Adjusted(k * Sized(factor)) >= 8459
<1>1. Sized(factor) \in Int /\ 10000 * Sized(factor) <= 266 * factor
      /\ 266 * factor < 10000 * (Sized(factor) + 1)
  BY SizedBetween
<1> DEFINE b == Sized(factor)
           s == k * b
           error == s * 10 - 25000
           a == Between(-1000, -((5000 * error) \div 25000), 1000)
<1>2. /\ TicksPerSecond \div loop.window = 10 /\ loop.gain = 5000 /\ loop.step = 1000
      /\ loop.deadband = 100 /\ loop.low = 5000 /\ loop.high = 20000
  BY DEF Settings, MediumLoop, PerformanceLoop, TicksPerSecond
<1>3. Adjusted(s) = IF Near(error * 10000, 100 * 25000) THEN factor
                    ELSE Between(5000, Corrected(factor, a), 20000)
  BY <1>2 DEF Adjusted, Corrected, Scale
<1> HIDE DEF b
<1>4. b \in Int /\ 10000 * b <= 266 * factor /\ b >= 0
  BY <1>1 DEF b
<1>5. s \in Int /\ s <= 11 * b
  <2>1. (11 - k) * b >= 0
    BY <1>4, Z3
  <2> QED
    BY <1>4, <2>1, Z3
<1> HIDE DEF s
<1>6. a = Between(-1000, 5000 - 2 * s, 1000)
  BY <1>5
<1>7. a \in Int /\ a >= -1000 /\ (a >= 5000 - 2 * s \/ a = 1000)
  <2>1. Between(-1000, 5000 - 2 * s, 1000) \in Int
        /\ Between(-1000, 5000 - 2 * s, 1000) >= -1000
        /\ (\/ Between(-1000, 5000 - 2 * s, 1000) >= 5000 - 2 * s
            \/ Between(-1000, 5000 - 2 * s, 1000) = 1000)
    BY <1>5 DEF Between, maxInt, minInt
  <2> HIDE DEF a
  <2> QED
    BY <1>6, <2>1
<1> HIDE DEF a
<1>8. ASSUME ~Near(error * 10000, 100 * 25000)
      PROVE  Corrected(factor, a) \in Int /\ Corrected(factor, a) >= 8459
  <2>1. CASE s <= 2500
    <3>1. a >= 0
      BY <1>5, <1>7, <2>1
    <3>2. factor >= 0 /\ a \in Int
      BY <1>7
    <3>3. Corrected(factor, a) \in Int /\ Corrected(factor, a) >= factor
      BY <3>1, <3>2, RaisedAtLeast
    <3> QED
      BY <3>3
  <2>2. CASE s > 2500
    <3>1. s > 2525
      <4>1. error \in Int /\ error = s * 10 - 25000
        BY <1>5
      <4> HIDE DEF error
      <4>2. error > 250
        BY <1>5, <1>8, <2>2, <4>1 DEF Near
      <4> QED
        BY <1>5, <4>1, <4>2
    <3>2. 230 <= b /\ a >= 5000 - 22 * b
      BY <1>4, <1>5, <1>7, <3>1
    <3> QED
      BY <1>4, <1>7, <3>2, PerformanceStays
  <2> QED
    BY <1>5, <2>1, <2>2
<1> HIDE DEF error
<1>9. Adjusted(s) >= 8459
  BY <1>3, <1>8 DEF Between, maxInt, minInt
<1> QED
  BY <1>9 DEF s, b

\* With the factor high enough, so is the next batch.
LEMMA NextBatchKeepsUp ==
  ASSUME RateInv, HighEnough, mode = "performance" \/ targetEPS >= LargeTarget
  PROVE  nextBatch * TicksPerSecond >= targetEPS \/ Precise(nextBatch)
<1>1. Regulated(profile)
  BY DEF RateInv
<1>2. CASE mode = "performance"
  <2>1. targetEPS = 25000 /\ logsPerBatch = 266 /\ loop = Settings["performance"]
    BY <1>1, <1>2, PerformanceSettings
  <2>2. factor \in Int /\ 8459 <= factor
    BY <1>2, <2>1 DEF HighEnough, RateInv, TypeOK, Settings, MediumLoop, PerformanceLoop
  <2>3. nextBatch = Sized(factor)
    <3>1. nextBatch = maxInt(1, Sized(factor))
      BY <2>1 DEF nextBatch, Scale, Sized
    <3> QED
      BY <2>2, <3>1, SizedIsPositive
  <2>4. nextBatch \in Int /\ 266 * factor < 10000 * (nextBatch + 1)
    BY <2>2, <2>3, SizedBetween
  <2> DEFINE n == nextBatch
  <2> HIDE DEF n
  <2>5. n \in Int /\ n >= 225
    BY <2>2, <2>4 DEF n
  <2>6. n * TicksPerSecond >= targetEPS \/ Precise(n)
    BY <1>2, <2>1, <2>5 DEF Precise, Distance, TicksPerSecond, maxInt
  <2> QED
    BY <2>6 DEF n
<1>3. CASE mode # "performance" /\ targetEPS >= LargeTarget
  <2>1. mode = "medium" /\ loop = Settings["medium"]
    BY <1>1, <1>3, LoopOfProfile
  <2>2. factor \in Int /\ 7000 <= factor /\ factor <= 13000 /\ 9600 <= factor
    BY <1>3, <2>1 DEF HighEnough, RateInv, TypeOK, Settings, MediumLoop, PerformanceLoop
  <2>3. nextBatch \in Nat /\ 10000 * nextBatch >= 95 * targetEPS /\ targetEPS \in Nat
    BY <1>1, <1>3, <2>1, <2>2, MediumBatch, ShareIsPositive
  <2> DEFINE n == nextBatch
             t == targetEPS
  <2> HIDE DEF n, t
  <2>4. n \in Nat /\ t \in Nat /\ 10000 * n >= 95 * t
    BY <2>3 DEF n, t
  <2>5. n * 100 >= t \/ maxInt(n * 100 - t, -(n * 100 - t)) * 100 <= t * 5
    BY <2>4 DEF maxInt
  <2> QED
    BY <2>1, <2>5 DEF n, t, Precise, Distance, TicksPerSecond
<1> QED
  BY <1>2, <1>3

KeepsUpInv == RateInv /\ HighEnough /\ KeepsUp

\* At the start nothing has been sent, and the factor is that of the nominal batch.
LEMMA KeepsUpInit == Init => KeepsUpInv
<1> SUFFICES ASSUME Init PROVE KeepsUpInv
  OBVIOUS
<1>1. RateInv /\ Regulated(profile)
  BY RateInit DEF RateInv
<1>2. HighEnough
  BY <1>1, LoopOfProfile DEF Init, HighEnough, Settings, MediumLoop, PerformanceLoop
<1>3. KeepsUp
  BY DEF Init, KeepsUp
<1> QED
  BY <1>1, <1>2, <1>3 DEF KeepsUpInv

\* No step makes the factor too low.
LEMMA HighEnoughStep ==
  ASSUME RateInv, HighEnough, [Next]_vars
  PROVE  HighEnough'
<1>1. profile' = profile /\ Regulated(profile)
  BY DEF Next, SendBatch, SendBatchAndAdjust, TargetFails, TargetReturns, vars, RateInv
<1>2. mode' = mode /\ targetEPS' = targetEPS
  BY <1>1 DEF mode, targetEPS
<1>3. CASE factor' = factor
  BY <1>2, <1>3 DEF HighEnough
<1>4. ASSUME factor' # factor
      PROVE  HighEnough'
  <2>1. SendBatchAndAdjust
    BY <1>4 DEF Next, SendBatch, TargetFails, TargetReturns, vars
  <2>2. PICK n \in Leaving(nextBatch) : factor' = Adjusted((counted + n) * nextBatch)
    BY <2>1 DEF SendBatchAndAdjust
  <2>3. nextBatch \in Nat
    BY <1>1, LoopOfProfile, BatchIsBounded DEF RateInv, TypeOK
  <2>4. n \in {0, 1}
    BY <2>2, <2>3, LeavingCounts
  <2>5. loop.window \in Nat /\ counted + n \in 0..(loop.window + 1)
    <3>1. loop.window \in Nat
      BY <1>1, LoopOfProfile
    <3> QED
      BY <2>4, <3>1 DEF RateInv, TypeOK
  <2>6. ASSUME mode = "performance" PROVE factor' >= 8459
    <3>1. targetEPS = 25000 /\ logsPerBatch = 266 /\ loop = Settings["performance"]
      BY <1>1, <2>6, PerformanceSettings
    <3>2. factor \in Int /\ 8459 <= factor /\ factor <= 20000
      BY <2>6, <3>1 DEF HighEnough, RateInv, TypeOK, Settings, MediumLoop, PerformanceLoop
    <3>3. nextBatch = Sized(factor)
      <4>1. nextBatch = maxInt(1, Sized(factor))
        BY <3>1 DEF nextBatch, Scale, Sized
      <4> QED
        BY <3>2, <4>1, SizedIsPositive
    <3>4. counted + n \in 0..11
      BY <2>5, <3>1 DEF Settings, MediumLoop, PerformanceLoop
    <3> QED
      BY <2>2, <3>1, <3>2, <3>3, <3>4, PerformanceHolds
  <2>7. ASSUME mode = "medium", targetEPS >= LargeTarget PROVE factor' >= 9600
    <3>1. loop = Settings["medium"]
      BY <1>1, <2>7, LoopOfProfile
    <3>2. factor \in 7000..13000 /\ factor >= 9600
      BY <2>7, <3>1 DEF HighEnough, RateInv, TypeOK, Settings, MediumLoop, PerformanceLoop
    <3>3. counted + n \in 0..21
      BY <2>5, <3>1 DEF Settings, MediumLoop, PerformanceLoop
    <3> QED
      BY <1>1, <2>2, <2>7, <3>2, <3>3, MediumHolds
  <2> QED
    BY <1>2, <2>6, <2>7 DEF HighEnough
<1> QED
  BY <1>3, <1>4

\* So the batches stay large enough.
LEMMA KeepsUpStep ==
  ASSUME KeepsUpInv, [Next]_vars
  PROVE  KeepsUpInv'
<1>1. RateInv' /\ HighEnough'
  BY RateStep, HighEnoughStep DEF KeepsUpInv
<1>2. profile' = profile /\ (batch' = batch \/ batch' = nextBatch)
  BY DEF Next, SendBatch, SendBatchAndAdjust, TargetFails, TargetReturns, vars
<1>3. mode' = mode /\ targetEPS' = targetEPS
  BY <1>2 DEF mode, targetEPS
<1>4. CASE batch' = batch
  BY <1>1, <1>3, <1>4 DEF KeepsUpInv, KeepsUp, Precise, Distance
<1>5. CASE batch' = nextBatch
  <2>1. mode = "performance" \/ targetEPS >= LargeTarget =>
          nextBatch * TicksPerSecond >= targetEPS \/ Precise(nextBatch)
    BY NextBatchKeepsUp DEF KeepsUpInv
  <2>2. Precise(batch)' <=> Precise(nextBatch)
    BY <1>3, <1>5 DEF Precise, Distance
  <2>3. KeepsUp'
    BY <1>3, <1>5, <2>1, <2>2 DEF KeepsUp
  <2> QED
    BY <1>1, <2>3 DEF KeepsUpInv
<1> QED
  BY <1>2, <1>4, <1>5

\* The strengthened invariant always holds.
LEMMA KeepsUpAlways == Safety => []KeepsUpInv
<1>1. KeepsUpInv /\ [Next]_vars => KeepsUpInv'
  BY KeepsUpStep
<1> QED
  BY KeepsUpInit, <1>1, PTL DEF Safety

\* No outage and no correction ever makes a rate too low for the precision promised, in the
\* mode performance, and in the mode medium from the target of LargeTarget on.
THEOREM RateKeepsUp == Safety => []KeepsUp
<1>1. KeepsUpInv => KeepsUp
  BY DEF KeepsUpInv
<1> QED
  BY KeepsUpAlways, <1>1, PTL

-----------------------------------------------------------------------------
(* The feedback of sendLoopMedium.                                          *)

\* What a factor of that loop makes of a target, and its bounds.
Batched(t, f) == ((t \div 100) * f) \div 10000

InBounds(l, f, b) ==
  /\ l \in Nat /\ l >= 200 /\ b \in Nat /\ maxInt(1, b) = b
  /\ 10000 * b <= l * f /\ l * f < 10000 * (b + 1)

\* As the two divisions leave them.
LEMMA BatchedBetween ==
  ASSUME NEW t \in Nat, 20000 <= t, NEW f \in Int, 7000 <= f
  PROVE  InBounds(t \div 100, f, Batched(t, f))
<1> DEFINE l == t \div 100
           x == l * f
           b == x \div 10000
<1>1. l \in Nat /\ l >= 200
  OBVIOUS
<1> HIDE DEF l
<1>2. x \in Int /\ x >= 1400000
  <2>1. (l - 200) * f >= 0
    BY <1>1, Z3
  <2>2. (l - 200) * f = x - 200 * f
    BY <1>1, Z3
  <2>3. x \in Int
    BY <1>1, Z3
  <2> HIDE DEF x
  <2> QED
    BY <2>1, <2>2, <2>3
<1> HIDE DEF x
<1>3. b \in Nat /\ b >= 1 /\ 10000 * b <= x /\ x < 10000 * (b + 1)
  BY <1>2
<1> HIDE DEF b
<1>4. maxInt(1, b) = b
  BY <1>3 DEF maxInt
<1>5. Batched(t, f) = b
  BY DEF Batched, b, x, l
<1> QED
  BY <1>1, <1>3, <1>4, <1>5 DEF x, l, InBounds

\* The correction after a window that looked by e too fast, and its limits if batches of size
\* b looked at least as fast as they were: two per cent down at least when the rate is too
\* high, none up when it is high enough, two per cent up at most.
Corrects(t, e, a) ==
  \E d \in Int : t * d <= 4000 * e /\ 4000 * e < t * (d + 1) /\ a = Between(-800, -d, 800)

Limited(t, b, a) ==
  /\ 10000 * b > 105 * t => a <= -200
  /\ a <= 0 \/ (a <= 200 /\ 100 * b < t)

\* The limits follow from the rounded quotient.
LEMMA MediumCorrection ==
  ASSUME NEW t \in Nat, 20000 <= t, NEW b \in Nat, 10000 * b >= 95 * t,
         NEW e \in Int, e >= 100 * b - t, NEW a \in Int, Corrects(t, e, a)
  PROVE  Limited(t, b, a)
<1>1. PICK d \in Int :
        t * d <= 4000 * e /\ 4000 * e < t * (d + 1) /\ a = Between(-800, -d, 800)
  BY DEF Corrects
<1> DEFINE y == t * d
<1>2. y \in Int /\ y <= 4000 * e /\ 4000 * e < y + t
  <2>1. t * (d + 1) = y + t /\ y \in Int
    BY Z3
  <2> QED
    BY <1>1, <2>1
<1>3. 10000 * b > 105 * t => d >= 200
  <2> SUFFICES ASSUME 10000 * b > 105 * t, d <= 199 PROVE FALSE
    OBVIOUS
  <2>1. y <= 199 * t
    <3>1. t * (199 - d) >= 0
      BY Z3
    <3> QED
      BY <3>1, Z3
  <2> HIDE DEF y
  <2> QED
    BY <1>1, <1>2, <2>1
<1>4. d >= -200
  <2> SUFFICES ASSUME d <= -201 PROVE FALSE
    OBVIOUS
  <2>1. y <= -(201 * t)
    <3>1. t * (-201 - d) >= 0
      BY Z3
    <3> QED
      BY <3>1, Z3
  <2> HIDE DEF y
  <2> QED
    BY <1>1, <1>2, <2>1
<1>5. 100 * b >= t => d >= 0
  <2> SUFFICES ASSUME 100 * b >= t, d <= -1 PROVE FALSE
    OBVIOUS
  <2>1. y <= -t
    <3>1. t * (-1 - d) >= 0
      BY Z3
    <3> QED
      BY <3>1, Z3
  <2> HIDE DEF y
  <2> QED
    BY <1>1, <1>2, <2>1
<1> HIDE DEF y
<1> QED
  BY <1>1, <1>3, <1>4, <1>5 DEF Limited, Between, maxInt, minInt

\* From the factors to the sizes of the batches.
LEMMA MediumSizes ==
  ASSUME NEW t \in Nat, 20000 <= t, NEW f \in Int, 9600 <= f, NEW g \in Int, 9600 <= g,
         10000 * Batched(t, f) >= 95 * t
  PROVE  (\/ 10000 * g <= 9800 * f
          \/ g <= f /\ 10000 * Batched(t, f) <= 105 * t
          \/ 10000 * g <= 10200 * f /\ 100 * Batched(t, f) < t)
         => 10000 * Batched(t, g) <= 105 * t \/ Batched(t, g) < Batched(t, f)
<1>0. InBounds(t \div 100, f, Batched(t, f)) /\ InBounds(t \div 100, g, Batched(t, g))
  <2>1. 7000 <= f /\ 7000 <= g
    OBVIOUS
  <2> QED
    BY <2>1, BatchedBetween
<1> DEFINE l == t \div 100
           b == Batched(t, f)
           n == Batched(t, g)
           x == l * f
           y == l * g
<1>1. /\ l \in Nat /\ l >= 200 /\ b \in Nat
      /\ 10000 * b <= x /\ x < 10000 * (b + 1)
  BY <1>0 DEF InBounds
<1>2. n \in Nat /\ 10000 * n <= y /\ y < 10000 * (n + 1)
  BY <1>0 DEF InBounds
<1> HIDE DEF b, n, l
<1>3. x \in Int /\ y \in Int
  BY <1>1, Z3
<1>4. CASE 10000 * g <= 9800 * f
  <2>1. l * (9800 * f - 10000 * g) >= 0
    BY <1>1, <1>4, Z3
  <2>2. 10000 * y <= 9800 * x
    BY <1>1, <2>1, Z3
  <2>3. b >= 190
    <3>1. 10000 * b >= 95 * t
      BY DEF b
    <3> QED
      BY <1>1, <3>1
  <2> HIDE DEF x, y
  <2> QED
    BY <1>1, <1>2, <1>3, <2>2, <2>3 DEF b, n
<1>5. CASE g <= f /\ 10000 * b <= 105 * t
  <2>1. l * (f - g) >= 0
    BY <1>1, <1>5, Z3
  <2>2. y <= x
    BY <1>1, <2>1, Z3
  <2> HIDE DEF x, y
  <2>3. n <= b
    BY <1>1, <1>2, <1>3, <2>2
  <2> QED
    BY <1>1, <1>2, <1>5, <2>3 DEF b, n
<1>6. CASE 10000 * g <= 10200 * f /\ 100 * b < t
  <2>1. l * (10200 * f - 10000 * g) >= 0
    BY <1>1, <1>6, Z3
  <2>2. 10000 * y <= 10200 * x
    BY <1>1, <2>1, Z3
  <2> HIDE DEF x, y
  <2>3. 10000 * n <= 105 * t
    BY <1>1, <1>2, <1>3, <1>6, <2>2
  <2> QED
    BY <2>3 DEF n
<1> QED
  BY <1>4, <1>5, <1>6 DEF b

\* What a correction makes of a factor at most.
Follows(f, a, c) ==
  /\ c \in Int
  /\ a <= -200 => 10000 * c <= 9800 * f
  /\ a <= 0 => c <= f
  /\ a <= 200 => 10000 * c <= 10200 * f

\* Rounding down can only lower it.
LEMMA CorrectedAtMost ==
  ASSUME NEW f \in Nat, NEW a \in Int
  PROVE  Follows(f, a, Corrected(f, a))
<1> DEFINE x == f * a
           c == (10000 * f + x) \div 10000
<1>1. x \in Int /\ f * (10000 + a) = 10000 * f + x
  BY Z3
<1>2. (a <= -200 => x <= -(200 * f)) /\ (a <= 0 => x <= 0) /\ (a <= 200 => x <= 200 * f)
  <2>1. /\ a <= -200 => f * (-200 - a) >= 0
        /\ a <= 0 => f * (-a) >= 0
        /\ a <= 200 => f * (200 - a) >= 0
    BY Z3
  <2>2. f * (-200 - a) = -(200 * f) - x /\ f * (-a) = -x /\ f * (200 - a) = 200 * f - x
    BY Z3
  <2> HIDE DEF x
  <2> QED
    BY <1>1, <2>1, <2>2
<1>3. Corrected(f, a) = c
  BY <1>1 DEF Corrected
<1> HIDE DEF x
<1>4. c \in Int /\ 10000 * c <= 10000 * f + x
  BY <1>1
<1> HIDE DEF c
<1> QED
  BY <1>1, <1>2, <1>3, <1>4 DEF Follows

\* A window of sendLoopMedium in which 20 or 21 batches left.
LEMMA MediumCloses ==
  ASSUME Regulated(profile), mode = "medium", targetEPS >= LargeTarget,
         factor \in 7000..13000, factor >= 9600, NEW k \in {20, 21},
         NEW g \in Int, g = Adjusted(k * nextBatch)
  PROVE  \/ 10000 * Batched(targetEPS, g) <= 105 * targetEPS
         \/ Batched(targetEPS, g) < nextBatch
<1>1. factor \in Nat /\ 7000 <= factor /\ factor <= 13000 /\ k \in 0..21
  OBVIOUS
<1>2. nextBatch \in Nat /\ 10000 * nextBatch >= 95 * targetEPS
  BY <1>1, MediumBatch
<1>3. g >= 9600
  BY <1>1, MediumHolds
<1>4. targetEPS \in Nat \ {0} /\ 20000 <= targetEPS
  BY ShareIsPositive DEF LargeTarget
<1>5. nextBatch = Batched(targetEPS, factor)
  <2>1. InBounds(targetEPS \div 100, factor, Batched(targetEPS, factor))
    BY <1>1, <1>4, BatchedBetween
  <2>2. logsPerBatch = targetEPS \div 100
    BY <2>1 DEF InBounds, logsPerBatch, TicksPerSecond, maxInt
  <2>3. nextBatch = maxInt(1, Batched(targetEPS, factor))
    BY <2>2 DEF nextBatch, Scale, Batched
  <2> QED
    BY <2>1, <2>3 DEF InBounds
<1>6. /\ TicksPerSecond \div loop.window = 5 /\ loop.gain = 4000 /\ loop.step = 800
      /\ loop.deadband = 200 /\ loop.low = 7000 /\ loop.high = 13000
  BY DEF loop, Settings, MediumLoop, PerformanceLoop, TicksPerSecond
<1> DEFINE t == targetEPS
           b == nextBatch
           error == (k * b) * 5 - t
           d == (4000 * error) \div t
           a == Between(-800, -d, 800)
           c == Corrected(factor, a)
<1>7. g = IF Near(error * 10000, 200 * t) THEN factor ELSE Between(7000, c, 13000)
  BY <1>6 DEF Adjusted, Corrected, Scale
<1> HIDE DEF t, b
<1>8. t \in Nat /\ 20000 <= t /\ b \in Nat /\ 10000 * b >= 95 * t
  BY <1>2, <1>4 DEF t, b
<1>9. error \in Int /\ error = 5 * (k * b) - t /\ error >= 100 * b - t
  BY <1>8
<1>10. d \in Int /\ t * d <= 4000 * error /\ 4000 * error < t * (d + 1)
  <2> HIDE DEF error
  <2>1. 4000 * error \in Int
    BY <1>9
  <2> QED
    BY <1>8, <2>1, Z3
<1> HIDE DEF d
<1>11. a \in Int
  BY <1>10 DEF Between, maxInt, minInt
<1>12. Limited(t, b, a)
  <2>1. Corrects(t, error, a)
    BY <1>10 DEF Corrects
  <2> HIDE DEF a, error
  <2> QED
    BY <1>8, <1>9, <1>11, <2>1, MediumCorrection
<1> HIDE DEF a
<1>13. Follows(factor, a, c)
  BY <1>1, <1>11, CorrectedAtMost
<1> HIDE DEF c, error
<1>14. \/ 10000 * g <= 9800 * factor
       \/ g <= factor /\ 10000 * b <= 105 * t
       \/ 10000 * g <= 10200 * factor /\ 100 * b < t
  <2>1. CASE Near(error * 10000, 200 * t)
    BY <1>7, <1>8, <1>9, <2>1 DEF Near
  <2>2. CASE ~Near(error * 10000, 200 * t)
    <3>1. g <= c
      BY <1>3, <1>7, <1>13, <2>2 DEF Follows, Between, maxInt, minInt
    <3> QED
      BY <1>1, <1>8, <1>11, <1>12, <1>13, <3>1 DEF Limited, Follows
  <2> QED
    BY <2>1, <2>2
<1>15. b = Batched(t, factor)
  BY <1>5 DEF b, t
<1>16. 10000 * Batched(t, g) <= 105 * t \/ Batched(t, g) < Batched(t, factor)
  BY <1>1, <1>3, <1>8, <1>14, <1>15, MediumSizes
<1> QED
  BY <1>15, <1>16 DEF b, t

\* The feedback step of that loop: a window in which every batch left.
LEMMA MediumWindow ==
  ASSUME KeepsUpInv, [Next]_vars, mode = "medium", targetEPS >= LargeTarget,
         ~down, ticks' < ticks, counted = ticks, batch' <= LogsThatFit
  PROVE  (Precise(nextBatch) \/ Distance(nextBatch) < Distance(batch))'
<1>1. RateInv /\ HighEnough /\ Regulated(profile)
  BY DEF KeepsUpInv, RateInv
<1>2. SendBatchAndAdjust
  BY <1>1 DEF Next, SendBatch, TargetFails, TargetReturns, vars, RateInv, TypeOK
<1>3. profile' = profile /\ RateInv' /\ HighEnough'
  BY <1>1, <1>2, RateStep, HighEnoughStep DEF SendBatchAndAdjust
<1>4. mode' = mode /\ targetEPS' = targetEPS /\ logsPerBatch' = logsPerBatch /\ loop' = loop
  BY <1>3 DEF mode, targetEPS, logsPerBatch, loop
<1>5. loop = Settings["medium"] /\ loop.low = 7000 /\ loop.high = 13000 /\ loop.window = 20
  BY <1>1, LoopOfProfile DEF Settings, MediumLoop, PerformanceLoop
<1>6. factor \in 7000..13000 /\ factor >= 9600 /\ factor' \in 7000..13000 /\ factor' >= 9600
  BY <1>1, <1>3, <1>4, <1>5 DEF RateInv, TypeOK, HighEnough
<1>7. targetEPS \in Nat /\ 20000 <= targetEPS
  BY <1>1, ShareIsPositive DEF LargeTarget
<1>8. batch' = nextBatch /\ batch' \in Nat
  BY <1>2, <1>3 DEF SendBatchAndAdjust, RateInv, TypeOK
<1>9. Leaving(batch') = {1}
  BY <1>8 DEF Leaving, LogsThatFit, TooManyLogs
<1>10. PICK k \in {20, 21} : k = counted + 1
  BY <1>1, <1>2, <1>5 DEF SendBatchAndAdjust, RateInv, TypeOK
<1>11. factor' = Adjusted(k * nextBatch)
  BY <1>2, <1>8, <1>9, <1>10 DEF SendBatchAndAdjust
<1>12. \/ 10000 * Batched(targetEPS, factor') <= 105 * targetEPS
       \/ Batched(targetEPS, factor') < nextBatch
  BY <1>1, <1>6, <1>11, MediumCloses
<1>13. InBounds(targetEPS \div 100, factor', Batched(targetEPS, factor'))
  <2>1. factor' \in Int /\ 7000 <= factor'
    BY <1>6
  <2> QED
    BY <2>1, <1>7, BatchedBetween
<1>14. nextBatch' = Batched(targetEPS, factor')
  <2>1. logsPerBatch' = targetEPS \div 100
    BY <1>4, <1>13 DEF InBounds, logsPerBatch, TicksPerSecond, maxInt
  <2>2. nextBatch' = maxInt(1, Batched(targetEPS, factor'))
    BY <2>1 DEF nextBatch, Scale, Batched
  <2> QED
    BY <1>13, <2>2 DEF InBounds
<1>15. nextBatch' \in Nat /\ 10000 * nextBatch' >= 95 * targetEPS
  <2> DEFINE l == targetEPS \div 100
             f == factor'
             n == Batched(targetEPS, f)
             x == l * f
  <2>1. l \in Nat /\ targetEPS < 100 * l + 100
    BY <1>7
  <2>2. f \in Int /\ f >= 9600
    BY <1>6
  <2>3. n \in Nat /\ x < 10000 * (n + 1)
    BY <1>13 DEF InBounds
  <2> HIDE DEF l, f, n
  <2>4. x \in Int /\ x >= 9600 * l
    <3>1. l * (f - 9600) >= 0
      BY <2>1, <2>2, Z3
    <3> QED
      BY <2>1, <2>2, <3>1, Z3
  <2> HIDE DEF x
  <2>5. 10000 * n >= 95 * targetEPS
    BY <1>7, <2>1, <2>3, <2>4
  <2> QED
    BY <1>14, <2>3, <2>5 DEF n, f
<1> DEFINE t == targetEPS
           b == nextBatch
           n == nextBatch'
           far(x) == maxInt(x * 100 - t, -(x * 100 - t))
<1>16. far(n) * 100 <= t * 5 \/ far(n) < far(b)
  <2>1. /\ t \in Nat /\ b \in Nat /\ n \in Nat /\ 10000 * n >= 95 * t
        /\ 10000 * n <= 105 * t \/ n < b
    BY <1>7, <1>8, <1>12, <1>14, <1>15
  <2> HIDE DEF t, b, n
  <2> QED
    BY <2>1 DEF maxInt
<1>17. Distance(batch)' = far(b) /\ Distance(nextBatch)' = far(n)
  BY <1>4, <1>8 DEF Distance, TicksPerSecond
<1>18. far(n) * 100 <= t * 5 => Precise(nextBatch)'
  BY <1>4, <1>17 DEF Precise
<1> HIDE DEF far
<1> QED
  BY <1>16, <1>17, <1>18

\* The feedback brings the rate closer with every window in which all leaves, until it is as
\* precise as the mode promises, and keeps it there: in the mode performance, and in the mode
\* medium from the target of LargeTarget on.
THEOREM FeedbackClosesIn == Safety => ClosesIn
<1>1. KeepsUpInv /\ [Next]_vars =>
        [/\ mode = "performance" \/ targetEPS >= LargeTarget
         /\ ~down /\ ticks' < ticks /\ counted = ticks /\ batch' <= LogsThatFit
         => Precise(nextBatch)' \/ Distance(nextBatch)' < Distance(batch)']_vars
  <2>1. KeepsUpInv => RateInv /\ (mode # "performance" => mode = "medium")
    BY DEF KeepsUpInv, RateInv, Regulated, mode
  <2> QED
    BY <2>1, PerformanceWindow, MediumWindow
<1> QED
  BY KeepsUpAlways, <1>1, PTL DEF Safety, ClosesIn
=============================================================================
