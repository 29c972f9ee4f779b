----------------------------- MODULE EPSProfiles -----------------------------
(***************************************************************************)
(* The EPS profiles (internal/config/profiles.go): the predefined ones,    *)
(* and the one calculated for a custom rate.  Kept of a profile: the rate, *)
(* the workers it is divided among, the ticker interval and the mode of    *)
(* the send loops.  Buffer, memory and GC figures are left out.            *)
(***************************************************************************)
EXTENDS Integers

CONSTANT Cores      \* runtime.NumCPU()
ASSUME CoresAssumption == Cores \in Nat \ {0}

MAX_WORKERS == 200

EPSProfile(eps, workers, interval, mode) ==
  [TargetEPS |-> eps, WorkerCount |-> workers, TickerInterval |-> interval,
   PrecisionMode |-> mode]

EPSProfiles ==
  [name \in {"100k", "500k", "1m", "2m", "4m"} |->
    CASE name = "100k" -> EPSProfile(100000, 10, 5000, "high")
      [] name = "500k" -> EPSProfile(500000, 50, 5000, "high")
      [] name = "1m" -> EPSProfile(1000000, 40, 10000, "performance")
      [] name = "2m" -> EPSProfile(2000000, 80, 10000, "performance")
      [] name = "4m" -> EPSProfile(4000000, 160, 10000, "performance")]

minInt(a, b) == IF a < b THEN a ELSE b
maxInt(a, b) == IF a > b THEN a ELSE b

\* calculateWorkerCount, for a rate above zero.  (A negative rate, which the command line
\* lets through, gives a negative count, and making the pool panics.)
optimalEPSPerWorker(eps) ==
  CASE eps <= 100000 -> 10000
    [] eps > 100000 /\ eps <= 500000 -> 20000
    [] eps > 500000 -> 25000

leastWorkers(eps) ==
  CASE eps >= 4000000 -> 160
    [] eps >= 2000000 /\ eps < 4000000 -> 80
    [] eps >= 1000000 /\ eps < 2000000 -> 40
    [] eps < 1000000 -> 1

calculateWorkerCount(eps) ==
  LET workers == maxInt(eps \div optimalEPSPerWorker(eps), leastWorkers(eps))
  IN minInt(minInt(workers, Cores * 10), MAX_WORKERS)

\* CalculateCustomProfile; the ticker interval is in microseconds here as well.
CalculateCustomProfile(eps) ==
  EPSProfile(eps, calculateWorkerCount(eps),
             CASE eps <= 100000 -> 100
               [] eps > 100000 /\ eps <= 500000 -> 40
               [] eps > 500000 -> 50,
             "medium")

\* The profile of a request [profile, eps].
ProfileOf(request) ==
  IF request.profile = "custom" THEN CalculateCustomProfile(request.eps)
  ELSE EPSProfiles[request.profile]
=============================================================================
