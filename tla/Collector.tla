------------------------------ MODULE Collector -----------------------------
(***************************************************************************)
(* internal/metrics/collector.go: the counters, the reservoir of latencies *)
(* and the time series.  Every method holds the lock throughout, so each   *)
(* call that writes is one step.  A point of the time series is reduced to *)
(* its place in the series; rates and averages are quotients of what is    *)
(* kept here.                                                              *)
(***************************************************************************)
EXTENDS Integers, Sequences, FiniteSets, Functions, TLC

CONSTANTS
  URLs,         \* the backends that records name
  Latencies,    \* the latencies of requests, in milliseconds
  MaxSamples    \* maxLatencySamples

ASSUME LatenciesAssumption == Latencies \subseteq Nat
ASSUME MaxSamplesAssumption == MaxSamples \in Nat \ {0}

VARIABLES
  totals,         \* totalRequests, successfulRequests, failedRequests, retriedRequests
  latencies,      \* the reservoir
  latencyCount,
  latencySum,
  backendMetrics, \* per backend that a record has named
  points          \* Len(timeSeriesData)

collectorVars == <<totals, latencies, latencyCount, latencySum, backendMetrics, points>>

Totals == [requests : Nat, successes : Nat, failures : Nat, retries : Nat]
BackendMetrics == [requests : Nat, successes : Nat, failures : Nat, timeouts : Nat, latency : Nat]

CollectorTypeOK ==
  /\ totals \in Totals
  /\ latencies \in Seq(Latencies) /\ Len(latencies) <= MaxSamples
  /\ latencyCount \in Nat /\ latencySum \in Nat
  /\ DOMAIN backendMetrics \subseteq URLs /\ Range(backendMetrics) \subseteq BackendMetrics
  /\ points \in Nat

CollectorInit ==
  /\ totals = [requests |-> 0, successes |-> 0, failures |-> 0, retries |-> 0]
  /\ latencies = <<>> /\ latencyCount = 0 /\ latencySum = 0
  /\ backendMetrics = <<>>
  /\ points = 0

-----------------------------------------------------------------------------
One(condition) == IF condition THEN 1 ELSE 0

\* Mutant of Draws: the draw does not count the request itself.
Draws_Before(count) == 0 .. (IF count > 1 THEN count - 2 ELSE 0)

\* rand.Int63n(latencyCount)
Draws(count) == 0 .. count - 1

\* Mutant of Kept: there is no limit.
Kept_All(sample, latency, j) == Append(sample, latency)

\* The reservoir after one more latency: j is the random draw.
Kept(sample, latency, j) ==
  IF Len(sample) < MaxSamples THEN Append(sample, latency)
  ELSE [k \in DOMAIN sample |-> IF k = j + 1 THEN latency ELSE sample[k]]

NoMetrics == [requests |-> 0, successes |-> 0, failures |-> 0, timeouts |-> 0, latency |-> 0]

\* Mutant of MetricsOf: the entry is created anew each time.
MetricsOf_Fresh(backend) == NoMetrics

MetricsOf(backend) ==
  IF backend \in DOMAIN backendMetrics THEN backendMetrics[backend] ELSE NoMetrics

RecordRequest(backend, latency, success, timeout, retried) ==
  /\ totals' = [requests  |-> totals.requests + 1,
                successes |-> totals.successes + One(success),
                failures  |-> totals.failures + One(~success),
                retries   |-> totals.retries + One(retried)]
  /\ latencyCount' = latencyCount + 1
  /\ latencySum' = latencySum + latency
  /\ \E j \in Draws(latencyCount + 1) : latencies' = Kept(latencies, latency, j)
  /\ LET bm == MetricsOf(backend)
         new == [requests  |-> bm.requests + 1,
                 successes |-> bm.successes + One(success),
                 failures  |-> bm.failures + One(~success),
                 timeouts  |-> bm.timeouts + One(timeout),
                 latency   |-> bm.latency + latency]
     IN  backendMetrics' = [b \in DOMAIN backendMetrics \cup {backend} |->
                              IF b = backend THEN new ELSE backendMetrics[b]]
  /\ UNCHANGED points

RecordTimeSeriesPoint ==
  /\ points' = points + 1
  /\ UNCHANGED <<totals, latencies, latencyCount, latencySum, backendMetrics>>

\* sort.Float64s of a copy: the positions of sample by ascending value, and the values.
Ascending(sample) ==
  {order \in Injection(DOMAIN sample, DOMAIN sample) :
     \A i, j \in DOMAIN sample : i < j => sample[order[i]] <= sample[order[j]]}

Sorted(sample) ==
  LET order == CHOOSE o \in Ascending(sample) : TRUE
  IN  [k \in DOMAIN sample |-> sample[order[k]]]

\* Mutant of percentile: ranks counted from one, indexes too.
percentile_OneLess(sorted, p) ==
  sorted[IF (Len(sorted) * p) \div 100 = 0 THEN 1 ELSE (Len(sorted) * p) \div 100]

percentile(sorted, p) ==
  LET index == (Len(sorted) * p) \div 100
  IN  sorted[IF index >= Len(sorted) THEN Len(sorted) ELSE index + 1]

-----------------------------------------------------------------------------
(***************************************************************************)
(* What a summary says of all requests is what it says of its backends     *)
(* together, and every request is either a success or a failure: no record *)
(* is lost or counted twice on the way into the two breakdowns.            *)
(***************************************************************************)
SumOver(field) == SumFunction([b \in DOMAIN backendMetrics |-> backendMetrics[b][field]])

Breakdown ==
  /\ totals.requests = totals.successes + totals.failures
  /\ totals.requests = SumOver("requests") /\ totals.requests = latencyCount
  /\ totals.successes = SumOver("successes")
  /\ totals.failures = SumOver("failures")
  /\ latencySum = SumOver("latency")

(***************************************************************************)
(* The reservoir is a fair sample: over all outcomes of the draws so far,  *)
(* every request of the run is kept in equally many, so that percentiles   *)
(* do not favour early or late requests once the limit is passed.          *)
(***************************************************************************)
SampleOf(draws) ==
  LET sample[n \in 0 .. Len(draws)] ==
        IF n = 0 THEN <<>> ELSE Kept(sample[n - 1], n, draws[n])
  IN  sample[Len(draws)]

Samples == {d \in [1 .. latencyCount -> 0 .. latencyCount - 1] : \A n \in DOMAIN d : d[n] \in Draws(n)}

TimesKept(m) == Cardinality({d \in Samples : m \in Range(SampleOf(d))})

UniformSample == \A m \in 1 .. latencyCount : TimesKept(m) = TimesKept(1)

(***************************************************************************)
(* A percentile is large enough: at least p percent of the sample are no   *)
(* larger than what the summary gives as the p-th, for samples of any size *)
(* up to the limit, the smallest ones included.                            *)
(***************************************************************************)
PercentilesCover ==
  latencies # <<>> =>
    \A p \in {50, 95, 99} :
      LET value == percentile(Sorted(latencies), p)
      IN  100 * Cardinality({k \in DOMAIN latencies : latencies[k] <= value}) >= p * Len(latencies)

=============================================================================
