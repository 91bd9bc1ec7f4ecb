--------------------------- MODULE LifecycleProofs --------------------------
(***************************************************************************)
(* Theorems about Lifecycle, for any number of requests and exports, any   *)
(* records and any limits of the reservoir and of the time series: what is *)
(* saved at the shutdown, what an export sends, and that the metrics add   *)
(* up, come from a fair sample and have percentiles that are large enough. *)
(***************************************************************************)
EXTENDS Lifecycle, CollectorProofs

Recorded == {r \in Requests : where[r] = "recorded"}

\* Every request that was recorded is in the totals once.
CountInv == IsFiniteSet(Recorded) /\ totals.requests = Cardinality(Recorded)

\* Where nobody is in ServeHTTP, and what the shutdown has in hand by then.
ShutdownInv ==
  /\ stage = "boot" => \A r \in Requests : where[r] = "outside"
  /\ stage \notin {"boot", "serving", "draining"} /\ ~expired =>
       /\ \A r \in Requests : where[r] # "running"
       /\ summary \in {NoSummary, totals}
  /\ stage \in {"boot", "serving", "draining", "drainingMetrics", "summing"} =>
       saved = NoSummary /\ summary = NoSummary
  /\ saved \in {NoSummary, summary}

\* Two exports at once disturb each other; one that is alone owns the file.
ExportInv ==
  /\ \A d, e \in Exports : UnderWay(d) /\ UnderWay(e) /\ d # e => d \in disturbed
  /\ \A e \in Exports : export[e] = "none" => written[e] = 0
  /\ \A e \in Exports \ disturbed :
       /\ export[e] = "writing" => file = 1 .. written[e]
       /\ export[e] = "written" => file = 1 .. series[e]

LInv == LifecycleTypeOK /\ CountInv /\ ShutdownInv /\ ExportInv

-----------------------------------------------------------------------------
LEMMA LInvInit == Init => LInv
<1> SUFFICES ASSUME Init PROVE LInv
  OBVIOUS
<1> USE DEF Init, CollectorInit
<1>1. LifecycleTypeOK
  <2>1. NoSummary \in Totals /\ totals \in Totals
    BY DEF NoSummary, Totals
  <2>2. CollectorTypeOK
    BY <2>1, MaxSamplesAssumption DEF CollectorTypeOK, Range
  <2>3. saved \in Totals /\ summary \in Totals /\ stage \in Stages
    BY <2>1 DEF Stages
  <2>4. 0 \in 0 .. MaxPoints /\ points <= MaxPoints
    BY MaxPointsAssumption
  <2> QED
    BY <2>2, <2>3, <2>4 DEF LifecycleTypeOK
<1>2. CountInv
  <2>1. Recorded = {}
    BY DEF Recorded
  <2> QED
    BY <2>1, FS_EmptySet DEF CountInv
<1>3. ShutdownInv
  BY DEF ShutdownInv
<1>4. ExportInv
  BY DEF ExportInv, UnderWay
<1> QED
  BY <1>1, <1>2, <1>3, <1>4 DEF LInv

-----------------------------------------------------------------------------
(***************************************************************************)
(* RecordRequest keeps the collector well formed.                          *)
(***************************************************************************)
\* The reservoir takes the latency in and does not outgrow its limit.
LEMMA KeptInBounds ==
  ASSUME NEW s \in Seq(Latencies), Len(s) <= MaxSamples, NEW l \in Latencies, NEW j
  PROVE  Kept(s, l, j) \in Seq(Latencies) /\ Len(Kept(s, l, j)) <= MaxSamples
<1>1. CASE Len(s) < MaxSamples
  BY <1>1, MaxSamplesAssumption DEF Kept
<1>2. CASE ~(Len(s) < MaxSamples)
  <2> DEFINE t == [k \in 1 .. Len(s) |-> IF k = j + 1 THEN l ELSE s[k]]
  <2>1. Kept(s, l, j) = t
    BY <1>2 DEF Kept
  <2>2. Len(s) \in Nat /\ \A k \in 1 .. Len(s) : s[k] \in Latencies
    OBVIOUS
  <2>3. t \in [1 .. Len(s) -> Latencies]
    BY <2>2
  <2> HIDE DEF t
  <2>4. t \in Seq(Latencies) /\ Len(t) = Len(s)
    BY <2>2, <2>3
  <2> QED
    BY <2>1, <2>4
<1> QED
  BY <1>1, <1>2

LEMMA RecordRequestType ==
  ASSUME CollectorTypeOK, NEW m \in Records,
         RecordRequest(m.backend, m.latency, m.success, m.timeout, m.retried)
  PROVE  CollectorTypeOK' /\ totals'.requests = totals.requests + 1
<1> USE DEF RecordRequest
<1>1. /\ m.backend \in URLs /\ m.latency \in Latencies /\ m.latency \in Nat
  BY RecordsAssumption, LatenciesAssumption
<1>2. \A b : One(b) \in Nat
  BY DEF One
<1>3. totals' \in Totals /\ totals'.requests = totals.requests + 1
  BY <1>2 DEF CollectorTypeOK, Totals
<1>4. latencies' \in Seq(Latencies) /\ Len(latencies') <= MaxSamples
  BY <1>1, KeptInBounds DEF CollectorTypeOK
<1>5. latencyCount' \in Nat /\ latencySum' \in Nat /\ points' \in Nat
  BY <1>1 DEF CollectorTypeOK
<1>6. DOMAIN backendMetrics' \subseteq URLs /\ Range(backendMetrics') \subseteq BackendMetrics
  <2> DEFINE bm == MetricsOf(m.backend)
             new == [requests  |-> bm.requests + 1,
                     successes |-> bm.successes + One(m.success),
                     failures  |-> bm.failures + One(~m.success),
                     timeouts  |-> bm.timeouts + One(m.timeout),
                     latency   |-> bm.latency + m.latency]
  <2>1. bm \in BackendMetrics
    BY DEF MetricsOf, NoMetrics, BackendMetrics, CollectorTypeOK, Range
  <2>2. new \in BackendMetrics
    <3> HIDE DEF bm
    <3> QED
      BY <1>1, <1>2, <2>1 DEF BackendMetrics
  <2>3. backendMetrics' = [b \in DOMAIN backendMetrics \cup {m.backend} |->
                             IF b = m.backend THEN new ELSE backendMetrics[b]]
    OBVIOUS
  <2> HIDE DEF new
  <2>4. DOMAIN backendMetrics' = DOMAIN backendMetrics \cup {m.backend}
    BY <2>3
  <2>5. ASSUME NEW b \in DOMAIN backendMetrics' PROVE backendMetrics'[b] \in BackendMetrics
    <3>1. b # m.backend => backendMetrics'[b] = backendMetrics[b] /\ b \in DOMAIN backendMetrics
      BY <2>3, <2>5
    <3>2. b = m.backend => backendMetrics'[b] = new
      BY <2>3
    <3>3. \A d \in DOMAIN backendMetrics : backendMetrics[d] \in BackendMetrics
      BY DEF CollectorTypeOK, Range
    <3> QED
      BY <2>2, <3>1, <3>2, <3>3
  <2>6. DOMAIN backendMetrics' \subseteq URLs
    BY <1>1, <2>4 DEF CollectorTypeOK
  <2> QED
    BY <2>5, <2>6 DEF Range
<1> QED
  BY <1>3, <1>4, <1>5, <1>6 DEF CollectorTypeOK

-----------------------------------------------------------------------------
(***************************************************************************)
(* Each part of the invariant, in every step.                              *)
(***************************************************************************)
LEMMA TypeNext ==
  ASSUME LifecycleTypeOK, Next
  PROVE  LifecycleTypeOK'
<1>0. CollectorTypeOK /\ points \in 0 .. MaxPoints /\ MaxPoints \in Nat
  BY MaxPointsAssumption DEF LifecycleTypeOK, CollectorTypeOK
<1>a. ASSUME UNCHANGED collectorVars PROVE CollectorTypeOK' /\ points' <= MaxPoints
  BY <1>0, <1>a DEF CollectorTypeOK, collectorVars
<1> USE DEF Goto, shutdownVars, fileVars, exportVars
<1>1. CASE Listen \/ ListenFails \/ Signal \/ DeadlineExpires \/ StopTicking
  BY <1>a, <1>1 DEF Listen, ListenFails, Signal, DeadlineExpires, StopTicking, LifecycleTypeOK, Stages
<1>2. CASE Shutdown
  <2>1. CASE ShutdownServer \/ ShutdownMetricsServer \/ Exit
    BY <1>a, <2>1 DEF ShutdownServer, ShutdownMetricsServer, Exit, LifecycleTypeOK, Stages
  <2>2. CASE GetSummary
    BY <1>a, <2>2 DEF GetSummary, LifecycleTypeOK, CollectorTypeOK, Stages
  <2>3. CASE WriteFile
    BY <1>a, <2>3 DEF WriteFile, LifecycleTypeOK, Stages
  <2>4. CASE ExportCSV
    BY <1>a, <2>4 DEF ExportCSV, LifecycleTypeOK, Stages
  <2> QED
    BY <1>2, <2>1, <2>2, <2>3, <2>4 DEF Shutdown
<1>3. CASE Tick
  <2>1. points' \in 0 .. MaxPoints /\ CollectorTypeOK'
    BY <1>0, <1>3 DEF Tick, RecordTimeSeriesPoint, CollectorTypeOK, LifecycleTypeOK
  <2> QED
    BY <1>3, <2>1 DEF Tick, RecordTimeSeriesPoint, LifecycleTypeOK
<1>4. ASSUME NEW r \in Requests, Arrive(r) \/ Reject(r) PROVE LifecycleTypeOK'
  <2>1. where' \in [Requests -> {"outside", "running", "recorded", "rejected"}]
    BY <1>4 DEF Arrive, Reject, LifecycleTypeOK
  <2>2. CollectorTypeOK' /\ points' <= MaxPoints
    BY <1>a, <1>4 DEF Arrive, Reject
  <2>3. UNCHANGED <<shutdownVars, ticking, exportVars>>
    BY <1>4 DEF Arrive, Reject
  <2> QED
    BY <2>1, <2>2, <2>3 DEF LifecycleTypeOK
<1>5. ASSUME NEW r \in Requests, Record(r) PROVE LifecycleTypeOK'
  <2>1. CollectorTypeOK'
    BY <1>0, <1>5, RecordRequestType DEF Record
  <2>2. points' = points
    BY <1>5 DEF Record, RecordRequest
  <2> QED
    BY <1>5, <2>1, <2>2 DEF Record, LifecycleTypeOK
<1>6. ASSUME NEW e \in Exports, CreateFile(e) PROVE LifecycleTypeOK'
  <2>1. disturbed' \subseteq Exports
    BY <1>6 DEF CreateFile, LifecycleTypeOK
  <2>2. series' \in [Exports -> 0 .. MaxPoints] /\ file' \subseteq 1 .. MaxPoints
    BY <1>0, <1>6 DEF CreateFile, LifecycleTypeOK
  <2>3. export' \in [Exports -> {"none", "writing", "written"}]
    BY <1>6 DEF CreateFile, LifecycleTypeOK
  <2> QED
    BY <1>a, <1>6, <2>1, <2>2, <2>3 DEF CreateFile, LifecycleTypeOK
<1>7. ASSUME NEW e \in Exports, WriteLine(e) PROVE LifecycleTypeOK'
  <2>1. written[e] \in 0 .. MaxPoints /\ series[e] \in 0 .. MaxPoints /\ written[e] < series[e]
    BY <1>7 DEF WriteLine, LifecycleTypeOK
  <2>2. written[e] + 1 \in 1 .. MaxPoints /\ written[e] + 1 \in 0 .. MaxPoints
    BY <1>0, <2>1
  <2>3. written' \in [Exports -> 0 .. MaxPoints] /\ file' \subseteq 1 .. MaxPoints
    BY <1>7, <2>2 DEF WriteLine, LifecycleTypeOK
  <2> QED
    BY <1>a, <1>7, <2>3 DEF WriteLine, LifecycleTypeOK
<1>8. ASSUME NEW e \in Exports, CloseFile(e) \/ FlushFails(e) PROVE LifecycleTypeOK'
  <2>1. file' \subseteq 1 .. MaxPoints /\ disturbed' \subseteq Exports
    BY <1>8 DEF CloseFile, FlushFails, LifecycleTypeOK
  <2> QED
    BY <1>a, <1>8, <2>1 DEF CloseFile, FlushFails, LifecycleTypeOK
<1>9. ASSUME NEW e \in Exports, WriteFails(e) \/ ServeFile(e) PROVE LifecycleTypeOK'
  <2>1. EndExport(e)
    BY <1>9 DEF WriteFails, ServeFile
  <2>2. series' \in [Exports -> 0 .. MaxPoints] /\ written' \in [Exports -> 0 .. MaxPoints]
    BY <1>0, <2>1 DEF EndExport, LifecycleTypeOK
  <2>3. export' \in [Exports -> {"none", "writing", "written"}] /\ disturbed' \subseteq Exports
    BY <2>1 DEF EndExport, LifecycleTypeOK
  <2> QED
    BY <1>a, <2>1, <2>2, <2>3 DEF EndExport, LifecycleTypeOK
<1>10. CASE WaitToWrite
  BY <1>a, <1>10 DEF WaitToWrite, Wait, LifecycleTypeOK
<1> QED
  BY <1>1, <1>2, <1>3, <1>4, <1>5, <1>6, <1>7, <1>8, <1>9, <1>10 DEF Next, ExportStep

\* Steps that leave the totals and the requests alone.
LEMMA CountUnchanged ==
  ASSUME CountInv, UNCHANGED <<totals, where>>
  PROVE  CountInv'
BY DEF CountInv, Recorded

LEMMA CountNext ==
  ASSUME LifecycleTypeOK, CountInv, Next
  PROVE  CountInv'
<1> USE DEF Goto, shutdownVars, fileVars, exportVars, collectorVars
<1>1. CASE Listen \/ ListenFails \/ Signal \/ DeadlineExpires \/ StopTicking \/ Shutdown \/ Tick
  BY <1>1, CountUnchanged
  DEF Listen, ListenFails, Signal, DeadlineExpires, StopTicking, Tick, RecordTimeSeriesPoint,
      Shutdown, ShutdownServer, ShutdownMetricsServer, GetSummary, WriteFile, ExportCSV, Exit
<1>2. ASSUME NEW e \in Exports, ExportStep(e) PROVE CountInv'
  BY <1>2, CountUnchanged
  DEF ExportStep, CreateFile, WriteLine, WriteFails, CloseFile, FlushFails, ServeFile, EndExport
<1>3. ASSUME NEW r \in Requests, Arrive(r) \/ Reject(r) PROVE CountInv'
  <2>1. Recorded' = Recorded
    BY <1>3 DEF Arrive, Reject, Recorded, LifecycleTypeOK
  <2> QED
    BY <1>3, <2>1 DEF Arrive, Reject, CountInv
<1>4. ASSUME NEW r \in Requests, Record(r) PROVE CountInv'
  <2>1. r \notin Recorded /\ Recorded' = Recorded \cup {r}
    BY <1>4 DEF Record, Recorded, LifecycleTypeOK
  <2>2. totals'.requests = totals.requests + 1
    BY <1>4, RecordRequestType DEF Record, LifecycleTypeOK
  <2> QED
    BY <2>1, <2>2, FS_AddElement DEF CountInv
<1>5. CASE WaitToWrite
  BY <1>5, CountUnchanged DEF WaitToWrite, Wait
<1> QED
  BY <1>1, <1>2, <1>3, <1>4, <1>5 DEF Next

LEMMA ShutdownNext ==
  ASSUME LifecycleTypeOK, ShutdownInv, Next
  PROVE  ShutdownInv'
<1> USE DEF Goto, shutdownVars, fileVars, exportVars, collectorVars
<1>1. CASE Listen \/ ListenFails \/ Signal \/ DeadlineExpires
  BY <1>1 DEF Listen, ListenFails, Signal, DeadlineExpires, ShutdownInv
<1>2. CASE StopTicking \/ Tick
  BY <1>2 DEF StopTicking, Tick, RecordTimeSeriesPoint, ShutdownInv
<1>3. CASE Shutdown
  BY <1>3 DEF Shutdown, ShutdownServer, ShutdownMetricsServer, GetSummary, WriteFile, ExportCSV, Exit,
              ShutdownInv
<1>4. ASSUME NEW r \in Requests, Arrive(r) PROVE ShutdownInv'
  BY <1>4 DEF Arrive, ShutdownInv
<1>5. ASSUME NEW r \in Requests, Record(r) PROVE ShutdownInv'
  <2>1. stage \in {"serving", "draining"} \/ expired
    BY <1>5 DEF Record, ShutdownInv
  <2>2. stage # "boot"
    BY <1>5 DEF Record, ShutdownInv
  <2> QED
    BY <1>5, <2>1, <2>2 DEF Record, ShutdownInv
<1>6. ASSUME NEW r \in Requests, Reject(r) PROVE ShutdownInv'
  BY <1>6 DEF Reject, ShutdownInv, LifecycleTypeOK
<1>7. ASSUME NEW e \in Exports, ExportStep(e) PROVE ShutdownInv'
  BY <1>7
  DEF ExportStep, CreateFile, WriteLine, WriteFails, CloseFile, FlushFails, ServeFile, EndExport, ShutdownInv
<1>8. CASE WaitToWrite
  BY <1>8 DEF WaitToWrite, Wait, ShutdownInv
<1> QED
  BY <1>1, <1>2, <1>3, <1>4, <1>5, <1>6, <1>7, <1>8 DEF Next

LEMMA ExportNext ==
  ASSUME LifecycleTypeOK, ExportInv, Next
  PROVE  ExportInv'
<1>0. /\ export \in [Exports -> {"none", "writing", "written"}]
      /\ series \in [Exports -> 0 .. MaxPoints] /\ written \in [Exports -> 0 .. MaxPoints]
      /\ MaxPoints \in Nat
  BY MaxPointsAssumption DEF LifecycleTypeOK
<1>1. ASSUME UNCHANGED fileVars PROVE ExportInv'
  BY <1>1 DEF ExportInv, UnderWay, fileVars
<1>2. ASSUME NEW e \in Exports, CreateFile(e) PROVE ExportInv'
  <2>1. /\ export' = [export EXCEPT ![e] = "writing"] /\ file' = {}
        /\ series' = [series EXCEPT ![e] = points] /\ written' = written
        /\ export[e] = "none" /\ written[e] = 0
    BY <1>2 DEF CreateFile, ExportInv
  <2>2. /\ disturbed \subseteq disturbed'
        /\ \A d \in Exports : UnderWay(d) => d \in disturbed' /\ e \in disturbed'
    BY <1>2 DEF CreateFile
  <2>3. \A c, d \in Exports : UnderWay(c)' /\ UnderWay(d)' /\ c # d => c \in disturbed'
    BY <1>0, <2>1, <2>2 DEF ExportInv, UnderWay
  <2>4. \A d \in Exports : export'[d] = "none" => written'[d] = 0
    BY <1>0, <2>1 DEF ExportInv
  <2>5. ASSUME NEW d \in Exports \ disturbed'
        PROVE  /\ export'[d] = "writing" => file' = 1 .. written'[d]
               /\ export'[d] = "written" => file' = 1 .. series'[d]
    <3>1. CASE d = e
      BY <1>0, <2>1, <3>1
    <3>2. CASE d # e
      <4>1. ~UnderWay(d)
        BY <2>2, <2>5
      <4> QED
        BY <1>0, <2>1, <2>2, <2>5, <3>2, <4>1 DEF ExportInv, UnderWay
    <3> QED
      BY <3>1, <3>2
  <2> QED
    BY <2>3, <2>4, <2>5 DEF ExportInv
<1>3. ASSUME NEW e \in Exports, WriteLine(e) PROVE ExportInv'
  <2>1. /\ written' = [written EXCEPT ![e] = @ + 1] /\ file' = file \cup {written[e] + 1}
        /\ export[e] = "writing" /\ UNCHANGED <<export, series, disturbed>>
    BY <1>3 DEF WriteLine
  <2>2. ASSUME NEW d \in Exports \ disturbed'
        PROVE  /\ export'[d] = "writing" => file' = 1 .. written'[d]
               /\ export'[d] = "written" => file' = 1 .. series'[d]
    <3>1. CASE d = e
      <4>1. file = 1 .. written[e] /\ written[e] \in Nat /\ written'[e] = written[e] + 1
        BY <1>0, <2>1, <2>2, <3>1 DEF ExportInv
      <4>2. file' = 1 .. written'[e]
        BY <2>1, <4>1
      <4> QED
        BY <2>1, <3>1, <4>2
    <3>2. CASE d # e
      BY <2>1, <2>2, <3>2 DEF ExportInv, UnderWay
    <3> QED
      BY <3>1, <3>2
  <2>3. \A d \in Exports : export'[d] = "none" => written'[d] = 0
    BY <1>0, <2>1 DEF ExportInv
  <2>4. \A c, d \in Exports : UnderWay(c)' /\ UnderWay(d)' /\ c # d => c \in disturbed'
    BY <2>1 DEF ExportInv, UnderWay
  <2> QED
    BY <2>2, <2>3, <2>4 DEF ExportInv
<1>4. ASSUME NEW e \in Exports, CloseFile(e) \/ FlushFails(e) PROVE ExportInv'
  BY <1>0, <1>4 DEF CloseFile, FlushFails, ExportInv, UnderWay
<1>5. ASSUME NEW e \in Exports, WriteFails(e) \/ ServeFile(e) PROVE ExportInv'
  BY <1>0, <1>5 DEF WriteFails, ServeFile, EndExport, ExportInv, UnderWay
<1>6. CASE Listen \/ ListenFails \/ Signal \/ DeadlineExpires \/ StopTicking \/ Tick \/ Shutdown
  BY <1>1, <1>6
  DEF Listen, ListenFails, Signal, DeadlineExpires, StopTicking, Tick, Goto, exportVars,
      Shutdown, ShutdownServer, ShutdownMetricsServer, GetSummary, WriteFile, ExportCSV, Exit
<1>7. ASSUME NEW r \in Requests, Arrive(r) \/ Record(r) \/ Reject(r) PROVE ExportInv'
  BY <1>1, <1>7 DEF Arrive, Record, Reject, exportVars
<1>8. CASE WaitToWrite
  BY <1>1, <1>8 DEF WaitToWrite, Wait
<1> QED
  BY <1>2, <1>3, <1>4, <1>5, <1>6, <1>7, <1>8 DEF Next, ExportStep

LEMMA LInvNext == LInv /\ [Next]_vars => LInv'
<1> SUFFICES ASSUME LInv, [Next]_vars PROVE LInv'
  OBVIOUS
<1>1. CASE Next
  BY <1>1, TypeNext, CountNext, ShutdownNext, ExportNext DEF LInv
<1>2. CASE UNCHANGED vars
  <2> USE DEF vars, collectorVars, shutdownVars, fileVars, exportVars
  <2>1. LifecycleTypeOK'
    BY <1>2 DEF LInv, LifecycleTypeOK, CollectorTypeOK
  <2>2. CountInv' /\ ShutdownInv' /\ ExportInv'
    BY <1>2 DEF LInv, CountInv, Recorded, ShutdownInv, ExportInv, UnderWay
  <2> QED
    BY <2>1, <2>2 DEF LInv
<1> QED
  BY <1>1, <1>2

-----------------------------------------------------------------------------
(***************************************************************************)
(* The reservoir does not outgrow its limit, and counters, time series and *)
(* exported lines stay well formed.                                        *)
(***************************************************************************)
THEOREM LifecycleTypeCorrect == Spec => []LifecycleTypeOK
<1>1. LInv => LifecycleTypeOK
  BY DEF LInv
<1> QED
  BY LInvInit, LInvNext, <1>1, PTL DEF Spec

(***************************************************************************)
(* A drain that ends in time loses no request: the summary saved is about  *)
(* every request that was recorded, and nothing is recorded after it.      *)
(***************************************************************************)
THEOREM DrainLosesNothing == Spec => []DrainedCounted
<1>1. LInv => DrainedCounted
  BY DEF LInv, CountInv, ShutdownInv, Recorded, DrainedCounted
<1> QED
  BY LInvInit, LInvNext, <1>1, PTL DEF Spec

(***************************************************************************)
(* An export that no other overlaps and whose flush does not fail sends    *)
(* the whole time series, although all exports share one file.             *)
(***************************************************************************)
THEOREM LoneExportsAreComplete == Spec => []LoneExportComplete
<1>1. LInv => LoneExportComplete
  BY DEF LInv, ExportInv, LoneExportComplete
<1> QED
  BY LInvInit, LInvNext, <1>1, PTL DEF Spec

-----------------------------------------------------------------------------
(***************************************************************************)
(* The two breakdowns: every record adds the same to the totals and to the *)
(* sum over the backends, whether or not its backend was known.            *)
(***************************************************************************)
BreakdownInv == IsFiniteSet(DOMAIN backendMetrics) /\ Breakdown

\* What a record adds to the metrics of its backend.
Added(m) == [requests |-> 1, successes |-> One(m.success), failures |-> One(~m.success),
             timeouts |-> One(m.timeout), latency |-> m.latency]

Fields == {"requests", "successes", "failures", "latency"}

LEMMA RecordAdds ==
  ASSUME CollectorTypeOK, IsFiniteSet(DOMAIN backendMetrics), NEW m \in Records,
         RecordRequest(m.backend, m.latency, m.success, m.timeout, m.retried)
  PROVE  /\ IsFiniteSet(DOMAIN backendMetrics')
         /\ \A field \in Fields :
              SumOver(field) \in Int /\ SumOver(field)' = SumOver(field) + Added(m)[field]
<1> DEFINE bm == MetricsOf(m.backend)
           D == DOMAIN backendMetrics
           new == [requests  |-> bm.requests + 1,
                   successes |-> bm.successes + One(m.success),
                   failures  |-> bm.failures + One(~m.success),
                   timeouts  |-> bm.timeouts + One(m.timeout),
                   latency   |-> bm.latency + m.latency]
<1>1. m.latency \in Nat /\ \A b : One(b) \in Nat
  BY RecordsAssumption, LatenciesAssumption DEF One
<1>2. \A b \in D : backendMetrics[b] \in BackendMetrics
  BY DEF CollectorTypeOK, Range
<1>3. bm \in BackendMetrics
  BY <1>2 DEF MetricsOf, NoMetrics, BackendMetrics
<1>4. backendMetrics' = [b \in D \cup {m.backend} |-> IF b = m.backend THEN new ELSE backendMetrics[b]]
  BY DEF RecordRequest
<1>5. \A field \in Fields :
        bm[field] = IF m.backend \in D THEN backendMetrics[m.backend][field] ELSE 0
  BY DEF MetricsOf, NoMetrics, Fields
<1>6. \A field \in Fields : new[field] = bm[field] + Added(m)[field] /\ Added(m)[field] \in Int
  <2> HIDE DEF bm
  <2> QED
    BY <1>1, <1>3 DEF Fields, Added, BackendMetrics
<1>7. \A field \in Fields, b \in D : backendMetrics[b][field] \in Int
  BY <1>2 DEF Fields, BackendMetrics
<1>8. \A field \in Fields : bm[field] \in Int
  <2> HIDE DEF bm
  <2> QED
    BY <1>3 DEF Fields, BackendMetrics
<1> HIDE DEF bm, new
<1>9. ASSUME NEW field \in Fields
      PROVE  SumOver(field) \in Int /\ SumOver(field)' = SumOver(field) + Added(m)[field]
  <2> DEFINE fun == [b \in D |-> backendMetrics[b][field]]
             after == Updated(fun, D, m.backend, new[field])
  <2>1. fun \in [D -> Int]
    BY <1>7
  <2>2. new[field] \in Int
    BY <1>6, <1>8
  <2>3. TermAt(fun, D, m.backend) = bm[field]
    BY <1>5 DEF TermAt
  <2>4. SumOver(field) = SumFunction(fun)
    BY DEF SumOver
  <2>5. [b \in DOMAIN backendMetrics' |-> backendMetrics'[b][field]] = after
    BY <1>4 DEF Updated
  <2>6. SumOver(field)' = SumFunction(after)
    BY <2>5 DEF SumOver
  <2>7. /\ SumFunction(fun) \in Int
        /\ SumFunction(after) = (SumFunction(fun) - TermAt(fun, D, m.backend)) + new[field]
    <3>1. IsFiniteSet(D)
      OBVIOUS
    <3> HIDE DEF fun, D
    <3> QED
      BY <2>1, <2>2, <3>1, SumUpdate
  <2> HIDE DEF fun, after
  <2> QED
    BY <1>6, <1>8, <2>3, <2>4, <2>6, <2>7
<1>10. IsFiniteSet(DOMAIN backendMetrics')
  BY <1>4, FS_AddElement
<1> QED
  BY <1>9, <1>10

LEMMA BreakdownInit == Init => BreakdownInv
<1> SUFFICES ASSUME Init PROVE BreakdownInv
  OBVIOUS
<1>1. backendMetrics = <<>> /\ DOMAIN backendMetrics = {} /\ IsFiniteSet({})
  BY FS_EmptySet DEF Init, CollectorInit
<1>2. \A field : SumOver(field) = 0
  <2> SUFFICES ASSUME NEW field PROVE SumOver(field) = 0
    OBVIOUS
  <2> DEFINE fun == [b \in DOMAIN backendMetrics |-> backendMetrics[b][field]]
  <2>1. fun \in [{} -> Int]
    BY <1>1
  <2> HIDE DEF fun
  <2>2. SumFunction(fun) = 0
    BY <1>1, <2>1, SumProperties DEF PartialSums
  <2> QED
    BY <2>2 DEF SumOver, fun
<1>3. Breakdown
  BY <1>2 DEF Breakdown, Init, CollectorInit
<1> QED
  BY <1>1, <1>3 DEF BreakdownInv

LEMMA BreakdownNext ==
  ASSUME LifecycleTypeOK, BreakdownInv, [Next]_vars
  PROVE  BreakdownInv'
<1>1. CASE UNCHANGED <<totals, latencyCount, latencySum, backendMetrics>>
  BY <1>1 DEF BreakdownInv, Breakdown, SumOver
<1>2. ASSUME NEW m \in Records,
             RecordRequest(m.backend, m.latency, m.success, m.timeout, m.retried)
      PROVE  BreakdownInv'
  <2>1. CollectorTypeOK /\ IsFiniteSet(DOMAIN backendMetrics)
    BY DEF LifecycleTypeOK, BreakdownInv
  <2>2. /\ IsFiniteSet(DOMAIN backendMetrics')
        /\ \A field \in Fields :
             SumOver(field) \in Int /\ SumOver(field)' = SumOver(field) + Added(m)[field]
    BY <1>2, <2>1, RecordAdds
  <2>3. /\ SumOver("requests")' = SumOver("requests") + 1
        /\ SumOver("successes")' = SumOver("successes") + One(m.success)
        /\ SumOver("failures")' = SumOver("failures") + One(~m.success)
        /\ SumOver("latency")' = SumOver("latency") + m.latency
    BY <2>2 DEF Fields, Added
  <2>4. One(m.success) + One(~m.success) = 1 /\ One(m.success) \in Nat /\ One(~m.success) \in Nat
    BY RecordsAssumption DEF One
  <2>5. /\ totals.requests \in Nat /\ totals.successes \in Nat /\ totals.failures \in Nat
        /\ totals'.requests = totals.requests + 1
        /\ totals'.successes = totals.successes + One(m.success)
        /\ totals'.failures = totals.failures + One(~m.success)
        /\ latencyCount' = latencyCount + 1 /\ latencySum' = latencySum + m.latency
    BY <1>2, <2>1 DEF RecordRequest, CollectorTypeOK, Totals
  <2>6. Breakdown'
    BY <2>3, <2>4, <2>5 DEF BreakdownInv, Breakdown
  <2> QED
    BY <2>2, <2>6 DEF BreakdownInv
<1>3. \/ UNCHANGED <<totals, latencyCount, latencySum, backendMetrics>>
      \/ \E m \in Records :
           RecordRequest(m.backend, m.latency, m.success, m.timeout, m.retried)
  <2> USE DEF Goto, shutdownVars, fileVars, exportVars, collectorVars
  <2>1. CASE Listen \/ ListenFails \/ Signal \/ DeadlineExpires \/ StopTicking \/ Shutdown \/ Tick
    BY <2>1
    DEF Listen, ListenFails, Signal, DeadlineExpires, StopTicking, Tick, RecordTimeSeriesPoint,
        Shutdown, ShutdownServer, ShutdownMetricsServer, GetSummary, WriteFile, ExportCSV, Exit
  <2>2. ASSUME NEW e \in Exports, ExportStep(e)
        PROVE  UNCHANGED <<totals, latencyCount, latencySum, backendMetrics>>
    BY <2>2
  DEF ExportStep, CreateFile, WriteLine, WriteFails, CloseFile, FlushFails, ServeFile, EndExport
  <2>3. ASSUME NEW r \in Requests, Arrive(r) \/ Reject(r)
        PROVE  UNCHANGED <<totals, latencyCount, latencySum, backendMetrics>>
    BY <2>3 DEF Arrive, Reject
  <2>4. CASE WaitToWrite
    BY <2>4 DEF WaitToWrite, Wait
  <2>5. ASSUME NEW r \in Requests, Record(r)
        PROVE  \E m \in Records :
                 RecordRequest(m.backend, m.latency, m.success, m.timeout, m.retried)
    BY <2>5 DEF Record
  <2>6. CASE UNCHANGED vars
    BY <2>6 DEF vars
  <2> QED
    BY <2>1, <2>2, <2>3, <2>4, <2>5, <2>6 DEF Next
<1> QED
  BY <1>1, <1>2, <1>3

(***************************************************************************)
(* The totals are the sums over the backends, and successes and failures   *)
(* make up all requests, for any backends, records and draws: what a       *)
(* summary says as a whole is what its parts say.                          *)
(***************************************************************************)
THEOREM SummariesAddUp == Spec => []Breakdown
<1>1. BreakdownInv => Breakdown
  BY DEF BreakdownInv
<1> QED
  BY <1>1, BreakdownInit, BreakdownNext, LifecycleTypeCorrect, PTL DEF Spec

(***************************************************************************)
(* A percentile that GetSummary returns is never too small, for any limit  *)
(* of the reservoir and any latencies in it (PercentilesCover).            *)
(***************************************************************************)
THEOREM PercentilesAreLargeEnough == Spec => []PercentilesCover
<1>1. LifecycleTypeOK => PercentilesCover
  BY ReservoirPercentiles DEF LifecycleTypeOK
<1> QED
  BY <1>1, LifecycleTypeCorrect, PTL

(***************************************************************************)
(* The reservoir favours no request, early or late, for any limit and any  *)
(* number of records (UniformSample): Algorithm R draws fairly.            *)
(***************************************************************************)
THEOREM SamplesAreFair == Spec => []UniformSample
<1>1. LifecycleTypeOK => UniformSample
  BY ReservoirFair DEF LifecycleTypeOK
<1> QED
  BY <1>1, LifecycleTypeCorrect, PTL

=============================================================================
