------------------------------ MODULE Lifecycle -----------------------------
(***************************************************************************)
(* One run of the process, from cmd/lb/main.go's ListenAndServe to its     *)
(* exit: requests that are recorded when they end, the time-series         *)
(* recorder, the exports of the metrics server, and the shutdown that a    *)
(* signal starts, which drains both servers for ten seconds at most and    *)
(* saves the metrics.                                                      *)
(***************************************************************************)
EXTENDS Collector

CONSTANTS
  Requests,   \* calls of ServeHTTP
  Records,    \* the arguments of RecordRequest that occur
  Exports,    \* those that send requests to /metrics/export, again and again
  MaxPoints   \* bound on the time series

ASSUME RecordsAssumption ==
  Records \subseteq [backend : URLs, latency : Latencies,
                     success : BOOLEAN, timeout : BOOLEAN, retried : BOOLEAN]
ASSUME MaxPointsAssumption == MaxPoints \in Nat

VARIABLES
  stage,      \* of the process: before ListenAndServe, or how far the shutdown is
  expired,    \* the ten seconds of the shutdown are over
  where,      \* per request: not there yet, in ServeHTTP, ended (413, 500 and
              \* 503 are not recorded)
  ticking,    \* the time-series recorder has not seen the cancelled context
  saved,      \* the summary in the output file
  summary,    \* what GetSummary has returned to the shutdown
  export,     \* per export: none, or how far it is
  series,     \* per export: the length of the time series when it took the lock
  written,    \* per export: the lines it has written
  file,       \* the lines that /tmp/metrics_export.csv has
  disturbed,  \* history: the exports during which another one was under way, and
              \* those whose last flush failed
  waiting     \* those that are blocked in the Lock of the collector's mutex

shutdownVars == <<stage, expired, saved, summary>>
fileVars == <<export, series, written, file, disturbed>>
exportVars == <<fileVars, waiting>>

vars == <<collectorVars, shutdownVars, where, ticking, exportVars>>

Stages == {"boot", "serving", "draining", "drainingMetrics", "summing", "saving",
           "savingCSV", "done", "exited"}

\* No summary yet, as totals that no run has.
NoSummary == [requests |-> 0, successes |-> 1, failures |-> 0, retries |-> 0]

LifecycleTypeOK ==
  /\ CollectorTypeOK /\ points <= MaxPoints
  /\ stage \in Stages /\ expired \in BOOLEAN /\ ticking \in BOOLEAN
  /\ where \in [Requests -> {"outside", "running", "recorded", "rejected"}]
  /\ {saved, summary} \subseteq Totals
  /\ export \in [Exports -> {"none", "writing", "written"}]
  /\ series \in [Exports -> 0 .. MaxPoints] /\ written \in [Exports -> 0 .. MaxPoints]
  /\ file \subseteq 1 .. MaxPoints
  /\ disturbed \subseteq Exports
  /\ waiting \subseteq Requests \cup {"recorder"}

Init ==
  /\ CollectorInit
  /\ stage = "boot" /\ expired = FALSE /\ ticking = TRUE
  /\ where = [r \in Requests |-> "outside"]
  /\ saved = NoSummary /\ summary = NoSummary
  /\ export = [e \in Exports |-> "none"]
  /\ series = [e \in Exports |-> 0] /\ written = [e \in Exports |-> 0]
  /\ file = {}
  /\ disturbed = {}
  /\ waiting = {}

-----------------------------------------------------------------------------
(***************************************************************************)
(* main.  The signal handler is in place before ListenAndServe: a signal   *)
(* that comes first makes it return at once.                               *)
(***************************************************************************)
Alive == stage # "exited"

Listen ==
  /\ stage = "boot" /\ stage' = "serving"
  /\ UNCHANGED <<collectorVars, expired, saved, summary, where, ticking, exportVars>>

\* log.Fatal: nothing is saved.
ListenFails ==
  /\ stage = "boot" /\ stage' = "exited"
  /\ UNCHANGED <<collectorVars, expired, saved, summary, where, ticking, exportVars>>

-----------------------------------------------------------------------------
(***************************************************************************)
(* Requests.  The collector's RWMutex has readers: while an export writes  *)
(* its file nothing is recorded.  Who wants to write meanwhile waits, and  *)
(* as long as somebody waits no new reader gets in.                        *)
(***************************************************************************)
Unread == \A e \in Exports : export[e] # "writing"

Wait(who) ==
  /\ Alive /\ ~Unread /\ who \notin waiting
  /\ waiting' = waiting \cup {who}
  /\ UNCHANGED <<collectorVars, shutdownVars, where, ticking, fileVars>>

\* Shutdown waits for a connection that the listener has just accepted, too.
Arrive(r) ==
  /\ stage \in {"serving", "draining"} /\ where[r] = "outside"
  /\ where' = [where EXCEPT ![r] = "running"]
  /\ UNCHANGED <<collectorVars, shutdownVars, ticking, exportVars>>

\* What ServeHTTP does after the record, answering and counting down, is left out.
Record(r) ==
  /\ Alive /\ where[r] = "running" /\ Unread
  /\ where' = [where EXCEPT ![r] = "recorded"]
  /\ \E m \in Records : RecordRequest(m.backend, m.latency, m.success, m.timeout, m.retried)
  /\ waiting' = waiting \ {r}
  /\ UNCHANGED <<shutdownVars, ticking, fileVars>>

Reject(r) ==
  /\ Alive /\ where[r] = "running" /\ r \notin waiting
  /\ where' = [where EXCEPT ![r] = "rejected"]
  /\ UNCHANGED <<collectorVars, shutdownVars, ticking, exportVars>>

\* The recorder chooses freely between a tick and the cancelled context.
Tick ==
  /\ Alive /\ ticking /\ Unread /\ points < MaxPoints
  /\ RecordTimeSeriesPoint
  /\ waiting' = waiting \ {"recorder"}
  /\ UNCHANGED <<shutdownVars, where, ticking, fileVars>>

WaitToWrite ==
  \/ \E r \in Requests : where[r] = "running" /\ Wait(r)
  \/ ticking /\ points < MaxPoints /\ Wait("recorder")

StopTicking ==
  /\ Alive /\ ticking /\ stage \notin {"boot", "serving"} /\ "recorder" \notin waiting
  /\ ticking' = FALSE
  /\ UNCHANGED <<collectorVars, shutdownVars, where, exportVars>>

-----------------------------------------------------------------------------
(***************************************************************************)
(* /metrics/export: ExportCSV creates the file, which empties it, writes   *)
(* the lines under the read lock and closes it; then the handler serves    *)
(* it.  All exports use the same file.  An error of the Create or of a     *)
(* Write is answered with 500: after the Create nothing has changed, which *)
(* is no step here, after a Write the file is left as it is.  An error of  *)
(* the deferred Flush is not seen.                                         *)
(***************************************************************************)
UnderWay(e) == export[e] # "none"

\* The answer is out.
EndExport(e) ==
  /\ export' = [export EXCEPT ![e] = "none"]
  /\ series' = [series EXCEPT ![e] = 0] /\ written' = [written EXCEPT ![e] = 0]
  /\ disturbed' = disturbed \ {e}
  /\ UNCHANGED <<collectorVars, shutdownVars, where, ticking, file, waiting>>

CreateFile(e) ==
  /\ stage \in {"boot", "serving", "draining", "drainingMetrics"}
  /\ export[e] = "none" /\ waiting = {}
  /\ export' = [export EXCEPT ![e] = "writing"]
  /\ series' = [series EXCEPT ![e] = points]
  /\ file' = {}
  /\ disturbed' = LET others == {d \in Exports : UnderWay(d)}
                  IN  disturbed \cup others \cup (IF others = {} THEN {} ELSE {e})
  /\ UNCHANGED <<collectorVars, shutdownVars, where, ticking, written, waiting>>

WriteLine(e) ==
  /\ Alive /\ export[e] = "writing" /\ written[e] < series[e]
  /\ written' = [written EXCEPT ![e] = @ + 1]
  /\ file' = file \cup {written[e] + 1}
  /\ UNCHANGED <<collectorVars, shutdownVars, where, ticking, export, series, disturbed, waiting>>

WriteFails(e) ==
  /\ Alive /\ export[e] = "writing"
  /\ EndExport(e)

\* Mutant of CloseFile: the file is closed before the writer is flushed.
CloseFile_Unflushed(e) ==
  /\ Alive /\ export[e] = "writing"
  /\ export' = [export EXCEPT ![e] = "written"]
  /\ UNCHANGED <<collectorVars, shutdownVars, where, ticking, series, written, file, disturbed, waiting>>

\* The deferred Flush runs before the deferred Close.
CloseFile(e) ==
  /\ Alive /\ export[e] = "writing" /\ written[e] = series[e]
  /\ export' = [export EXCEPT ![e] = "written"]
  /\ UNCHANGED <<collectorVars, shutdownVars, where, ticking, series, written, file, disturbed, waiting>>

\* The points from k on are lost, and ExportCSV returns no error.
FlushFails(e) ==
  /\ Alive /\ export[e] = "writing" /\ written[e] = series[e]
  /\ export' = [export EXCEPT ![e] = "written"]
  /\ \E k \in 1 .. series[e] : file' = file \ (k .. series[e])
  /\ disturbed' = disturbed \cup {e}
  /\ UNCHANGED <<collectorVars, shutdownVars, where, ticking, series, written, waiting>>

ServeFile(e) ==
  /\ Alive /\ export[e] = "written"
  /\ EndExport(e)

ExportStep(e) ==
  \/ CreateFile(e) \/ WriteLine(e) \/ WriteFails(e)
  \/ CloseFile(e) \/ FlushFails(e) \/ ServeFile(e)

-----------------------------------------------------------------------------
(***************************************************************************)
(* setupGracefulShutdown.  server.Shutdown closes the listener and waits   *)
(* for the requests, metricsServer.Shutdown for the exports, both until    *)
(* the one deadline; what is still running then runs on until main ends.   *)
(***************************************************************************)
Goto(next) ==
  /\ stage' = next
  /\ UNCHANGED <<collectorVars, where, ticking, exportVars>>

\* A server that does not listen yet has nothing to drain.
Signal ==
  /\ \/ stage = "boot" /\ Goto("drainingMetrics")
     \/ stage = "serving" /\ Goto("draining")
  /\ UNCHANGED <<expired, saved, summary>>

\* Mutant of DeadlineExpires: the context of the shutdown has no deadline.
DeadlineExpires_Never == FALSE /\ UNCHANGED vars

DeadlineExpires ==
  /\ stage \in {"draining", "drainingMetrics"} /\ ~expired
  /\ expired' = TRUE
  /\ UNCHANGED <<collectorVars, stage, saved, summary, where, ticking, exportVars>>

\* Mutant of ShutdownServer: it is not waited for.
ShutdownServer_Async ==
  /\ stage = "draining"
  /\ Goto("drainingMetrics")
  /\ UNCHANGED <<expired, saved, summary>>

ShutdownServer ==
  /\ stage = "draining"
  /\ expired \/ \A r \in Requests : where[r] # "running"
  /\ Goto("drainingMetrics")
  /\ UNCHANGED <<expired, saved, summary>>

ShutdownMetricsServer ==
  /\ stage = "drainingMetrics"
  /\ expired \/ \A e \in Exports : ~UnderWay(e)
  /\ Goto("summing")
  /\ UNCHANGED <<expired, saved, summary>>

GetSummary ==
  /\ stage = "summing" /\ waiting = {}
  /\ summary' = totals
  /\ Goto("saving")
  /\ UNCHANGED <<expired, saved>>

\* Errors of the two files are logged only.
WriteFile ==
  /\ stage = "saving"
  /\ saved' \in {saved, summary}
  /\ Goto("savingCSV")
  /\ UNCHANGED <<expired, summary>>

\* The time series that it writes is not looked at by any property.
ExportCSV ==
  /\ stage = "savingCSV" /\ waiting = {}
  /\ Goto("done")
  /\ UNCHANGED <<expired, saved, summary>>

Exit ==
  /\ stage = "done"
  /\ Goto("exited")
  /\ UNCHANGED <<expired, saved, summary>>

Shutdown ==
  \/ ShutdownServer \/ ShutdownMetricsServer \/ GetSummary \/ WriteFile \/ ExportCSV \/ Exit

-----------------------------------------------------------------------------
Next ==
  \/ Listen \/ ListenFails \/ Signal \/ DeadlineExpires \/ Shutdown
  \/ Tick \/ StopTicking \/ WaitToWrite
  \/ \E r \in Requests : Arrive(r) \/ Record(r) \/ Reject(r)
  \/ \E e \in Exports : ExportStep(e)

Spec == Init /\ [][Next]_vars

(***************************************************************************)
(* The handler's goroutine runs on and its timer fires; an export that has *)
(* the lock gets its lines into the file, and who waits for the lock gets  *)
(* it.  Nothing else is assumed of requests, exports and the recorder:     *)
(* they may hang.                                                          *)
(***************************************************************************)
LockMovesOn ==
  \/ \E e \in Exports : WriteLine(e) \/ CloseFile(e) \/ WriteFails(e) \/ FlushFails(e)
  \/ waiting # {} /\ (Tick \/ \E r \in waiting \cap Requests : Record(r))

FairSpec ==
  Spec /\ WF_vars(Shutdown) /\ WF_vars(DeadlineExpires) /\ WF_vars(LockMovesOn)

-----------------------------------------------------------------------------
(***************************************************************************)
(* "Experiment data is not lost" by a shutdown: when the drain ended in    *)
(* time, the summary that is saved counts every request the process ever   *)
(* took in and forwarded, and nothing is recorded after it.                *)
(***************************************************************************)
DrainedCounted ==
  saved # NoSummary /\ ~expired =>
    /\ saved = totals
    /\ \A r \in Requests : where[r] # "running"
    /\ saved.requests = Cardinality({r \in Requests : where[r] = "recorded"})

(***************************************************************************)
(* An export that no other one overlaps and whose flush does not fail      *)
(* sends every point that had been recorded when it took the lock, and no  *)
(* more: the file is complete from when it is written to when it is        *)
(* served, whatever the recorder and the requests do meanwhile, and        *)
(* whatever earlier or failed exports left in the file.                    *)
(***************************************************************************)
LoneExportComplete ==
  \A e \in Exports :
    export[e] = "written" /\ e \notin disturbed => file = 1 .. series[e]

(***************************************************************************)
(* The process ends after a signal, also when requests or the clients of   *)
(* exports hang, and although the summary waits for everyone who waits to  *)
(* write, who wait for the exports that write their file.                  *)
(***************************************************************************)
ExitsAfterSignal == (stage \in {"draining", "drainingMetrics"}) ~> (stage = "exited")

=============================================================================
