-------------------------------- MODULE Proxy -------------------------------
(***************************************************************************)
(* internal/proxy: ServeHTTP run by one goroutine per request, over the    *)
(* shared pool.  A step is one access to state that other goroutines see   *)
(* (the pool, the two atomic counters, the metrics collector, the backend);*)
(* the code between two accesses belongs to the step before it.            *)
(*                                                                         *)
(* A request of this model is one call of ServeHTTP: it runs once.  The    *)
(* body, the headers and the URL path are left out; what the control flow  *)
(* depends on is kept: whether the method is idempotent and how each       *)
(* attempt ends.                                                           *)
(***************************************************************************)
EXTENDS Pool, Sequences, FiniteSets

CONSTANTS
  Requests,         \* calls of ServeHTTP
  RetriesEnabled,   \* load_balancer.retries_enabled
  Outcomes,         \* the ways an attempt can end here, a subset of Results
  NoURL             \* "not selected"

ASSUME RequestsAssumption == IsFiniteSet(Requests)
ASSUME RetriesAssumption == RetriesEnabled \in BOOLEAN
ASSUME NoURLAssumption == NoURL \notin URLs

VARIABLES
  pc,               \* where each call of ServeHTTP is
  idempotent,       \* isIdempotent(r.Method)
  backendURL,       \* target of the first attempt
  newBackendURL,    \* target of the retry
  currentTotal,     \* activeRequests as loaded by the retry budget check
  attempts,         \* finished calls of proxyRequest: where and how each ended
  responses,        \* the response heads written to the client, in order
  records,          \* the calls of collector.RecordRequest
  downUpdates,      \* calls that started a goroutine publishing "DOWN"
  activeRequests,   \* ReverseProxy.activeRequests
  activeRetries     \* ReverseProxy.activeRetries

callVars == <<idempotent, backendURL, newBackendURL, currentTotal, attempts,
              responses, records, downUpdates>>
counterVars == <<activeRequests, activeRetries>>
proxyVars == <<pc, callVars, counterVars>>

(***************************************************************************)
(* How an attempt can end.  "ok": a response below 500, copied to the      *)
(* client.  "truncated": its head was written but copying the body failed. *)
(* The others return an error before anything is written: a 5xx response,  *)
(* the deadline, a transport error, a transport error whose text says that *)
(* the connection was reset, and the client's own cancellation.            *)
(***************************************************************************)
Delivered == {"ok", "truncated"}
Failures == {"serverError", "timeout", "refused", "reset", "canceled"}
Results == Delivered \cup Failures

ASSUME OutcomesAssumption == Outcomes \subseteq Results

Attempt == [backend : URLs, result : Results]
Record == [backend : URLs, success : BOOLEAN, timeout : BOOLEAN, retried : BOOLEAN]
Status == {"backend", "413", "500", "503", "504"}

\* The control points, in program order.
BeforeForward == {"body", "check", "select", "add"}
Forwarding == {"attempt", "release", "record"}
Deciding == {"loadTotal", "loadRetries", "debounce", "markDown", "reselect"}
Retrying == {"retryCount", "retryAdd", "retryAttempt", "retryRecord"}
Deferred == {"deferConns", "deferRetries", "deferRequest"}
Labels == {"idle", "fail", "done"} \cup BeforeForward \cup Forwarding
            \cup Deciding \cup Retrying \cup Deferred

ProxyTypeOK ==
  /\ pc \in [Requests -> Labels]
  /\ idempotent \in [Requests -> BOOLEAN]
  /\ backendURL \in [Requests -> URLs \cup {NoURL}]
  /\ newBackendURL \in [Requests -> URLs \cup {NoURL}]
  /\ currentTotal \in [Requests -> Int]
  /\ attempts \in [Requests -> Seq(Attempt)]
  /\ responses \in [Requests -> Seq(Status)]
  /\ records \in [Requests -> Seq(Record)]
  /\ downUpdates \subseteq Requests
  /\ activeRequests \in Int
  /\ activeRetries \in Int

ProxyInit ==
  /\ pc = [r \in Requests |-> "idle"]
  /\ idempotent = [r \in Requests |-> FALSE]
  /\ backendURL = [r \in Requests |-> NoURL]
  /\ newBackendURL = [r \in Requests |-> NoURL]
  /\ currentTotal = [r \in Requests |-> 0]
  /\ attempts = [r \in Requests |-> <<>>]
  /\ responses = [r \in Requests |-> <<>>]
  /\ records = [r \in Requests |-> <<>>]
  /\ downUpdates = {}
  /\ activeRequests = 0
  /\ activeRetries = 0

-----------------------------------------------------------------------------
(***************************************************************************)
(* Pieces of the handler.                                                  *)
(***************************************************************************)
Goto(r, from, to) == pc[r] = from /\ pc' = [pc EXCEPT ![r] = to]

\* http.Error and w.WriteHeader: a response head goes out.
Respond(r, status) == responses' = [responses EXCEPT ![r] = Append(@, status)]

RecordRequest(r, u, success, timeout, retried) ==
  records' = [records EXCEPT ![r] =
    Append(@, [backend |-> u, success |-> success, timeout |-> timeout, retried |-> retried])]

\* err of the last attempt, as ServeHTTP sees it.
LastResult(r) == attempts[r][Len(attempts[r])].result

\* context.Canceled, or an error text about a reset connection or broken pipe.
isClientDisconnect(result) == result \in {"canceled", "reset"}

\* float64(retries) / float64(total) > 0.20
BudgetExceeded(retries, total) == total > 0 /\ 5 * retries > total

\* The healthy backends other than u that have the fewest connections.
RetryCandidates(u) == GetHealthy \ {u}
selectDifferent(u) ==
  {v \in RetryCandidates(u) : \A w \in RetryCandidates(u) : conns[v] <= conns[w]}

(***************************************************************************)
(* proxyRequest(w, r, u): the backend, the network and the client decide   *)
(* how it ends; the head is written exactly when no error is returned.     *)
(***************************************************************************)
proxyRequest(r, u, result) ==
  /\ attempts' = [attempts EXCEPT ![r] = Append(@, [backend |-> u, result |-> result])]
  /\ IF result \in Delivered THEN Respond(r, "backend") ELSE UNCHANGED responses

-----------------------------------------------------------------------------
(***************************************************************************)
(* ServeHTTP up to the first attempt.                                      *)
(***************************************************************************)
Arrive(r) ==
  /\ Goto(r, "idle", "body")
  /\ activeRequests' = activeRequests + 1
  /\ \E b \in BOOLEAN : idempotent' = [idempotent EXCEPT ![r] = b]
  /\ UNCHANGED <<poolVars, activeRetries, backendURL, newBackendURL, currentTotal,
                 attempts, responses, records, downUpdates>>

BufferBody(r) ==
  /\ Goto(r, "body", "check")
  /\ UNCHANGED <<poolVars, callVars, counterVars>>

\* The body is larger than maxBodySize (413), or reading or closing it fails.
RejectBody(r) ==
  /\ Goto(r, "body", "deferRequest")
  /\ \E status \in {"413", "500"} : Respond(r, status)
  /\ UNCHANGED <<poolVars, counterVars, idempotent, backendURL, newBackendURL,
                 currentTotal, attempts, records, downUpdates>>

CheckHealthy(r) ==
  /\ Goto(r, "check", "select")
  /\ GetHealthy # {}
  /\ UNCHANGED <<poolVars, callVars, counterVars>>

\* Mutant of NoHealthyBackends: the error of GetTarget is ignored.
NoHealthyBackends_Early(r) ==
  /\ Goto(r, "check", "deferRequest")
  /\ GetHealthy = {}
  /\ Respond(r, "503")
  /\ UNCHANGED <<poolVars, counterVars, idempotent, backendURL, newBackendURL,
                 currentTotal, attempts, records, downUpdates>>

(***************************************************************************)
(* The early exit, and the error of GetTarget when the last healthy        *)
(* backend went away after the first look.                                 *)
(***************************************************************************)
NoHealthyBackends(r) ==
  /\ Goto(r, "check", "deferRequest") \/ Goto(r, "select", "deferRequest")
  /\ GetHealthy = {}
  /\ Respond(r, "503")
  /\ UNCHANGED <<poolVars, counterVars, idempotent, backendURL, newBackendURL,
                 currentTotal, attempts, records, downUpdates>>

(***************************************************************************)
(* algo.GetTarget, any algorithm: a backend that was healthy when the      *)
(* algorithm looked at the pool (the contract of algorithms.Rule).         *)
(***************************************************************************)
GetTarget(r) ==
  /\ Goto(r, "select", "add")
  /\ \E u \in GetHealthy : backendURL' = [backendURL EXCEPT ![r] = u]
  /\ UNCHANGED <<poolVars, counterVars, idempotent, newBackendURL, currentTotal,
                 attempts, responses, records, downUpdates>>

AddFirst(r) ==
  /\ Goto(r, "add", "attempt")
  /\ AddConnections(backendURL[r], 1)
  /\ UNCHANGED <<callVars, counterVars>>

FirstAttempt(r) ==
  /\ Goto(r, "attempt", "release")
  /\ \E result \in Outcomes : proxyRequest(r, backendURL[r], result)
  /\ UNCHANGED <<poolVars, counterVars, idempotent, backendURL, newBackendURL,
                 currentTotal, records, downUpdates>>

\* Mutants of AfterFirst: retry any method; take a broken-off body for a failure.
AfterFirst_AnyMethod(r) ==
  IF LastResult(r) \in Delivered \/ isClientDisconnect(LastResult(r)) THEN "record"
  ELSE IF RetriesEnabled THEN "loadTotal" ELSE "fail"
AfterFirst_CopyError(r) ==
  IF LastResult(r) = "ok" \/ isClientDisconnect(LastResult(r)) THEN "record"
  ELSE IF RetriesEnabled /\ idempotent[r] THEN "loadTotal" ELSE "fail"

(***************************************************************************)
(* RemoveConnections, then the decisions that read no shared state: done,  *)
(* client gone, retry allowed for this method, or give up.                 *)
(***************************************************************************)
AfterFirst(r) ==
  IF LastResult(r) \in Delivered \/ isClientDisconnect(LastResult(r)) THEN "record"
  ELSE IF RetriesEnabled /\ idempotent[r] THEN "loadTotal" ELSE "fail"

\* Mutant of ReleaseFirst: the counter is given back only after a success.
ReleaseFirst_OnSuccess(r) ==
  /\ Goto(r, "release", AfterFirst(r))
  /\ IF LastResult(r) \in Delivered THEN RemoveConnections(backendURL[r], 1)
                                    ELSE UNCHANGED poolVars
  /\ UNCHANGED <<callVars, counterVars>>

ReleaseFirst(r) ==
  /\ Goto(r, "release", AfterFirst(r))
  /\ RemoveConnections(backendURL[r], 1)
  /\ UNCHANGED <<callVars, counterVars>>

\* Mutant of RecordFirst: a client that went away counts as a success.
RecordFirst_Success(r) ==
  /\ Goto(r, "record", "deferRequest")
  /\ RecordRequest(r, backendURL[r], TRUE, FALSE, FALSE)
  /\ UNCHANGED <<poolVars, counterVars, idempotent, backendURL, newBackendURL,
                 currentTotal, attempts, responses, downUpdates>>

\* Success, or a client that went away: recorded, nothing more is written.
RecordFirst(r) ==
  /\ Goto(r, "record", "deferRequest")
  /\ RecordRequest(r, backendURL[r], LastResult(r) \in Delivered, FALSE, FALSE)
  /\ UNCHANGED <<poolVars, counterVars, idempotent, backendURL, newBackendURL,
                 currentTotal, attempts, responses, downUpdates>>

-----------------------------------------------------------------------------
(***************************************************************************)
(* The retry of an idempotent request.  The two counters of the budget are *)
(* loaded one after the other.                                             *)
(***************************************************************************)
LoadTotal(r) ==
  /\ Goto(r, "loadTotal", "loadRetries")
  /\ currentTotal' = [currentTotal EXCEPT ![r] = activeRequests]
  /\ UNCHANGED <<poolVars, counterVars, idempotent, backendURL, newBackendURL,
                 attempts, responses, records, downUpdates>>

CheckBudget(r) ==
  /\ Goto(r, "loadRetries",
          IF BudgetExceeded(activeRetries, currentTotal[r]) THEN "fail" ELSE "debounce")
  /\ currentTotal' = [currentTotal EXCEPT ![r] = 0]   \* not read again
  /\ UNCHANGED <<poolVars, counterVars, idempotent, backendURL, newBackendURL,
                 attempts, responses, records, downUpdates>>

\* alreadyDown: an entry of the failed backend is already unhealthy.
Debounce(r) ==
  /\ Goto(r, "debounce",
          IF backendURL[r] \in servers /\ ~healthy[backendURL[r]] THEN "reselect" ELSE "markDown")
  /\ UNCHANGED <<poolVars, callVars, counterVars>>

\* MarkHealthy(backendURL, false) and go UpdateBackendStatus(..., "DOWN").
MarkDown(r) ==
  /\ Goto(r, "markDown", "reselect")
  /\ MarkHealthy(backendURL[r], FALSE)
  /\ downUpdates' = downUpdates \cup {r}
  /\ UNCHANGED <<counterVars, idempotent, backendURL, newBackendURL, currentTotal,
                 attempts, responses, records>>

SelectDifferent(r) ==
  /\ Goto(r, "reselect", "retryCount")
  /\ \E v \in selectDifferent(backendURL[r]) :
        newBackendURL' = [newBackendURL EXCEPT ![r] = v]
  /\ UNCHANGED <<poolVars, counterVars, idempotent, backendURL, currentTotal,
                 attempts, responses, records, downUpdates>>

NoRetryTarget(r) ==
  /\ Goto(r, "reselect", "fail")
  /\ selectDifferent(backendURL[r]) = {}
  /\ UNCHANGED <<poolVars, callVars, counterVars>>

CountRetry(r) ==
  /\ Goto(r, "retryCount", "retryAdd")
  /\ activeRetries' = activeRetries + 1
  /\ UNCHANGED <<poolVars, callVars, activeRequests>>

AddRetry(r) ==
  /\ Goto(r, "retryAdd", "retryAttempt")
  /\ AddConnections(newBackendURL[r], 1)
  /\ UNCHANGED <<callVars, counterVars>>

RetryAttempt(r) ==
  /\ \E result \in Outcomes :
        /\ Goto(r, "retryAttempt", IF result \in Delivered THEN "retryRecord" ELSE "fail")
        /\ proxyRequest(r, newBackendURL[r], result)
  /\ UNCHANGED <<poolVars, counterVars, idempotent, backendURL, newBackendURL,
                 currentTotal, records, downUpdates>>

RecordRetry(r) ==
  /\ Goto(r, "retryRecord", "deferConns")
  /\ RecordRequest(r, newBackendURL[r], TRUE, FALSE, TRUE)
  /\ UNCHANGED <<poolVars, counterVars, idempotent, backendURL, newBackendURL,
                 currentTotal, attempts, responses, downUpdates>>

-----------------------------------------------------------------------------
\* Mutant of GatewayTimeout: a failed retry returns past the deferred calls.
GatewayTimeout_NoDefer(r) ==
  /\ Goto(r, "fail", "deferRequest")
  /\ RecordRequest(r, backendURL[r], FALSE, LastResult(r) = "timeout", FALSE)
  /\ Respond(r, "504")
  /\ UNCHANGED <<poolVars, counterVars, idempotent, backendURL, newBackendURL,
                 currentTotal, attempts, downUpdates>>

(***************************************************************************)
(* Every attempt failed: record against the first backend, answer 504.     *)
(* Then the deferred calls run, the last deferred first.                   *)
(***************************************************************************)
GatewayTimeout(r) ==
  /\ Goto(r, "fail", IF newBackendURL[r] = NoURL THEN "deferRequest" ELSE "deferConns")
  /\ RecordRequest(r, backendURL[r], FALSE, LastResult(r) = "timeout", FALSE)
  /\ Respond(r, "504")
  /\ UNCHANGED <<poolVars, counterVars, idempotent, backendURL, newBackendURL,
                 currentTotal, attempts, downUpdates>>

DeferConns(r) ==
  /\ Goto(r, "deferConns", "deferRetries")
  /\ RemoveConnections(newBackendURL[r], 1)
  /\ UNCHANGED <<callVars, counterVars>>

DeferRetries(r) ==
  /\ Goto(r, "deferRetries", "deferRequest")
  /\ activeRetries' = activeRetries - 1
  /\ UNCHANGED <<poolVars, callVars, activeRequests>>

DeferRequest(r) ==
  /\ Goto(r, "deferRequest", "done")
  /\ activeRequests' = activeRequests - 1
  /\ UNCHANGED <<poolVars, callVars, activeRetries>>

\* What the goroutine of r does next, once the request has arrived.
ServeHTTP(r) ==
  \/ BufferBody(r) \/ RejectBody(r) \/ CheckHealthy(r) \/ NoHealthyBackends(r)
  \/ GetTarget(r) \/ AddFirst(r) \/ FirstAttempt(r) \/ ReleaseFirst(r) \/ RecordFirst(r)
  \/ LoadTotal(r) \/ CheckBudget(r) \/ Debounce(r) \/ MarkDown(r)
  \/ SelectDifferent(r) \/ NoRetryTarget(r) \/ CountRetry(r) \/ AddRetry(r)
  \/ RetryAttempt(r) \/ RecordRetry(r) \/ GatewayTimeout(r)
  \/ DeferConns(r) \/ DeferRetries(r) \/ DeferRequest(r)

ProxyNext == \E r \in Requests : Arrive(r) \/ ServeHTTP(r)

=============================================================================
