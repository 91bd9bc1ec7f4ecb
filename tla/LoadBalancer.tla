---------------------------- MODULE LoadBalancer ----------------------------
(***************************************************************************)
(* One load balancer process as cmd/lb wires it: the proxy's goroutines,   *)
(* the DNS watchers and whatever reports backend health share one pool.    *)
(*                                                                         *)
(* The health checker, the Redis subscriber and the periodic Redis sync    *)
(* reach the pool through MarkHealthy alone; here they are a single source *)
(* of reports that may name any backend at any time.                       *)
(***************************************************************************)
EXTENDS Proxy, Discovery

CONSTANT
  Reports     \* the health statuses that are reported while the model runs

ASSUME ReportsAssumption == Reports \subseteq BOOLEAN

vars == <<poolVars, proxyVars, dns>>

TypeOK == PoolTypeOK /\ DiscoveryTypeOK /\ ProxyTypeOK

Init == PoolInit /\ DiscoveryInit /\ ProxyInit

HealthReport(u) ==
  /\ \E status \in Reports : MarkHealthy(u, status)
  /\ UNCHANGED <<proxyVars, dns>>

Next ==
  \/ ProxyNext /\ UNCHANGED dns
  \/ DiscoveryNext /\ UNCHANGED proxyVars
  \/ \E u \in URLs : HealthReport(u)

Spec == Init /\ [][Next]_vars

(***************************************************************************)
(* Fairness.  The Go scheduler runs every goroutine that is not blocked.   *)
(* An attempt ends: its context has a deadline, and a client that receives *)
(* an answer is assumed to read it or to hang up.  A watcher's ticker      *)
(* fires every five seconds.  Nothing obliges clients to send requests or  *)
(* to finish sending a body (the server has no read timeout), DNS to       *)
(* change or reports to arrive.                                            *)
(***************************************************************************)
Fairness ==
  /\ \A r \in Requests : WF_vars(pc[r] # "body" /\ ServeHTTP(r) /\ UNCHANGED dns)
  /\ \A tag \in Sources : WF_vars(syncDNS(tag) /\ UNCHANGED proxyVars)

FairSpec == Spec /\ Fairness

-----------------------------------------------------------------------------
(***************************************************************************)
(* Who is where.                                                           *)
(***************************************************************************)
InFlight == {r \in Requests : pc[r] \notin {"idle", "done"}}

\* Requests between the increment and the deferred decrement of activeRetries.
InRetry == {r \in Requests :
  \/ pc[r] \in {"retryAdd", "retryAttempt", "retryRecord", "deferConns", "deferRetries"}
  \/ pc[r] = "fail" /\ newBackendURL[r] # NoURL}

\* Requests between AddConnections(u, 1) and the matching RemoveConnections(u, 1).
OnWire(u) == {r \in Requests :
  \/ pc[r] \in {"attempt", "release"} /\ backendURL[r] = u
  \/ pc[r] \in {"retryAttempt", "retryRecord", "fail", "deferConns"} /\ newBackendURL[r] = u}

-----------------------------------------------------------------------------
(***************************************************************************)
(* Safety.                                                                 *)
(***************************************************************************)

(***************************************************************************)
(* The two counters that the retry budget divides are exact at all times:  *)
(* every path through ServeHTTP, whatever early return it takes, undoes    *)
(* its increments once and only after the work it counted.                 *)
(***************************************************************************)
CountersExact ==
  /\ activeRequests = Cardinality(InFlight)
  /\ activeRetries = Cardinality(InRetry)

(***************************************************************************)
(* A backend's connection counter never exceeds the requests that are on   *)
(* the wire to it, so that the entry of a backend that left DNS can always *)
(* drain; however entries come and go between the two calls that bracket   *)
(* an attempt.                                                             *)
(***************************************************************************)
ConnsWithinOnWire == \A u \in URLs : conns[u] <= Cardinality(OnWire(u))

(***************************************************************************)
(* A request is executed again only when that is safe: the method is       *)
(* idempotent, retries are enabled, nothing of a first answer has been     *)
(* written, the client is still there, and the second backend is another   *)
(* one.  There is no third execution.                                      *)
(***************************************************************************)
SafeReexecution ==
  \A r \in Requests :
    /\ Len(attempts[r]) <= 2
    /\ Len(attempts[r]) = 2 =>
         /\ RetriesEnabled /\ idempotent[r]
         /\ attempts[r][1].result \notin Delivered
         /\ ~isClientDisconnect(attempts[r][1].result)
         /\ attempts[r][1].backend # attempts[r][2].backend

(***************************************************************************)
(* The client gets at most one response head; in particular no http.Error  *)
(* after an answer whose body broke off, and no second attempt whose       *)
(* answer would follow a first one.                                        *)
(***************************************************************************)
OneResponse == \A r \in Requests : Len(responses[r]) <= 1

(***************************************************************************)
(* What the metrics say of a finished request is what its client saw: a    *)
(* forwarded request is recorded once, as a success exactly if a backend's *)
(* answer went out; a failure is answered 504, or not at all when the      *)
(* client is taken to be gone.  A request that was never forwarded is      *)
(* answered and not recorded.                                              *)
(***************************************************************************)
Answered(r) ==
  /\ Len(records[r]) = 1
  /\ \/ records[r][1].success /\ responses[r] = <<"backend">>
     \/ ~records[r][1].success /\ responses[r] = <<"504">>
     \/ /\ ~records[r][1].success /\ responses[r] = <<>>
        /\ Len(attempts[r]) = 1 /\ isClientDisconnect(attempts[r][1].result)

Rejected(r) ==
  /\ records[r] = <<>> /\ Len(responses[r]) = 1
  /\ responses[r][1] \in {"413", "500", "503"}

RecordedAsAnswered ==
  \A r \in Requests : pc[r] = "done" =>
    IF attempts[r] = <<>> THEN Rejected(r) ELSE Answered(r)

(***************************************************************************)
(* Liveness, under FairSpec.                                               *)
(***************************************************************************)

(***************************************************************************)
(* Every request whose body has been read is finished: no interleaving of  *)
(* pool updates leaves ServeHTTP without a way on.                         *)
(***************************************************************************)
RequestsFinish == \A r \in Requests : pc[r] = "check" ~> pc[r] = "done"

(***************************************************************************)
(* A backend that has left DNS for good, while its source still has some   *)
(* address, leaves the pool for good: draining cannot get stuck.           *)
(***************************************************************************)
LeftDNS(u) == u \notin dns[SourceOf[u]] /\ dns[SourceOf[u]] # {}

DrainCompletes ==
  \A u \in URLs : <>[]LeftDNS(u) => <>[](u \notin servers)

-----------------------------------------------------------------------------
(***************************************************************************)
(* What comments in the source say and the code does not do.  Each of      *)
(* these is refuted by a run of its own.                                   *)
(***************************************************************************)

(***************************************************************************)
(* models.go:20: ActiveConnections "tracks in-flight proxied requests", so *)
(* it is never negative.  An entry that is dropped and created again       *)
(* between AddConnections and RemoveConnections makes it so.               *)
(***************************************************************************)
ConnsNonNegative == \A u \in URLs : conns[u] >= 0

(***************************************************************************)
(* proxy.go:45: "max 20% of in-flight requests may be retries", granting   *)
(* the one retry that the check lets through whenever none is running.     *)
(***************************************************************************)
RetryBudgetKept == activeRetries <= 1 \/ 5 * activeRetries <= activeRequests

(***************************************************************************)
(* models.go:51: "A draining backend accepts no new requests".             *)
(***************************************************************************)
DrainingNotSelected ==
  [][\A r \in Requests :
        backendURL'[r] # backendURL[r] => ~draining[backendURL'[r]]]_vars

(***************************************************************************)
(* proxy.go:326: an error taken for a client disconnect "was caused by the *)
(* client disconnecting", so that a client that stays gets an answer.      *)
(***************************************************************************)
ConnectedClientAnswered ==
  \A r \in Requests :
    pc[r] = "done" /\ responses[r] = <<>> => LastResult(r) = "canceled"

(***************************************************************************)
(* metrics/interface.go:11,14,15: backend is "which backend served the     *)
(* request", timeout tells if "the failure was specifically a context      *)
(* deadline exceeded", retried if "this request was a retry attempt".  So  *)
(* a record describes one attempt, not the backend of one and the error of *)
(* another.                                                                *)
(***************************************************************************)
RecordsDescribeAttempts ==
  \A r \in Requests : \A i \in DOMAIN records[r] :
    \E j \in DOMAIN attempts[r] :
      /\ records[r][i].backend = attempts[r][j].backend
      /\ records[r][i].timeout <=> attempts[r][j].result = "timeout"
      /\ records[r][i].retried <=> j = 2

=============================================================================
