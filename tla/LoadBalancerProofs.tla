------------------------- MODULE LoadBalancerProofs -------------------------
(***************************************************************************)
(* Theorems about LoadBalancer, for any number of requests, backends and   *)
(* sources.                                                                *)
(***************************************************************************)
EXTENDS LoadBalancer, TLAPS, FiniteSetTheorems, SequenceTheorems

-----------------------------------------------------------------------------
(***************************************************************************)
(* What has happened to a request by the time it is at each control point. *)
(* This is what the type of attempts needs (the target of an attempt is a  *)
(* URL) and what the claims about a finished request follow from.          *)
(***************************************************************************)
Untried(r) ==
  /\ newBackendURL[r] = NoURL
  /\ attempts[r] = <<>> /\ responses[r] = <<>> /\ records[r] = <<>>

\* The first attempt has ended and nothing was recorded yet.
TriedOnce(r) ==
  /\ backendURL[r] \in URLs
  /\ Len(attempts[r]) = 1 /\ attempts[r][1].backend = backendURL[r]
  /\ records[r] = <<>>
  /\ responses[r] = IF attempts[r][1].result \in Delivered THEN <<"backend">> ELSE <<>>

FailedOnce(r) ==
  /\ TriedOnce(r)
  /\ attempts[r][1].result \notin Delivered
  /\ ~isClientDisconnect(attempts[r][1].result)

MayRetry(r) == FailedOnce(r) /\ RetriesEnabled /\ idempotent[r]

RetryChosen(r) == newBackendURL[r] \in URLs /\ newBackendURL[r] # backendURL[r]

\* The first attempt failed and the retry has ended.
TriedTwice(r) ==
  /\ RetriesEnabled /\ idempotent[r]
  /\ RetryChosen(r) /\ backendURL[r] \in URLs
  /\ Len(attempts[r]) = 2
  /\ attempts[r][1].backend = backendURL[r]
  /\ attempts[r][2].backend = newBackendURL[r]
  /\ attempts[r][1].result \notin Delivered
  /\ ~isClientDisconnect(attempts[r][1].result)

Finished(r) ==
  \/ attempts[r] = <<>> /\ Rejected(r)
  \/ Len(attempts[r]) = 1 /\ Answered(r)
  \/ TriedTwice(r) /\ Answered(r)

Control(r) ==
  /\ pc[r] \in {"idle", "body", "check", "select"} => Untried(r)
  /\ pc[r] \in {"add", "attempt"} => Untried(r) /\ backendURL[r] \in URLs
  /\ pc[r] \in {"release", "record"} => TriedOnce(r) /\ newBackendURL[r] = NoURL
  /\ pc[r] = "record" =>
       \/ attempts[r][1].result \in Delivered
       \/ isClientDisconnect(attempts[r][1].result)
  /\ pc[r] \in Deciding => MayRetry(r) /\ newBackendURL[r] = NoURL
  /\ pc[r] \in {"retryCount", "retryAdd", "retryAttempt"} => MayRetry(r) /\ RetryChosen(r)
  /\ pc[r] = "retryRecord" =>
       /\ TriedTwice(r) /\ attempts[r][2].result \in Delivered
       /\ responses[r] = <<"backend">> /\ records[r] = <<>>
  /\ pc[r] = "fail" =>
       \/ FailedOnce(r) /\ newBackendURL[r] = NoURL
       \/ /\ TriedTwice(r) /\ attempts[r][2].result \notin Delivered
          /\ responses[r] = <<>> /\ records[r] = <<>>
  /\ pc[r] \in {"deferConns", "deferRetries"} => TriedTwice(r) /\ Answered(r)
  /\ pc[r] \in {"deferRequest", "done"} => Finished(r)

ControlInv == \A r \in Requests : Control(r)

IInv == TypeOK /\ ControlInv

-----------------------------------------------------------------------------
(***************************************************************************)
(* Every operation of the pool keeps its type: in particular, no call      *)
(* leaves a flag or a counter behind for a backend without an entry.       *)
(***************************************************************************)
LEMMA PoolOperations ==
  ASSUME PoolTypeOK
  PROVE  /\ \A u, status : status \in BOOLEAN /\ MarkHealthy(u, status) => PoolTypeOK'
         /\ \A u, n : n \in Int /\ AddConnections(u, n) => PoolTypeOK'
         /\ \A u, n : n \in Int /\ RemoveConnections(u, n) => PoolTypeOK'
         /\ \A tag, active :
              active \subseteq URLs /\ SyncServersBySource(tag, active) => PoolTypeOK'
         /\ UNCHANGED poolVars => PoolTypeOK'
<1>1. ASSUME NEW u, NEW status \in BOOLEAN, MarkHealthy(u, status)
      PROVE  PoolTypeOK'
  BY <1>1 DEF PoolTypeOK, MarkHealthy
<1>2. ASSUME NEW u, NEW n \in Int, AddConnections(u, n)
      PROVE  PoolTypeOK'
  BY <1>2 DEF PoolTypeOK, AddConnections
<1>3. ASSUME NEW u, NEW n \in Int, RemoveConnections(u, n)
      PROVE  PoolTypeOK'
  BY <1>3 DEF PoolTypeOK, RemoveConnections
<1>4. ASSUME NEW tag, NEW active \in SUBSET URLs, SyncServersBySource(tag, active)
      PROVE  PoolTypeOK'
  BY <1>4 DEF PoolTypeOK, SyncServersBySource, Reconcile, StartsDraining, Dropped
<1>5. UNCHANGED poolVars => PoolTypeOK'
  BY DEF PoolTypeOK, poolVars
<1> QED
  BY <1>1, <1>2, <1>3, <1>4, <1>5

(***************************************************************************)
(* A request that a step does not touch stays where it is.                 *)
(***************************************************************************)
Same(q) ==
  /\ pc'[q] = pc[q] /\ idempotent'[q] = idempotent[q]
  /\ backendURL'[q] = backendURL[q] /\ newBackendURL'[q] = newBackendURL[q]
  /\ attempts'[q] = attempts[q] /\ responses'[q] = responses[q]
  /\ records'[q] = records[q]

LEMMA SameControl ==
  ASSUME NEW q \in Requests, Control(q), Same(q)
  PROVE  Control(q)'
BY DEF Control, Same, Untried, TriedOnce, FailedOnce, MayRetry, RetryChosen, TriedTwice,
       Finished, Answered, Rejected

(***************************************************************************)
(* Sequences that grow at the end.                                         *)
(***************************************************************************)
LEMMA Appended ==
  ASSUME NEW S, NEW s \in Seq(S), NEW e \in S
  PROVE  /\ Append(s, e) \in Seq(S)
         /\ Len(Append(s, e)) = Len(s) + 1
         /\ Append(s, e)[Len(s) + 1] = e
         /\ \A i \in 1 .. Len(s) : Append(s, e)[i] = s[i]
         /\ s = <<>> => Append(s, e) = <<e>>
<1>1. Append(s, e) \in Seq(S) /\ Len(Append(s, e)) = Len(s) + 1
  OBVIOUS
<1>2. Append(s, e)[Len(s) + 1] = e
  OBVIOUS
<1>3. ASSUME NEW i \in 1 .. Len(s)
      PROVE  Append(s, e)[i] = s[i]
  OBVIOUS
<1>4. ASSUME s = <<>>
      PROVE  Append(s, e) = <<e>>
  <2>1. Len(s) = 0
    BY <1>4
  <2>2. <<e>> \in Seq(S) /\ Len(<<e>>) = 1 /\ <<e>>[1] = e
    OBVIOUS
  <2> QED
    BY <1>1, <1>2, <2>1, <2>2, SeqEqual
<1> QED
  BY <1>1, <1>2, <1>3, <1>4

(***************************************************************************)
(* The three histories of a request after a response, a record or an       *)
(* attempt is added to them.                                               *)
(***************************************************************************)
LEMMA Responding ==
  ASSUME NEW r \in Requests, NEW status \in Status,
         responses \in [Requests -> Seq(Status)], Respond(r, status)
  PROVE  /\ responses' \in [Requests -> Seq(Status)]
         /\ \A q \in Requests \ {r} : responses'[q] = responses[q]
         /\ responses[r] = <<>> =>
              /\ responses'[r] = <<status>>
              /\ Len(responses'[r]) = 1 /\ responses'[r][1] = status
<1>1. responses' = [responses EXCEPT ![r] = Append(responses[r], status)]
  BY DEF Respond
<1>2. responses[r] \in Seq(Status)
  OBVIOUS
<1>3. /\ Append(responses[r], status) \in Seq(Status)
      /\ responses[r] = <<>> => Append(responses[r], status) = <<status>>
  BY <1>2, Appended
<1>4. Len(<<status>>) = 1 /\ <<status>>[1] = status
  OBVIOUS
<1> QED
  BY <1>1, <1>3, <1>4

LEMMA Recording ==
  ASSUME NEW r \in Requests, NEW u \in URLs, NEW success \in BOOLEAN,
         NEW timeout \in BOOLEAN, NEW retried \in BOOLEAN,
         records \in [Requests -> Seq(Record)], records[r] = <<>>,
         RecordRequest(r, u, success, timeout, retried)
  PROVE  /\ records' \in [Requests -> Seq(Record)]
         /\ \A q \in Requests \ {r} : records'[q] = records[q]
         /\ Len(records'[r]) = 1 /\ records'[r][1].success = success
<1> DEFINE rec == [backend |-> u, success |-> success, timeout |-> timeout, retried |-> retried]
<1>1. records' = [records EXCEPT ![r] = Append(records[r], rec)]
  BY DEF RecordRequest
<1>2. rec \in Record /\ rec.success = success
  BY DEF Record
<1> HIDE DEF rec
<1>3. Append(records[r], rec) \in Seq(Record) /\ Append(records[r], rec) = <<rec>>
  BY <1>2, Appended
<1> QED
  BY <1>1, <1>2, <1>3

LEMMA Attempting ==
  ASSUME NEW r \in Requests, NEW u \in URLs, NEW result \in Results,
         attempts \in [Requests -> Seq(Attempt)], responses \in [Requests -> Seq(Status)],
         responses[r] = <<>>, proxyRequest(r, u, result)
  PROVE  /\ attempts' \in [Requests -> Seq(Attempt)]
         /\ \A q \in Requests \ {r} : attempts'[q] = attempts[q] /\ responses'[q] = responses[q]
         /\ Len(attempts'[r]) = Len(attempts[r]) + 1
         /\ attempts'[r][Len(attempts[r]) + 1].backend = u
         /\ attempts'[r][Len(attempts[r]) + 1].result = result
         /\ \A i \in 1 .. Len(attempts[r]) : attempts'[r][i] = attempts[r][i]
         /\ responses' \in [Requests -> Seq(Status)]
         /\ responses'[r] = IF result \in Delivered THEN <<"backend">> ELSE <<>>
<1> DEFINE att == [backend |-> u, result |-> result]
<1>1. attempts' = [attempts EXCEPT ![r] = Append(attempts[r], att)]
  BY DEF proxyRequest
<1>2. att \in Attempt /\ att.backend = u /\ att.result = result
  BY DEF Attempt
<1> HIDE DEF att
<1>3. attempts[r] \in Seq(Attempt)
  OBVIOUS
<1>4. /\ Append(attempts[r], att) \in Seq(Attempt)
      /\ Len(Append(attempts[r], att)) = Len(attempts[r]) + 1
      /\ Append(attempts[r], att)[Len(attempts[r]) + 1] = att
      /\ \A i \in 1 .. Len(attempts[r]) : Append(attempts[r], att)[i] = attempts[r][i]
  BY <1>2, <1>3, Appended
<1>5. attempts'[r] = Append(attempts[r], att)
  BY <1>1
<1>6. attempts' \in [Requests -> Seq(Attempt)] /\ \A q \in Requests \ {r} : attempts'[q] = attempts[q]
  BY <1>1, <1>4
<1>7. CASE result \in Delivered
  <2>1. Respond(r, "backend") /\ "backend" \in Status
    BY <1>7 DEF proxyRequest, Status
  <2>2. /\ responses' \in [Requests -> Seq(Status)]
        /\ \A q \in Requests \ {r} : responses'[q] = responses[q]
        /\ responses'[r] = <<"backend">>
    BY <2>1, Responding
  <2> QED
    BY <1>2, <1>4, <1>5, <1>6, <1>7, <2>2
<1>8. CASE result \notin Delivered
  <2>1. responses' = responses
    BY <1>8 DEF proxyRequest
  <2> QED
    BY <1>2, <1>4, <1>5, <1>6, <1>8, <2>1
<1> QED
  BY <1>7, <1>8

(***************************************************************************)
(* The steps of one request, up to the end of its first attempt.           *)
(***************************************************************************)
Moved(r) == ProxyTypeOK' /\ Control(r)' /\ \A q \in Requests \ {r} : Same(q)

LEMMA BeforeForwarding ==
  ASSUME IInv, NEW r \in Requests
  PROVE  /\ Arrive(r) => Moved(r)
         /\ BufferBody(r) => Moved(r)
         /\ RejectBody(r) => Moved(r)
         /\ CheckHealthy(r) => Moved(r)
         /\ NoHealthyBackends(r) => Moved(r)
         /\ GetTarget(r) => Moved(r)
         /\ AddFirst(r) => Moved(r)
<1> USE DEF IInv, TypeOK, ControlInv, ProxyTypeOK, Labels, BeforeForward, Forwarding,
            Deciding, Retrying, Deferred, callVars, counterVars, poolVars, Goto, Moved, Same
<1>1. CASE Arrive(r)
  <2>1. idempotent' \in [Requests -> BOOLEAN] /\ \A q \in Requests \ {r} : idempotent'[q] = idempotent[q]
    BY <1>1, Zenon DEF Arrive
  <2>2. /\ pc' \in [Requests -> Labels] /\ activeRequests' \in Int
        /\ \A q \in Requests \ {r} : pc'[q] = pc[q]
    BY <1>1 DEF Arrive
  <2>3. Control(r)'
    BY <1>1 DEF Arrive, Control, Untried
  <2> QED
    BY <1>1, <2>1, <2>2, <2>3 DEF Arrive
<1>2. CASE BufferBody(r)
  BY <1>2 DEF BufferBody, Control, Untried
<1>3. CASE RejectBody(r)
  <2>1. PICK status \in {"413", "500"} : Respond(r, status)
    BY <1>3 DEF RejectBody
  <2>2. /\ responses' \in [Requests -> Seq(Status)]
        /\ \A q \in Requests \ {r} : responses'[q] = responses[q]
        /\ responses[r] = <<>> => Len(responses'[r]) = 1 /\ responses'[r][1] = status
    BY <2>1, Responding DEF Status
  <2>3. Untried(r) /\ attempts'[r] = <<>> /\ records'[r] = <<>> /\ pc'[r] = "deferRequest"
    BY <1>3 DEF RejectBody, Control, Untried
  <2>4. Finished(r)'
    BY <2>2, <2>3 DEF Finished, Rejected, Untried
  <2>5. Control(r)'
    BY <2>3, <2>4 DEF Control
  <2> QED
    BY <1>3, <2>2, <2>5 DEF RejectBody
<1>4. CASE CheckHealthy(r)
  BY <1>4 DEF CheckHealthy, Control, Untried
<1>5. CASE NoHealthyBackends(r)
  <2>1. /\ responses' \in [Requests -> Seq(Status)]
        /\ \A q \in Requests \ {r} : responses'[q] = responses[q]
        /\ responses[r] = <<>> => Len(responses'[r]) = 1 /\ responses'[r][1] = "503"
    BY <1>5, Responding DEF NoHealthyBackends, Status
  <2>2. Untried(r) /\ attempts'[r] = <<>> /\ records'[r] = <<>> /\ pc'[r] = "deferRequest"
    BY <1>5 DEF NoHealthyBackends, Control, Untried
  <2>3. Finished(r)'
    BY <2>1, <2>2 DEF Finished, Rejected, Untried
  <2>4. Control(r)'
    BY <2>2, <2>3 DEF Control
  <2> QED
    BY <1>5, <2>1, <2>4 DEF NoHealthyBackends
<1>6. CASE GetTarget(r)
  BY <1>6 DEF GetTarget, GetHealthy, PoolTypeOK, Control, Untried
<1>7. CASE AddFirst(r)
  BY <1>7 DEF AddFirst, Control, Untried
<1> QED
  BY <1>1, <1>2, <1>3, <1>4, <1>5, <1>6, <1>7

LEMMA ForwardingSteps ==
  ASSUME IInv, NEW r \in Requests
  PROVE  /\ FirstAttempt(r) => Moved(r)
         /\ ReleaseFirst(r) => Moved(r)
         /\ RecordFirst(r) => Moved(r)
<1> USE DEF IInv, TypeOK, ControlInv, ProxyTypeOK, Labels, BeforeForward, Forwarding,
            Deciding, Retrying, Deferred, callVars, counterVars, Goto, Moved, Same
<1>1. CASE FirstAttempt(r)
  <2>1. PICK result \in Results : proxyRequest(r, backendURL[r], result)
    BY <1>1, OutcomesAssumption DEF FirstAttempt
  <2>2. Untried(r) /\ backendURL[r] \in URLs /\ pc'[r] = "release"
    BY <1>1 DEF FirstAttempt, Control
  <2>3. Len(attempts[r]) = 0
    BY <2>2 DEF Untried
  <2>4. /\ attempts' \in [Requests -> Seq(Attempt)]
        /\ \A q \in Requests \ {r} : attempts'[q] = attempts[q] /\ responses'[q] = responses[q]
        /\ Len(attempts'[r]) = 1 /\ attempts'[r][1].backend = backendURL[r]
        /\ attempts'[r][1].result = result
        /\ responses' \in [Requests -> Seq(Status)]
        /\ responses'[r] = IF result \in Delivered THEN <<"backend">> ELSE <<>>
    <3>1. /\ attempts \in [Requests -> Seq(Attempt)] /\ responses \in [Requests -> Seq(Status)]
          /\ responses[r] = <<>>
      BY <2>2 DEF Untried
    <3> HIDE DEF IInv, ProxyTypeOK, Labels, Moved, Same
    <3>2. /\ Len(attempts'[r]) = Len(attempts[r]) + 1
          /\ attempts'[r][Len(attempts[r]) + 1].backend = backendURL[r]
          /\ attempts'[r][Len(attempts[r]) + 1].result = result
      BY <2>1, <2>2, <3>1, Attempting
    <3> QED
      BY <2>1, <2>2, <2>3, <3>1, <3>2, Attempting
  <2>5. TriedOnce(r)' /\ newBackendURL'[r] = NoURL
    BY <1>1, <2>2, <2>4 DEF FirstAttempt, TriedOnce, Untried
  <2>6. Control(r)'
    BY <2>2, <2>5 DEF Control
  <2> QED
    BY <1>1, <2>4, <2>6 DEF FirstAttempt
<1>2. CASE ReleaseFirst(r)
  <2>1. TriedOnce(r) /\ newBackendURL[r] = NoURL /\ pc'[r] = AfterFirst(r)
    BY <1>2 DEF ReleaseFirst, Control
  <2>2. LastResult(r) = attempts[r][1].result
    BY <2>1 DEF LastResult, TriedOnce
  <2>3. TriedOnce(r)' /\ newBackendURL'[r] = NoURL
    BY <1>2, <2>1 DEF ReleaseFirst, TriedOnce
  <2>4. CASE AfterFirst(r) = "record"
    <3>1. attempts[r][1].result \in Delivered \/ isClientDisconnect(attempts[r][1].result)
      BY <2>2, <2>4 DEF AfterFirst
    <3> QED
      BY <1>2, <2>1, <2>3, <2>4, <3>1 DEF ReleaseFirst, Control
  <2>5. CASE AfterFirst(r) # "record"
    <3>1. /\ attempts[r][1].result \notin Delivered
          /\ ~isClientDisconnect(attempts[r][1].result)
          /\ AfterFirst(r) \in {"loadTotal", "fail"}
          /\ AfterFirst(r) = "loadTotal" => RetriesEnabled /\ idempotent[r]
      BY <2>2, <2>5 DEF AfterFirst
    <3>2. FailedOnce(r)' /\ (pc'[r] = "loadTotal" => MayRetry(r)')
      BY <1>2, <2>1, <2>3, <3>1 DEF ReleaseFirst, FailedOnce, MayRetry
    <3> QED
      BY <1>2, <2>1, <2>3, <3>1, <3>2 DEF ReleaseFirst, Control
  <2>6. AfterFirst(r) \in Labels
    BY DEF AfterFirst
  <2> QED
    BY <1>2, <2>4, <2>5, <2>6 DEF ReleaseFirst
<1>3. CASE RecordFirst(r)
  <2>1. /\ TriedOnce(r) /\ pc'[r] = "deferRequest"
        /\ attempts[r][1].result \in Delivered \/ isClientDisconnect(attempts[r][1].result)
    BY <1>3 DEF RecordFirst, Control
  <2>2. LastResult(r) = attempts[r][1].result
    BY <2>1 DEF LastResult, TriedOnce
  <2>3. /\ records' \in [Requests -> Seq(Record)]
        /\ \A q \in Requests \ {r} : records'[q] = records[q]
        /\ Len(records'[r]) = 1
        /\ records'[r][1].success <=> attempts[r][1].result \in Delivered
    <3>1. /\ backendURL[r] \in URLs /\ records[r] = <<>>
          /\ records \in [Requests -> Seq(Record)]
      BY <2>1 DEF TriedOnce
    <3> HIDE DEF IInv, ProxyTypeOK, Labels, Moved, Same
    <3>2. CASE attempts[r][1].result \in Delivered
      <4>1. RecordRequest(r, backendURL[r], TRUE, FALSE, FALSE)
        BY <1>3, <2>2, <3>2 DEF RecordFirst, RecordRequest
      <4>2. /\ records' \in [Requests -> Seq(Record)]
            /\ \A q \in Requests \ {r} : records'[q] = records[q]
            /\ Len(records'[r]) = 1 /\ records'[r][1].success = TRUE
        BY <3>1, <4>1, Recording
      <4> QED
        BY <3>2, <4>2
    <3>3. CASE attempts[r][1].result \notin Delivered
      <4> DEFINE delivered == LastResult(r) \in Delivered
      <4>0. delivered = FALSE
        BY <2>2, <3>3 DEF Delivered
      <4>3. RecordRequest(r, backendURL[r], delivered, FALSE, FALSE)
        BY <1>3 DEF RecordFirst
      <4> HIDE DEF delivered
      <4>1. RecordRequest(r, backendURL[r], FALSE, FALSE, FALSE)
        BY <4>0, <4>3
      <4>2. /\ records' \in [Requests -> Seq(Record)]
            /\ \A q \in Requests \ {r} : records'[q] = records[q]
            /\ Len(records'[r]) = 1 /\ records'[r][1].success = FALSE
        BY <3>1, <4>1, Recording
      <4> QED
        BY <3>3, <4>2
    <3> QED
      BY <3>2, <3>3
  <2>4. Answered(r)' /\ Len(attempts'[r]) = 1
    BY <1>3, <2>1, <2>3 DEF RecordFirst, Answered, TriedOnce
  <2>5. Control(r)'
    BY <2>1, <2>4 DEF Control, Finished
  <2> QED
    BY <1>3, <2>3, <2>5 DEF RecordFirst
<1> QED
  BY <1>1, <1>2, <1>3

LEMMA DecisionSteps ==
  ASSUME IInv, NEW r \in Requests
  PROVE  /\ LoadTotal(r) => Moved(r)
         /\ CheckBudget(r) => Moved(r)
         /\ Debounce(r) => Moved(r)
         /\ MarkDown(r) => Moved(r)
         /\ SelectDifferent(r) => Moved(r)
         /\ NoRetryTarget(r) => Moved(r)
<1> USE DEF IInv, TypeOK, ControlInv, ProxyTypeOK, Labels, BeforeForward, Forwarding,
            Deciding, Retrying, Deferred, callVars, counterVars, Goto, Moved, Same
<1>1. CASE LoadTotal(r)
  <2>1. Control(r)'
    BY <1>1 DEF LoadTotal, Control, MayRetry, FailedOnce, TriedOnce
  <2> QED
    BY <1>1, <2>1 DEF LoadTotal
<1>2. CASE CheckBudget(r)
  <2>1. Control(r)'
    BY <1>2 DEF CheckBudget, Control, MayRetry, FailedOnce, TriedOnce
  <2> QED
    BY <1>2, <2>1 DEF CheckBudget
<1>3. CASE Debounce(r)
  BY <1>3 DEF Debounce, Control, MayRetry, FailedOnce, TriedOnce
<1>4. CASE MarkDown(r)
  BY <1>4 DEF MarkDown, Control, MayRetry, FailedOnce, TriedOnce
<1>5. CASE SelectDifferent(r)
  <2>1. PICK v \in selectDifferent(backendURL[r]) :
          newBackendURL' = [newBackendURL EXCEPT ![r] = v]
    BY <1>5 DEF SelectDifferent
  <2>2. v \in URLs /\ v # backendURL[r]
    BY DEF selectDifferent, RetryCandidates, GetHealthy, PoolTypeOK
  <2>3. MayRetry(r)' /\ RetryChosen(r)' /\ pc'[r] = "retryCount"
    BY <1>5, <2>1, <2>2 DEF SelectDifferent, Control, MayRetry, FailedOnce, TriedOnce, RetryChosen
  <2>4. Control(r)'
    BY <2>3 DEF Control
  <2> QED
    BY <1>5, <2>1, <2>2, <2>4 DEF SelectDifferent
<1>6. CASE NoRetryTarget(r)
  BY <1>6 DEF NoRetryTarget, Control, MayRetry, FailedOnce, TriedOnce
<1> QED
  BY <1>1, <1>2, <1>3, <1>4, <1>5, <1>6

LEMMA RetrySteps ==
  ASSUME IInv, NEW r \in Requests
  PROVE  /\ CountRetry(r) => Moved(r)
         /\ AddRetry(r) => Moved(r)
         /\ RetryAttempt(r) => Moved(r)
         /\ RecordRetry(r) => Moved(r)
<1> USE DEF IInv, TypeOK, ControlInv, ProxyTypeOK, Labels, BeforeForward, Forwarding,
            Deciding, Retrying, Deferred, callVars, counterVars, Goto, Moved, Same
<1>1. CASE CountRetry(r)
  <2>1. Control(r)'
    BY <1>1 DEF CountRetry, Control, MayRetry, FailedOnce, TriedOnce, RetryChosen
  <2> QED
    BY <1>1, <2>1 DEF CountRetry
<1>2. CASE AddRetry(r)
  BY <1>2 DEF AddRetry, Control, MayRetry, FailedOnce, TriedOnce, RetryChosen
<1>3. CASE RetryAttempt(r)
  <2>1. PICK result \in Results :
          /\ Goto(r, "retryAttempt", IF result \in Delivered THEN "retryRecord" ELSE "fail")
          /\ proxyRequest(r, newBackendURL[r], result)
    BY <1>3, OutcomesAssumption DEF RetryAttempt
  <2>2. MayRetry(r) /\ RetryChosen(r)
    BY <2>1 DEF Control
  <2>3. /\ Len(attempts[r]) = 1 /\ responses[r] = <<>> /\ records[r] = <<>>
        /\ newBackendURL[r] \in URLs
    BY <2>2 DEF MayRetry, FailedOnce, TriedOnce, RetryChosen
  <2>4. /\ attempts' \in [Requests -> Seq(Attempt)]
        /\ \A q \in Requests \ {r} : attempts'[q] = attempts[q] /\ responses'[q] = responses[q]
        /\ Len(attempts'[r]) = 2 /\ attempts'[r][1] = attempts[r][1]
        /\ attempts'[r][2].backend = newBackendURL[r]
        /\ attempts'[r][2].result = result
        /\ responses' \in [Requests -> Seq(Status)]
        /\ responses'[r] = IF result \in Delivered THEN <<"backend">> ELSE <<>>
    <3>1. attempts \in [Requests -> Seq(Attempt)] /\ responses \in [Requests -> Seq(Status)]
      OBVIOUS
    <3> HIDE DEF IInv, ProxyTypeOK, Labels, Moved, Same
    <3>2. /\ Len(attempts'[r]) = Len(attempts[r]) + 1
          /\ attempts'[r][Len(attempts[r]) + 1].backend = newBackendURL[r]
          /\ attempts'[r][Len(attempts[r]) + 1].result = result
          /\ \A i \in 1 .. Len(attempts[r]) : attempts'[r][i] = attempts[r][i]
      BY <2>1, <2>3, <3>1, Attempting
    <3>3. /\ attempts' \in [Requests -> Seq(Attempt)]
          /\ \A q \in Requests \ {r} : attempts'[q] = attempts[q] /\ responses'[q] = responses[q]
          /\ responses' \in [Requests -> Seq(Status)]
          /\ responses'[r] = IF result \in Delivered THEN <<"backend">> ELSE <<>>
      BY <2>1, <2>3, <3>1, Attempting
    <3>4. /\ Len(attempts'[r]) = 2 /\ attempts'[r][1] = attempts[r][1]
          /\ attempts'[r][2].backend = newBackendURL[r]
          /\ attempts'[r][2].result = result
      BY <2>3, <3>2
    <3> QED
      BY <3>3, <3>4
  <2>5. TriedTwice(r)'
    BY <1>3, <2>2, <2>4 DEF RetryAttempt, TriedTwice, MayRetry, FailedOnce, TriedOnce, RetryChosen
  <2>6. records'[r] = <<>>
    BY <1>3, <2>3 DEF RetryAttempt
  <2>7. Control(r)'
    BY <2>1, <2>4, <2>5, <2>6 DEF Control
  <2> QED
    BY <1>3, <2>1, <2>4, <2>7 DEF RetryAttempt
<1>4. CASE RecordRetry(r)
  <2>1. /\ TriedTwice(r) /\ responses[r] = <<"backend">> /\ records[r] = <<>>
        /\ pc'[r] = "deferConns"
    BY <1>4 DEF RecordRetry, Control
  <2>2. /\ records' \in [Requests -> Seq(Record)]
        /\ \A q \in Requests \ {r} : records'[q] = records[q]
        /\ Len(records'[r]) = 1 /\ records'[r][1].success
    BY <1>4, <2>1, Recording DEF RecordRetry, TriedTwice, RetryChosen
  <2>3. TriedTwice(r)' /\ Answered(r)'
    BY <1>4, <2>1, <2>2 DEF RecordRetry, TriedTwice, RetryChosen, Answered
  <2>4. Control(r)'
    BY <2>1, <2>3 DEF Control
  <2> QED
    BY <1>4, <2>2, <2>4 DEF RecordRetry
<1> QED
  BY <1>1, <1>2, <1>3, <1>4

LEMMA EndingSteps ==
  ASSUME IInv, NEW r \in Requests
  PROVE  /\ GatewayTimeout(r) => Moved(r)
         /\ DeferConns(r) => Moved(r)
         /\ DeferRetries(r) => Moved(r)
         /\ DeferRequest(r) => Moved(r)
<1> USE DEF IInv, TypeOK, ControlInv, ProxyTypeOK, Labels, BeforeForward, Forwarding,
            Deciding, Retrying, Deferred, callVars, counterVars, Goto, Moved, Same
<1>1. CASE GatewayTimeout(r)
  <2>1. /\ \/ FailedOnce(r) /\ newBackendURL[r] = NoURL /\ pc'[r] = "deferRequest"
           \/ TriedTwice(r) /\ newBackendURL[r] \in URLs /\ pc'[r] = "deferConns"
        /\ backendURL[r] \in URLs /\ responses[r] = <<>> /\ records[r] = <<>>
    BY <1>1, NoURLAssumption DEF GatewayTimeout, Control, FailedOnce, TriedOnce, TriedTwice, RetryChosen
  <2>2. /\ records' \in [Requests -> Seq(Record)]
        /\ \A q \in Requests \ {r} : records'[q] = records[q]
        /\ Len(records'[r]) = 1 /\ ~records'[r][1].success
    BY <1>1, <2>1, Recording DEF GatewayTimeout
  <2>3. /\ responses' \in [Requests -> Seq(Status)]
        /\ \A q \in Requests \ {r} : responses'[q] = responses[q]
        /\ responses'[r] = <<"504">>
    BY <1>1, <2>1, Responding DEF GatewayTimeout, Status
  <2>4. Answered(r)'
    BY <2>2, <2>3 DEF Answered
  <2>5. \/ Len(attempts'[r]) = 1 /\ pc'[r] = "deferRequest"
        \/ TriedTwice(r)' /\ pc'[r] = "deferConns"
    BY <1>1, <2>1 DEF GatewayTimeout, FailedOnce, TriedOnce, TriedTwice, RetryChosen
  <2>6. Control(r)'
    BY <2>4, <2>5 DEF Control, Finished
  <2> QED
    BY <1>1, <2>2, <2>3, <2>6 DEF GatewayTimeout
<1>2. CASE DeferConns(r)
  BY <1>2 DEF DeferConns, Control, TriedTwice, RetryChosen, Answered
<1>3. CASE DeferRetries(r)
  BY <1>3 DEF DeferRetries, Control, Finished, TriedTwice, RetryChosen, Answered
<1>4. CASE DeferRequest(r)
  <2>1. Finished(r) /\ pc'[r] = "done"
    BY <1>4 DEF DeferRequest, Control
  <2>2. Finished(r)'
    BY <1>4, <2>1 DEF DeferRequest, Finished, TriedTwice, RetryChosen, Answered, Rejected
  <2>3. Control(r)'
    BY <2>1, <2>2 DEF Control
  <2> QED
    BY <1>4, <2>3 DEF DeferRequest
<1> QED
  BY <1>1, <1>2, <1>3, <1>4

-----------------------------------------------------------------------------
(***************************************************************************)
(* The invariant holds at the start and every step keeps it.               *)
(***************************************************************************)
LEMMA InitIInv == Init => IInv
<1> SUFFICES ASSUME Init PROVE IInv
  OBVIOUS
<1>1. PoolTypeOK
  BY DEF Init, PoolInit, PoolTypeOK
<1>2. DiscoveryTypeOK
  BY DEF Init, DiscoveryInit
<1>3. ProxyTypeOK
  BY DEF Init, ProxyInit, ProxyTypeOK, Labels
<1>4. ControlInv
  BY DEF Init, ProxyInit, ControlInv, Control, Untried, Deciding
<1> QED
  BY <1>1, <1>2, <1>3, <1>4 DEF IInv, TypeOK

\* A step of one request leaves the control points of the others alone.
LEMMA RequestStep ==
  ASSUME IInv, NEW r \in Requests, Arrive(r) \/ ServeHTTP(r)
  PROVE  ProxyTypeOK' /\ ControlInv'
<1>1. Moved(r)
  BY BeforeForwarding, ForwardingSteps, DecisionSteps, RetrySteps, EndingSteps DEF ServeHTTP
<1>2. ASSUME NEW q \in Requests \ {r}
      PROVE  Control(q)'
  BY <1>1, SameControl DEF Moved, IInv, ControlInv
<1> QED
  BY <1>1, <1>2 DEF Moved, ControlInv

\* What a step of a request does to the pool is one call of SharedState, if any.
LEMMA RequestPool ==
  ASSUME IInv, NEW r \in Requests, Arrive(r) \/ ServeHTTP(r)
  PROVE  PoolTypeOK'
<1>1. \/ UNCHANGED poolVars
      \/ \E u : MarkHealthy(u, FALSE)
      \/ \E u : AddConnections(u, 1)
      \/ \E u : RemoveConnections(u, 1)
  <2>1. CASE Arrive(r) \/ BufferBody(r) \/ RejectBody(r) \/ CheckHealthy(r)
             \/ NoHealthyBackends(r) \/ GetTarget(r) \/ FirstAttempt(r) \/ RecordFirst(r)
    BY <2>1 DEF Arrive, BufferBody, RejectBody, CheckHealthy, NoHealthyBackends, GetTarget,
                FirstAttempt, RecordFirst
  <2>2. CASE LoadTotal(r) \/ CheckBudget(r) \/ Debounce(r) \/ SelectDifferent(r)
             \/ NoRetryTarget(r) \/ CountRetry(r) \/ RetryAttempt(r) \/ RecordRetry(r)
             \/ GatewayTimeout(r) \/ DeferRetries(r) \/ DeferRequest(r)
    BY <2>2 DEF LoadTotal, CheckBudget, Debounce, SelectDifferent, NoRetryTarget, CountRetry,
                RetryAttempt, RecordRetry, GatewayTimeout, DeferRetries, DeferRequest
  <2>3. CASE MarkDown(r)
    BY <2>3 DEF MarkDown
  <2>4. CASE AddFirst(r) \/ AddRetry(r)
    BY <2>4 DEF AddFirst, AddRetry
  <2>5. CASE ReleaseFirst(r) \/ DeferConns(r)
    BY <2>5 DEF ReleaseFirst, DeferConns
  <2> QED
    BY <2>1, <2>2, <2>3, <2>4, <2>5 DEF ServeHTTP
<1>2. PoolTypeOK
  BY DEF IInv, TypeOK
<1>3. 1 \in Int /\ FALSE \in BOOLEAN
  OBVIOUS
<1>4. /\ \A u : MarkHealthy(u, FALSE) => PoolTypeOK'
      /\ \A u : AddConnections(u, 1) => PoolTypeOK'
      /\ \A u : RemoveConnections(u, 1) => PoolTypeOK'
      /\ UNCHANGED poolVars => PoolTypeOK'
  BY <1>2, <1>3, PoolOperations
<1> QED
  BY <1>1, <1>4

LEMMA NextIInv == IInv /\ [Next]_vars => IInv'
<1> SUFFICES ASSUME IInv, [Next]_vars PROVE IInv'
  OBVIOUS
<1>1. PoolTypeOK /\ DiscoveryTypeOK /\ ProxyTypeOK /\ ControlInv
  BY DEF IInv, TypeOK
\* A step that leaves the requests and DNS alone needs care for the pool only.
<1>2. ASSUME UNCHANGED proxyVars
      PROVE  ProxyTypeOK' /\ ControlInv'
  <2>1. \A q \in Requests : Same(q)
    BY <1>2 DEF proxyVars, callVars, Same
  <2> QED
    BY <1>1, <1>2, <2>1, SameControl DEF ControlInv, ProxyTypeOK, proxyVars, callVars, counterVars
<1>3. ASSUME UNCHANGED dns
      PROVE  DiscoveryTypeOK'
  BY <1>1, <1>3 DEF DiscoveryTypeOK
<1>4. CASE ProxyNext /\ UNCHANGED dns
  <2>1. PICK r \in Requests : Arrive(r) \/ ServeHTTP(r)
    BY <1>4 DEF ProxyNext
  <2> QED
    BY <1>3, <1>4, <2>1, RequestStep, RequestPool DEF IInv, TypeOK
<1>5. CASE DiscoveryNext /\ UNCHANGED proxyVars
  <2>1. ASSUME NEW u \in URLs, DNSChange(u)
        PROVE  PoolTypeOK' /\ DiscoveryTypeOK'
    BY <1>1, <2>1, PoolOperations, SourceAssumption DEF DNSChange, DiscoveryTypeOK, SourceURLs
  <2>2. ASSUME NEW tag \in Sources, syncDNS(tag)
        PROVE  PoolTypeOK' /\ DiscoveryTypeOK'
    <3>1. dns[tag] \subseteq URLs
      BY <1>1 DEF DiscoveryTypeOK
    <3> QED
      BY <1>1, <1>3, <2>2, <3>1, PoolOperations DEF syncDNS
  <2> QED
    BY <1>2, <1>5, <2>1, <2>2 DEF DiscoveryNext, IInv, TypeOK
<1>6. CASE \E u \in URLs : HealthReport(u)
  <2>1. PICK u \in URLs, status \in BOOLEAN : MarkHealthy(u, status) /\ UNCHANGED <<proxyVars, dns>>
    BY <1>6, ReportsAssumption DEF HealthReport
  <2> QED
    BY <1>1, <1>2, <1>3, <2>1, PoolOperations DEF IInv, TypeOK
<1>7. CASE UNCHANGED vars
  BY <1>1, <1>2, <1>3, <1>7, PoolOperations DEF vars, IInv, TypeOK
<1> QED
  BY <1>4, <1>5, <1>6, <1>7 DEF Next

THEOREM Invariance == Spec => []IInv
<1> QED
  BY InitIInv, NextIInv, PTL DEF Spec

-----------------------------------------------------------------------------
(***************************************************************************)
(* Type correctness: whatever the requests, the watchers and the health    *)
(* reports do, a backend without an entry has no flags and no counter, and *)
(* every target of an attempt is a backend.                                *)
(***************************************************************************)
THEOREM TypeCorrect == Spec => []TypeOK
<1>1. IInv => TypeOK
  BY DEF IInv
<1> QED
  BY Invariance, <1>1, PTL

(***************************************************************************)
(* ServeHTTP executes a request a second time only when that is safe, and  *)
(* never a third time.                                                     *)
(***************************************************************************)
THEOREM ReexecutionIsSafe == Spec => []SafeReexecution
<1>1. IInv => SafeReexecution
  <2>1. ASSUME IInv, NEW r \in Requests
        PROVE  Len(attempts[r]) = 0 \/ Len(attempts[r]) = 1 \/ TriedTwice(r)
    <3>1. pc[r] \in Labels /\ Control(r)
      BY <2>1 DEF IInv, TypeOK, ProxyTypeOK, ControlInv
    <3>2. attempts[r] = <<>> => Len(attempts[r]) = 0
      OBVIOUS
    <3> QED
      BY <3>1, <3>2 DEF Labels, BeforeForward, Forwarding, Deciding, Retrying, Deferred, Control,
                  Untried, TriedOnce, FailedOnce, MayRetry, Finished
  <2>2. ASSUME NEW r \in Requests, TriedTwice(r)
        PROVE  /\ Len(attempts[r]) = 2 /\ RetriesEnabled /\ idempotent[r]
               /\ attempts[r][1].result \notin Delivered
               /\ ~isClientDisconnect(attempts[r][1].result)
               /\ attempts[r][1].backend # attempts[r][2].backend
    BY <2>2 DEF TriedTwice, RetryChosen
  <2>3. ASSUME IInv, NEW r \in Requests
        PROVE  /\ Len(attempts[r]) <= 2
               /\ Len(attempts[r]) = 2 => TriedTwice(r)
    <3> DEFINE n == Len(attempts[r])
    <3>1. CASE TriedTwice(r)
      BY <2>2, <3>1
    <3>2. CASE n = 0 \/ n = 1
      <4> HIDE DEF n
      <4>1. n <= 2 /\ n # 2
        BY <3>2
      <4> QED
        BY <4>1 DEF n
    <3> QED
      BY <2>1, <2>3, <3>1, <3>2
  <2> QED
    BY <2>2, <2>3 DEF SafeReexecution
<1> QED
  BY Invariance, <1>1, PTL

(***************************************************************************)
(* No path through ServeHTTP writes a second response head.                *)
(***************************************************************************)
THEOREM RespondsOnce == Spec => []OneResponse
<1>1. IInv => OneResponse
  <2>1. ASSUME IInv, NEW r \in Requests
        PROVE  \/ responses[r] = <<>> \/ Len(responses[r]) = 1
               \/ responses[r] = <<"backend">> \/ responses[r] = <<"504">>
    <3>1. pc[r] \in Labels /\ Control(r)
      BY <2>1 DEF IInv, TypeOK, ProxyTypeOK, ControlInv
    <3> QED
      BY <3>1 DEF Labels, BeforeForward, Forwarding, Deciding, Retrying, Deferred, Control,
                  Untried, TriedOnce, FailedOnce, MayRetry, Finished, Answered, Rejected
  <2>2. Len(<<>>) <= 1 /\ Len(<<"backend">>) <= 1 /\ Len(<<"504">>) <= 1
    OBVIOUS
  <2> QED
    BY <2>1, <2>2 DEF OneResponse
<1> QED
  BY Invariance, <1>1, PTL

(***************************************************************************)
(* What the metrics say of a finished request is what its client saw.      *)
(***************************************************************************)
THEOREM RecordsMatch == Spec => []RecordedAsAnswered
<1>1. IInv => RecordedAsAnswered
  BY DEF IInv, ControlInv, Control, Finished, RecordedAsAnswered, TriedTwice, Answered, Rejected
<1> QED
  BY Invariance, <1>1, PTL

-----------------------------------------------------------------------------
(***************************************************************************)
(* Counting requests.  A step of r moves r alone in or out of a set.       *)
(***************************************************************************)
LEMMA Counted ==
  ASSUME NEW S \in SUBSET Requests, NEW T \in SUBSET Requests, NEW r \in Requests,
         \A q \in Requests \ {r} : q \in S <=> q \in T
  PROVE  /\ Cardinality(S) \in Nat /\ Cardinality(T) \in Nat
         /\ (r \in S <=> r \in T) => Cardinality(T) = Cardinality(S)
         /\ r \notin S /\ r \in T => Cardinality(T) = Cardinality(S) + 1
         /\ r \in S /\ r \notin T => Cardinality(T) = Cardinality(S) - 1
<1>1. IsFiniteSet(S) /\ IsFiniteSet(T)
  BY RequestsAssumption, FS_Subset
<1>2. Cardinality(S) \in Nat /\ Cardinality(T) \in Nat
  BY <1>1, FS_CardinalityType
<1>3. ASSUME r \in S <=> r \in T
      PROVE  Cardinality(T) = Cardinality(S)
  <2>1. S = T
    BY <1>3
  <2> QED
    BY <2>1
<1>4. ASSUME r \notin S, r \in T
      PROVE  Cardinality(T) = Cardinality(S) + 1
  <2>1. T = S \cup {r}
    BY <1>4
  <2> QED
    BY <1>1, <1>4, <2>1, FS_AddElement
<1>5. ASSUME r \in S, r \notin T
      PROVE  Cardinality(T) = Cardinality(S) - 1
  <2>1. T = S \ {r}
    BY <1>5
  <2> QED
    BY <1>1, <1>5, <2>1, FS_RemoveElement
<1> QED
  BY <1>2, <1>3, <1>4, <1>5

\* A counter moves by one in the step in which r enters or leaves the set it counts.
Counts(r, S, T, n, m) ==
  \/ m = n /\ (r \in S <=> r \in T)
  \/ m = n + 1 /\ r \notin S /\ r \in T
  \/ m = n - 1 /\ r \in S /\ r \notin T

LEMMA CountsExactly ==
  ASSUME NEW S \in SUBSET Requests, NEW T \in SUBSET Requests, NEW r \in Requests,
         \A q \in Requests \ {r} : q \in S <=> q \in T,
         NEW n, NEW m, n = Cardinality(S), Counts(r, S, T, n, m)
  PROVE  m = Cardinality(T)
BY Counted DEF Counts

\* Each action of ServeHTTP and the two counters of the retry budget.
LEMMA BudgetCounters ==
  ASSUME IInv, NEW r \in Requests, Arrive(r) \/ ServeHTTP(r)
  PROVE  /\ Counts(r, InFlight, InFlight', activeRequests, activeRequests')
         /\ Counts(r, InRetry, InRetry', activeRetries, activeRetries')
<1>1. Control(r) /\ pc \in [Requests -> Labels]
      /\ newBackendURL \in [Requests -> URLs \cup {NoURL}]
  BY DEF IInv, TypeOK, ProxyTypeOK, ControlInv
<1> USE <1>1, NoURLAssumption DEF InFlight, InRetry, Counts, Control, Deciding, RetryChosen,
        Untried, Goto, callVars, counterVars
<1>2. CASE Arrive(r)
  BY <1>2 DEF Arrive
<1>3. CASE BufferBody(r) \/ RejectBody(r) \/ CheckHealthy(r) \/ NoHealthyBackends(r)
           \/ GetTarget(r) \/ AddFirst(r)
  BY <1>3 DEF BufferBody, RejectBody, CheckHealthy, NoHealthyBackends, GetTarget, AddFirst
<1>4. CASE FirstAttempt(r) \/ ReleaseFirst(r) \/ RecordFirst(r)
  BY <1>4 DEF FirstAttempt, ReleaseFirst, RecordFirst, AfterFirst
<1>5. CASE LoadTotal(r) \/ CheckBudget(r) \/ Debounce(r) \/ MarkDown(r)
  BY <1>5 DEF LoadTotal, CheckBudget, Debounce, MarkDown
<1>6. CASE SelectDifferent(r) \/ NoRetryTarget(r) \/ CountRetry(r) \/ AddRetry(r)
  BY <1>6 DEF SelectDifferent, NoRetryTarget, CountRetry, AddRetry
<1>7. CASE RetryAttempt(r) \/ RecordRetry(r)
  BY <1>7 DEF RetryAttempt, RecordRetry
<1>8. CASE GatewayTimeout(r)
  BY <1>8 DEF GatewayTimeout
<1>9. CASE DeferConns(r) \/ DeferRetries(r) \/ DeferRequest(r)
  BY <1>9 DEF DeferConns, DeferRetries, DeferRequest
<1> QED
  BY <1>2, <1>3, <1>4, <1>5, <1>6, <1>7, <1>8, <1>9 DEF ServeHTTP

LEMMA NextCounters == IInv /\ CountersExact /\ [Next]_vars => CountersExact'
<1> SUFFICES ASSUME IInv, CountersExact, [Next]_vars PROVE CountersExact'
  OBVIOUS
<1>1. CASE UNCHANGED proxyVars
  <2>1. InFlight' = InFlight /\ InRetry' = InRetry
    BY <1>1 DEF proxyVars, callVars, InFlight, InRetry
  <2> QED
    BY <1>1, <2>1 DEF CountersExact, proxyVars, counterVars
<1>2. CASE ProxyNext
  <2>1. PICK r \in Requests : Arrive(r) \/ ServeHTTP(r)
    BY <1>2 DEF ProxyNext
  <2>2. \A q \in Requests \ {r} : Same(q)
    BY <2>1, BeforeForwarding, ForwardingSteps, DecisionSteps, RetrySteps, EndingSteps
    DEF ServeHTTP, Moved
  <2>3. \A q \in Requests \ {r} : (q \in InFlight <=> q \in InFlight') /\ (q \in InRetry <=> q \in InRetry')
    BY <2>2 DEF Same, InFlight, InRetry
  <2>4. /\ InFlight \in SUBSET Requests /\ InFlight' \in SUBSET Requests
        /\ InRetry \in SUBSET Requests /\ InRetry' \in SUBSET Requests
    BY DEF InFlight, InRetry
  <2>5. /\ Counts(r, InFlight, InFlight', activeRequests, activeRequests')
        /\ Counts(r, InRetry, InRetry', activeRetries, activeRetries')
    BY <2>1, BudgetCounters
  <2>6. activeRequests' = Cardinality(InFlight')
    BY <2>3, <2>4, <2>5, CountsExactly DEF CountersExact
  <2>7. activeRetries' = Cardinality(InRetry')
    BY <2>3, <2>4, <2>5, CountsExactly DEF CountersExact
  <2> QED
    BY <2>6, <2>7 DEF CountersExact
<1> QED
  BY <1>1, <1>2 DEF Next, HealthReport, vars

(***************************************************************************)
(* activeRequests and activeRetries are exact: whatever path a request     *)
(* takes, it is counted once while it is in ServeHTTP and once while it is *)
(* between the start of its retry and the deferred decrement.              *)
(***************************************************************************)
THEOREM CountersAreExact == Spec => []CountersExact
<1>1. Init => CountersExact
  <2> SUFFICES ASSUME Init PROVE CountersExact
    OBVIOUS
  <2>1. InFlight = {} /\ InRetry = {}
    BY DEF Init, ProxyInit, InFlight, InRetry
  <2> QED
    BY <2>1, FS_EmptySet DEF Init, ProxyInit, CountersExact
<1> QED
  BY <1>1, NextCounters, Invariance, PTL DEF Spec

-----------------------------------------------------------------------------
(***************************************************************************)
(* A step of r and the counter of backend u: it rises only as r goes on    *)
(* the wire to u; and as r goes off it, it falls, or u has no entry, whose *)
(* counter is 0.                                                           *)
(***************************************************************************)
Covers(r, u) ==
  \/ conns'[u] <= conns[u] /\ (r \in OnWire(u) <=> r \in OnWire(u)')
  \/ conns'[u] <= conns[u] + 1 /\ r \notin OnWire(u) /\ r \in OnWire(u)'
  \/ conns'[u] <= conns[u] - 1 /\ r \in OnWire(u) /\ r \notin OnWire(u)'
  \/ conns'[u] = 0

LEMMA WireSteps ==
  ASSUME IInv, NEW r \in Requests, Arrive(r) \/ ServeHTTP(r), NEW u \in URLs
  PROVE  Covers(r, u)
<1>1. /\ Control(r) /\ pc \in [Requests -> Labels] /\ conns \in [URLs -> Int]
      /\ backendURL \in [Requests -> URLs \cup {NoURL}]
      /\ newBackendURL \in [Requests -> URLs \cup {NoURL}]
      /\ \A v \in URLs \ servers : conns[v] = 0
  BY DEF IInv, TypeOK, ProxyTypeOK, PoolTypeOK, ControlInv
<1>2. conns[u] \in Int
  BY <1>1
<1> USE <1>1, <1>2, NoURLAssumption DEF OnWire, Covers, Control, Deciding, RetryChosen,
        Untried, Goto, callVars, counterVars, poolVars
<1>3. CASE Arrive(r) \/ BufferBody(r) \/ RejectBody(r) \/ CheckHealthy(r)
           \/ NoHealthyBackends(r) \/ GetTarget(r)
  BY <1>3 DEF Arrive, BufferBody, RejectBody, CheckHealthy, NoHealthyBackends, GetTarget
<1>4. CASE AddFirst(r)
  <2>1. /\ pc[r] = "add" /\ pc'[r] = "attempt"
        /\ backendURL'[r] = backendURL[r] /\ newBackendURL'[r] = newBackendURL[r]
    BY <1>4 DEF AddFirst
  <2>2. conns'[u] = IF u = backendURL[r] /\ u \in servers THEN conns[u] + 1 ELSE conns[u]
    BY <1>4 DEF AddFirst, AddConnections
  <2> QED
    BY <2>1, <2>2
<1>5. CASE ReleaseFirst(r)
  <2>1. /\ pc[r] = "release" /\ pc'[r] \in {"record", "loadTotal", "fail"}
        /\ backendURL'[r] = backendURL[r] /\ newBackendURL'[r] = newBackendURL[r]
        /\ newBackendURL[r] = NoURL
    BY <1>5 DEF ReleaseFirst, AfterFirst
  <2>2. conns'[u] = IF u = backendURL[r] /\ u \in servers THEN conns[u] - 1 ELSE conns[u]
    BY <1>5 DEF ReleaseFirst, RemoveConnections
  <2> QED
    BY <2>1, <2>2
<1>6. CASE FirstAttempt(r) \/ RecordFirst(r) \/ LoadTotal(r) \/ CheckBudget(r) \/ Debounce(r)
  <2>1. /\ conns' = conns /\ backendURL' = backendURL /\ newBackendURL' = newBackendURL
        /\ \/ pc[r] = "attempt" /\ pc'[r] = "release"
           \/ /\ pc[r] \in {"record", "loadTotal", "loadRetries", "debounce"}
              /\ pc'[r] \notin {"attempt", "release", "retryAttempt", "retryRecord", "deferConns"}
    BY <1>6 DEF FirstAttempt, RecordFirst, LoadTotal, CheckBudget, Debounce
  <2>2. pc[r] \in {"record", "loadTotal", "loadRetries", "debounce"} => newBackendURL[r] = NoURL
    OBVIOUS
  <2>3. r \in OnWire(u) <=> r \in OnWire(u)'
    BY <2>1, <2>2
  <2> QED
    BY <2>1, <2>3
<1>7. CASE MarkDown(r)
  BY <1>7 DEF MarkDown, MarkHealthy
<1>8. CASE SelectDifferent(r) \/ NoRetryTarget(r) \/ CountRetry(r)
  BY <1>8 DEF SelectDifferent, NoRetryTarget, CountRetry
<1>9. CASE AddRetry(r)
  <2>1. /\ pc[r] = "retryAdd" /\ pc'[r] = "retryAttempt"
        /\ backendURL'[r] = backendURL[r] /\ newBackendURL'[r] = newBackendURL[r]
    BY <1>9 DEF AddRetry
  <2>2. conns'[u] = IF u = newBackendURL[r] /\ u \in servers THEN conns[u] + 1 ELSE conns[u]
    BY <1>9 DEF AddRetry, AddConnections
  <2> QED
    BY <2>1, <2>2
<1>10. CASE RetryAttempt(r) \/ RecordRetry(r)
  <2>1. /\ conns' = conns /\ backendURL' = backendURL /\ newBackendURL' = newBackendURL
        /\ pc[r] \in {"retryAttempt", "retryRecord"}
        /\ pc'[r] \in {"retryRecord", "fail", "deferConns"}
    BY <1>10 DEF RetryAttempt, RecordRetry
  <2>2. r \in OnWire(u) <=> r \in OnWire(u)'
    BY <2>1
  <2> QED
    BY <2>1, <2>2
<1>11. CASE GatewayTimeout(r)
  BY <1>11 DEF GatewayTimeout
<1>12. CASE DeferConns(r)
  <2>1. /\ pc[r] = "deferConns" /\ pc'[r] = "deferRetries"
        /\ backendURL'[r] = backendURL[r] /\ newBackendURL'[r] = newBackendURL[r]
    BY <1>12 DEF DeferConns
  <2>2. conns'[u] = IF u = newBackendURL[r] /\ u \in servers THEN conns[u] - 1 ELSE conns[u]
    BY <1>12 DEF DeferConns, RemoveConnections
  <2> QED
    BY <2>1, <2>2
<1>13. CASE DeferRetries(r) \/ DeferRequest(r)
  BY <1>13 DEF DeferRetries, DeferRequest
<1> QED
  BY <1>3, <1>4, <1>5, <1>6, <1>7, <1>8, <1>9, <1>10, <1>11, <1>12, <1>13 DEF ServeHTTP

LEMMA NextConns == IInv /\ ConnsWithinOnWire /\ [Next]_vars => ConnsWithinOnWire'
<1> SUFFICES ASSUME IInv, ConnsWithinOnWire, [Next]_vars, NEW u \in URLs
             PROVE  conns'[u] <= Cardinality(OnWire(u)')
  BY DEF ConnsWithinOnWire
<1>1. /\ conns \in [URLs -> Int] /\ conns[u] <= Cardinality(OnWire(u))
      /\ OnWire(u) \in SUBSET Requests /\ OnWire(u)' \in SUBSET Requests
  BY DEF IInv, TypeOK, PoolTypeOK, ConnsWithinOnWire, OnWire
<1>2. Cardinality(OnWire(u)) \in Nat /\ Cardinality(OnWire(u)') \in Nat
  BY <1>1, RequestsAssumption, FS_Subset, FS_CardinalityType
<1>3. CASE \/ DiscoveryNext /\ UNCHANGED proxyVars
           \/ \E v \in URLs : HealthReport(v)
           \/ UNCHANGED vars
  <2>1. OnWire(u)' = OnWire(u)
    BY <1>3 DEF HealthReport, vars, proxyVars, callVars, OnWire
  <2>2. conns'[u] = conns[u] \/ conns'[u] = 0
    <3>1. CASE UNCHANGED conns
      BY <3>1
    <3>2. CASE \E tag \in Sources : syncDNS(tag)
      BY <1>1, <3>2 DEF syncDNS, SyncServersBySource, Reconcile
    <3> QED
      BY <1>3, <3>1, <3>2 DEF DiscoveryNext, DNSChange, HealthReport, MarkHealthy, poolVars, vars
  <2> QED
    BY <1>1, <1>2, <2>1, <2>2
<1>4. CASE ProxyNext
  <2>1. PICK r \in Requests : Arrive(r) \/ ServeHTTP(r)
    BY <1>4 DEF ProxyNext
  <2>2. \A q \in Requests \ {r} : Same(q)
    BY <2>1, BeforeForwarding, ForwardingSteps, DecisionSteps, RetrySteps, EndingSteps
    DEF ServeHTTP, Moved
  <2>3. \A q \in Requests \ {r} : q \in OnWire(u) <=> q \in OnWire(u)'
    BY <2>2 DEF Same, OnWire
  <2>4. Covers(r, u)
    BY <2>1, WireSteps
  <2>5. /\ (r \in OnWire(u) <=> r \in OnWire(u)') => Cardinality(OnWire(u)') = Cardinality(OnWire(u))
        /\ r \notin OnWire(u) /\ r \in OnWire(u)' => Cardinality(OnWire(u)') = Cardinality(OnWire(u)) + 1
        /\ r \in OnWire(u) /\ r \notin OnWire(u)' => Cardinality(OnWire(u)') = Cardinality(OnWire(u)) - 1
    BY <1>1, <2>3, Counted
  <2>6. conns'[u] \in Int
    <3>1. PoolTypeOK'
      BY <2>1, RequestPool
    <3> QED
      BY <3>1 DEF PoolTypeOK
  <2> QED
    BY <1>1, <1>2, <2>4, <2>5, <2>6 DEF Covers
<1> QED
  BY <1>3, <1>4 DEF Next

(***************************************************************************)
(* No leak of connections: however often the entry of a backend is dropped *)
(* and created again between the two calls around an attempt, its counter  *)
(* is at most the number of requests on the wire to it, so that an entry   *)
(* without requests can always be dropped.                                 *)
(***************************************************************************)
THEOREM ConnectionsDoNotLeak == Spec => []ConnsWithinOnWire
<1>1. Init => ConnsWithinOnWire
  <2> SUFFICES ASSUME Init, NEW u \in URLs PROVE conns[u] <= Cardinality(OnWire(u))
    BY DEF ConnsWithinOnWire
  <2>1. conns[u] = 0 /\ OnWire(u) = {}
    BY DEF Init, PoolInit, ProxyInit, OnWire
  <2>2. Cardinality({}) = 0
    BY FS_EmptySet
  <2> QED
    BY <2>1, <2>2
<1> QED
  BY <1>1, NextConns, Invariance, PTL DEF Spec

=============================================================================
