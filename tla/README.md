# Verification of the HA layer-7 load balancer

TLA+ models of the load balancer in `src/`: what its components promise each
other, what requests, DNS watchers, health reports, restarts and shutdowns can do
to each other, and theorems that hold for any number of them.

## 1. The system

One load balancer process (`cmd/lb/main.go`) runs, over one shared pool:

| Component | Code | State | Operations |
|---|---|---|---|
| Backend pool | `repository/in_memory.go`, `models.go` | slice of `*ServerState` under an RWMutex: URL, source tag, weight, healthy, draining, active connections | `GetHealthy`, `GetAllServers`, `MarkHealthy`, `Add/RemoveConnections`, `SyncServers`, `SyncServersBySource` |
| Reverse proxy | `proxy/proxy.go` | two atomic counters; per request the call stack of `ServeHTTP` | one goroutine per request: select, forward, retry once, answer, record |
| Routing | `algorithms/*.go` | weighted: stock of picks per URL; round robin: a ticket counter; least connections: none | `GetTarget` |
| DNS discovery | `discovery/dns.go` | none; one goroutine per configured host name | every 5 s: look up, reconcile the entries of that host name |
| Health checker | `health/checker.go` | a `checking` flag, a semaphore of 10 | every interval: probe all entries in parallel, mark and publish changes |
| Redis coordination | `repository/redismanager/redis.go` | a key per backend, a Pub/Sub channel | publish a status, subscribe, sync at startup and periodically |
| Metrics collector | `metrics/collector.go` | totals, counters per backend, a reservoir of latencies, a time series, under an RWMutex | `RecordRequest`, `RecordTimeSeriesPoint`, `GetSummary`, `ExportCSV` |
| Process life cycle | `cmd/lb/main.go` | the two servers, the recorder, the shutdown goroutine, one export file | startup order, export over HTTP, graceful shutdown |
| Configuration, test backend, infrastructure | `config`, `cmd/backend`, `terraform`, `locust`, `scripts` | | not modelled (section 6) |

They interact through the pool, and with the metrics through the collector. A request takes a URL from the pool,
releases the lock, and comes back later with that URL; meanwhile a watcher may
have drained, dropped or re-created the entry and a health report may have
flipped its flag. The checker, the Redis subscriber and the periodic sync all
reach the pool through `MarkHealthy`. The proxy itself marks a backend down and
publishes that from a goroutine of its own.

What is hard: requests interleaved with reconciliation (URLs that outlive their
entry, pointers that outlive their slice); the retry decision, made from two
counters and a flag read at different moments; early returns and deferred
decrements; several watchers rebuilding one slice; statuses that arrive late, by
three channels, over a lossy one; startup before discovery has run; probes that
outlive the entry they were started for; callers of one policy that hold lists of
different ages; a shutdown that races with requests, exports and the recorder.

What makes each part correct:

- pool: one entry per backend, sources do not disturb each other, an entry that
  stays keeps its object and its counter, a drained entry eventually goes;
- proxy: counters balanced on every path, an unsafe request never runs twice,
  one answer, metrics that agree with the answer, every request finishes;
- weighted routing: picks in proportion to the weights whatever comes and goes;
- round robin, least connections: the contract of the `Rule` interface, even
  turns, and the busiest backend is never chosen of several;
- checker: at most ten probes, no slot lost, no stale verdict that stays;
- Redis: instances agree with each other and with reality once nothing fails any
  more, and only a real failure is spread;
- metrics: the breakdowns add up, the sample is fair, percentiles are large
  enough, and a drain that ended in time loses no request.

The hazards, with the line at which each one bites and the property that is
about it, are in `PROJECT.json`.

## 2. Modules

| Module | Models | Relation |
|---|---|---|
| `Pool` | the `SharedState` interface: a set of backends with flags and counters | abstract specification |
| `InMemory` | the slice of pointers behind it, `SyncServers` and `SyncServersBySource` | shown to implement `Pool` by refinement |
| `Discovery` | DNS records and watcher ticks | extends `Pool` |
| `Proxy` | `ServeHTTP` of concurrent requests, `proxyRequest`, `selectDifferent` | extends `Pool` |
| `LoadBalancer` | the process: proxy, watchers and health reports over one pool; properties | composes `Proxy` and `Discovery` |
| `Weighted` | the table of `Weighted.GetTarget`: what a call that finds the healthy set `H` and returns `u` does to it | |
| `Rule` | the contract of the `Rule` interface | abstract specification |
| `Selection` | the frame of a call of `GetTarget`: the list it has read, its answer | |
| `RoundRobin`, `LeastConnections` | the two policies with concurrent callers | extend `Selection` |
| `Routing` | the process with one of the three policies | composes the three, shown to implement `Rule` and `Weighted` |
| `RedisManager` | the keys, Pub/Sub, the two-phase update, the syncs of several instances | pools reduced to entries and flags |
| `Checker` | the probe waves of every instance: slots, draining, pointers | extends `RedisManager` |
| `Cluster` | several processes: startup, DNS, syncs, waves, requests, crashes and restarts | composes the two |
| `Collector` | totals, reservoir, time series, percentiles | |
| `Lifecycle` | one process from `ListenAndServe` to its exit: records, recorder, exports, shutdown | extends `Collector` |
| `LoadBalancerProofs`, `InMemoryProofs`, `WeightedProofs`, `RoutingProofs`, `ClusterProofs`, `LifecycleProofs` | theorems | each extends the module it is named after |
| `CollectorProofs` | lemmas about sorting, percentiles and the reservoir | `LifecycleProofs` extends it |
| `DataLemmas` | induction over numbers and finite sets, enumerations, sums | the modules of proofs about sequences and tables extend it |
| `MCLoadBalancer`, `MCInMemory`, `MCRouting`, `MCCluster`, `MCLifecycle` | constants for TLC | one per model |

**State and code.** `servers`, `healthy`, `draining` and `conns` of `Pool` are
the entries of `InMemory.servers` indexed by URL. This is exact while no URL
belongs to two DNS sources (`SourceAssumption`). `Weight` and `LastCheck` are
left out. In `InMemory`, `slice` is the Go slice, `state` the heap behind it;
addresses are model values, a new object may get any free address, and an
object that the slice drops is forgotten. `Filter(s, S)` is what the loops that
append matching entries collect; it is the `SelectSeq` of the standard module,
whose recursive definition the provers cannot expand, and `MCInMemory` has TLC
compare the two.

`pc[r]` in `Proxy` is where a call of `ServeHTTP` is. A step is one access to
something another goroutine can see: a call into the pool, one atomic load or
add, a backend attempt, a call of the collector. The code between two accesses
belongs to the earlier one (so `ReleaseFirst` also contains the decisions that
read only local variables). The retry budget is two loads in two steps
(`LoadTotal`, `CheckBudget`) and the increment a third (`CountRetry`); the
debounce (`Debounce`) and `MarkDown` are two steps; the deferred calls run in
reverse order as three steps. `attempts`, `responses` and `records` are the
histories that the properties are about: they stand for the calls made to the
backend, the response writer and the collector.

How an attempt ends is one of seven results, the ones that the code tells
apart: a delivered answer, an answer whose body broke off after the head was
written, and five errors (5xx, deadline, transport error, one whose text says
"reset" or "broken pipe", cancellation). Bodies, headers and paths are left out.

The snapshot of counters that `selectDifferent` compares is taken at one
instant; the code reads them one by one through atomics, so it may see counters
of different instants. That can only change which healthy backend is preferred,
which no property here is about. Likewise the algorithms are represented in
`Proxy` by their contract, any backend that was healthy at the call; `Routing`
shows that all three keep it.

In `Routing` a call takes its list from the pool in one step (`StartCall`) and
uses it in later ones, whatever the pool's list has become: `stage`, `servers` and
`answer` are its frame. Round robin draws its ticket in one step, as the atomic
add makes its index one. Least connections picks and reads the first counter in
one step and reads the second in another. A call of the weighted policy takes its
mutex first, looks up its list under it (`StartCall` needs `Unlocked`) and returns
with a backend of that list and a changed table in one step (`WeightedCall`), since
nobody else reads the table; meanwhile the pool may have changed. Which backend of
those in stock it ends at is a choice of the model: `GetTarget(H, u)` of `Weighted`
says what may be returned and what becomes of the stocks, and `WeightedCall` puts
`u` into `answer`, which the contract judges. `Weighted` alone is for any sequence
of healthy sets. The
ticket counter counts modulo `Modulus`. `turns` and `irregular` are histories:
how often each position of the current list had its turn, and how many wraps and
tickets for older lists may have disturbed that.

`bySource` says which of the two reconciling methods the process of `InMemory`
uses; `cmd/lb` uses `SyncServersBySource`.

In `LoadBalancer`, a `HealthReport` names any backend at any time with any of the
statuses in `Reports`. It stands for the checker, the subscriber and the periodic
sync, which the load balancer cannot order; nothing is assumed about who is
right. `Cluster` is the other half: it models those three in full, and reduces a
request to what they see of it: that it keeps an entry from being dropped
(`RequestStarts`) until its attempt is over (`RequestEnds`), and the DOWN that the
retry path of a failed one reports later (`ReportFailure`).

In `Cluster`, SET, PUBLISH, GET and `MarkHealthy` are separate steps, so that a
sync can apply a value that is no longer in Redis and two callers can write key
and channel in different orders. `calls` holds the running calls of
`UpdateBackendStatus`, `todo` and `got` the place of a sync in its loop. A probe
keeps a pointer to its entry: `pointee` is the flag behind it once the entry has
left the pool. `draining` are the entries that a request keeps although DNS no
longer names them; a probe looks at that flag when it has its slot and not again.
`slots` counts what the semaphore has given out. Two pairs of accesses are one
step: compare and `MarkHealthy` in `Report` (a change in between has the effect of
one before or after both, as the comment there explains), and debounce and mark in
`ReportFailure` (`Proxy` has them apart). What comes between those two can only
change the flag that the mark then sets to down in any case; a debounce that finds
the entry up although somebody else's DOWN comes before the mark publishes DOWN once
more, which is left out here. The release
of the connection and the report are apart (`failing` holds the requests between
them), so that a tick can drop the draining entry first: `AlreadyDown` is then
false, as in the code, nothing is marked, and DOWN is published all the same. That
the entry has even been created again by then takes three events (a request and
two DNS changes), one more than the runs have; the theorems are about any number.
One request per instance and backend
is enough there, since `Cluster` asks only whether there is one. `faulty` is a
history, the backends that were down or failed a request. `Init` is a first deployment that has settled, without keys; the
start from nothing is what follows a `Crash`.

In `Lifecycle` a request is in `ServeHTTP` until its one record, or ends
unrecorded (413, 500, 503). Requests and exports may also arrive while their server
is shutting down, on a connection that the listener had accepted: `Shutdown` waits
for these, too. A signal before `ListenAndServe` finds a server that has nothing to
drain. Left out are connections accepted in time whose request arrives only after
the deadline. `CreateFile`, `WriteLine` and `CloseFile` are
`ExportCSV`, which holds the read lock all the time, so that no record is made
meanwhile (`Unread`); `ServeFile` is the handler's `http.ServeFile`. An export that
fails is answered with 500 and may be tried again: one that cannot create the file
changes nothing, one whose write fails leaves the file as it is (`WriteFails`). An
error of the deferred flush comes after the error that `ExportCSV` returns has been
read: the points it loses are missing from the file, which is served like a whole
one (`FlushFails`). The lock is a
Go `RWMutex`: whoever wants to record meanwhile is `waiting`, and nobody who waits
lets a new reader in, neither an export nor the summary of the shutdown. The deferred
calls of `ExportCSV` run in reverse order, flush before close. `Draws(n)` is the
range of the random number for the n-th request; `UniformSample` enumerates all
sequences of draws. Latencies are whole milliseconds, and rates and averages,
which are quotients of what is kept, are left out.

## 3. Runs

| Run | Instance | States | Shows |
|---|---|---|---|
| `lb_safety` | 2 requests, 2 backends, results ok/5xx, all reports, free DNS | 718 000 | counters exact, connection counters bounded, types |
| `lb_outcomes` | 1 request, 2 backends, all seven results, fairness | 77 000 | safe re-execution, one response, records agree with answers; requests finish, drains complete |
| `slice` | 3 URLs in 2 sources, 4 addresses, either method | 6 400 | slice implements pool; unique URLs, isolation, stable pointers |
| `routing` | 3 backends, 5 lists, 2 callers, 5 turns; weights 3, 2, 0 (invalid), 3 refills | 411 000 | each of the three policies keeps the contract; even turns, busiest spared, stocks in range, proportional shares |
| `cluster_instances` | 2 instances, 1 backend, 1 event, fairness | 399 000 | instances and Redis agree again after any one event |
| `cluster_dns` | 1 instance, 2 backends, 1 slot, 2 events, fairness | 496 000 | the same when DNS, requests, failures and restarts overlap; slots exact, only failures spread, types |
| `lifecycle` | 3 requests, reservoir of 2, 2 exporting clients, 1 point, disk errors, fairness | 459 000 | breakdowns, fair sample, percentiles; drains lose nothing, lone exports complete, the process ends |
| `conns_negative` | 1 request | | refutes "tracks in-flight requests" |
| `retry_budget` | 2 requests | | refutes "max 20% ... may be retries" |
| `draining_selected` | late UP | | refutes "a draining backend accepts no new requests" |
| `reset_unanswered` | result reset | | refutes "caused by the client disconnecting" |
| `mixed_record` | results 5xx and timeout | | refutes the meaning of the arguments of `RecordRequest` |

**Bounds.** `Requests`: each model request is one call of `ServeHTTP`, so
nothing repeats. Two are needed for one request to fail while another holds a
connection or a retry. The run over all seven results has one, to stay small:
it lacks the connections that other requests hold, which the theorems of
section 5 make up for, as they are about any number of requests. `URLs`: two
backends of one source let a retry succeed and let one drain while the other
stays; several sources meet in `slice`, where their isolation is at stake.
`Outcomes` and `Reports` restrict a run to what it is about; the run over
outcomes has all of them. `MaxConns` = 1
bounds the counters of `InMemory` between -1 and 1: reconciliation only looks at
the sign. `Refs` has one address more than there are URLs, so that a new object
can differ from any dropped one.

`Lists` of `routing` has a list of each length up to three and one of them in
another order; the list of two lacks the backend of weight 3, which can thus leave
with stock and come back. `Modulus` = 4 makes the counter wrap where four is not a multiple
of the length (three) and where it is (one and two), as 2^64 is for some lengths
and not for others. `MaxTurns` = 5 bounds the turns of one position and the
disturbances. Positions then differ by what `EvenTurns` allows also after irregular
turns, so the run decides whether a wrap or an old list disturbs by one or by more.
`Loads` of 0 and 1 give every outcome of the comparison.
`MaxEpochs` = 3 refills show a full cycle after any start.

`MaxInbox` = 1 message waits per subscription; more are
lost, which Pub/Sub allows for every message anyway. `MaxProbes` = 1 is the
semaphore of ten in a pool of two, so that one probe has to wait for the other.
`Order` fixes the order in which the syncs of `cluster_dns` go through the two
backends; the other order is the same with the names exchanged, and what is left out
is an order that changes from one sync to the next. The theorems are about any
`Order`, also the empty one, which leaves the order open.
`MaxEvents` bounds what
comes from outside the cluster. One is enough for stale writes of one
instance to meet the other's; two let a crash or a DNS change fall into the
middle of the handling of another event. Two instances with two events are too
many states for a run of minutes.

`MaxSamples` = 2 with three requests takes the reservoir past its limit. Its
percentiles are those of one and two samples, the sizes at which the index is at
the ends of the slice. Two clients that export again and again are what it takes to share the file, and
`MaxPoints` = 1 point tells an empty file from a whole one.

Symmetry is used in the safety runs of the proxy and of the slice, over
requests, backends of one source and addresses, and in `routing` over callers.

**Deadlock** is checked in every run but `lifecycle`, whose process ends. In the
others DNS, reports and tickers keep the process going. Requests that get stuck
are the business of `RequestsFinish`.

**Fairness.** Weak fairness of every goroutine of a request except while it
reads the request body, and of every watcher tick. It rests on the Go scheduler,
on the deadline that `proxyRequest` puts on its context and on the five-second
ticker. The server sets no read or write timeout, so nothing bounds a client
that does not finish its body: `RequestsFinish` starts after that step. It also
assumes that a client reads its answer or disconnects. Nothing is assumed of
clients, DNS or health reports. `DrainCompletes` has a premise the code needs:
the source keeps at least one address, since an empty answer is ignored.

In `Cluster` every goroutine that is not blocked runs on, the tickers fire, calls
and requests end (each has a deadline) and ECS restarts a task that has ended. The
steps of one goroutine that exclude each other share one fairness condition, which
says the same as one for each.
Nothing is
assumed of the delivery of messages: `Converges` holds with every one of them
lost, because the periodic sync reads what a message would have said. Failures of
SET and GET are events like the others, since nothing agrees through a Redis
that never answers. A restart may find Redis absent (`BootDegraded`); that
instance then relies on its own waves.

In `Lifecycle` the shutdown goroutine and its ten-second timer are fair, and so is
the collector's lock: an export that holds it writes its lines to a local file or
fails, and who waits for it gets it (`LockMovesOn`). Requests, the recorder and the
clients of exports may hang, and the process still ends.

**Mutants.** Every property of a passing run is violated by an altered
definition named after the one it replaces (`AfterFirst_CopyError` and so on).
Each is a slip that could be made at that line: a dropped test, a missing
`defer`, an entry that is not tagged, a comparison with `=` for `<=`. That last
one is worth a note: counters can be negative (below), so an entry that is
dropped only at exactly zero could stay in the pool forever. The mutants of the
others: a signed ticket counter, a second random index that is not shifted, a
semaphore slot kept on the early return, a missing key initialised with the local
flag, a pick from every registered backend in stock instead of the caller's candidates,
a reservoir draw that leaves out the request itself, a file closed before it
is flushed, a shutdown that is not waited for.

## 4. What the code does that its comments deny

1. `ActiveConnections` can become and stay negative: the entry is dropped
   between selection and increment and created again before the decrement.
2. The retry budget can be exceeded by requests that fail together.
3. A draining backend can be selected: `MarkHealthy` ignores `Draining`.
4. A backend that resets the connection is taken for a client that left: the
   client gets an empty 200, no retry is made and the backend is not marked.
5. After two failures of different kinds the record names the backend of the
   first and the timeout flag of the second, and `retried` is false.

## 5. Theorems

Checked by TLAPS for every finite set of requests, every set of backends and
sources, any restriction of results and reports:

- `TypeCorrect`, `ReexecutionIsSafe`, `RespondsOnce`, `RecordsMatch`,
  `CountersAreExact`, `ConnectionsDoNotLeak` in `LoadBalancerProofs`;
- `WeightedTypeCorrect`, `StockInRange`, `SharesAreProportional` in
  `WeightedProofs`, for any weights and any bound on the refills;
- `SliceTypeCorrect`, `OneEntryPerBackend`, `PointersAreStable`,
  `SourcesAreIsolated`, `HealthyListAgrees` and the refinement
  `SliceImplementsPool` in `InMemoryProofs`, for any finite set of URLs, any
  sources, either reconciling method, any bound on the counters;
- `RoutingTypeCorrect`, `ContractIsMet`, `BusiestIsSpared`, `TurnsAreEven` and
  `RoutingIsProportional` in `RoutingProofs`, for
  any callers, lists, loads, weights and width of the ticket counter;
- `ClusterTypeCorrect`, `NoSlotIsLost`, `FalseAlarmsDoNotSpread` in
  `ClusterProofs`, for any instances, backends, capacities and number of events;
- `LifecycleTypeCorrect`, `DrainLosesNothing`, `LoneExportsAreComplete`,
  `SummariesAddUp`, `PercentilesAreLargeEnough`, `SamplesAreFair` in
  `LifecycleProofs`, for any requests, records, exports and limits.

Every invariant and every action property that a run checks is one of these.

**The argument.** None of the first four is inductive: that a request was
attempted twice says nothing unless it is known what its first attempt was and
which decisions it passed. `IInv` adds `Control(r)`, which states for each
control point what has happened to the request by then (`Untried`, `TriedOnce`,
`FailedOnce`, `MayRetry`, `TriedTwice`, `Finished`). Each step of a request moves
only that request (`Moved`), and what it does to the pool is one call of
`SharedState`, each of which keeps the pool's type (`PoolOperations`); watchers
and reports leave requests alone. The four theorems follow from `IInv`.

The counters need counting: a step of `r` moves `r` alone in or out of
`InFlight`, `InRetry` and `OnWire(u)`, so their cardinalities change by one
(`Counted`), and each action changes the counter by the same (`BudgetCounters`)
or no more than that (`WireSteps`). That `fail` is reached both with and without
a retry under way is why `IInv` is needed again: `newBackendURL` tells them
apart.

For `Weighted`, `Account(u)` says that picks plus stock never exceed the weight
times the epochs begun, and equal it for a backend that was never away.

For `Routing`, `RInv` says what a caller in the middle of a call holds: the list it
has read and, once it has picked, two different entries of it with the load of the
first, which is still right while no counter has changed (`Holds`). The contract
follows step by step: a call of `GetTarget` maps to `Ask` and `Answer` or `Error`
of `Rule`, everything else to a stutter or to `HealthChanges`. For the weighted
policy this rests on `WeightedReturns`: what the table lets a call return, with or
without a refill, is in the list that the call got. The same calls are steps of
`WeightedSpec` (`StocksAreWeighted`), whose theorems thus hold of the load balancer
(`RoutingIsProportional`). For `TurnsAreEven`
that is not enough: the difference of two positions' turns depends on where the
counter stands between them. `Balanced` adds it: `Until(k)` is the number of
tickets until position `k` has its turn, and of two positions only the one that
waits longer may be a turn ahead, up to the disturbances that `irregular` counts.
A regular ticket moves every position one nearer and the one it serves to the end
(`NextPosition`); a wrap where the modulus is not a multiple of the length shifts
all of them by at most one turn.

For `InMemory`, unique URLs are not inductive. `SyncServersBySource` looks for a
URL among the entries of its own tag only; an entry of that URL under another tag
would be kept next to the new one. `MInv` therefore adds `TagsTrue`: as long as the
process reconciles per source, an entry has the tag of the source that its URL
belongs to. A reconciliation is then put into words once (`Reconciled`): the new
slice has the entries of the others, a pointer for each current backend, kept or
new, and those that still drain, and these three have no URL in common.
`EntriesAfter` reads off what each backend's entry is afterwards, whence the
invariant, the isolation of the sources, the stable pointers and the step of
`Pool`. A step of the slice maps to the step of the same name of `Pool`: a lookup
finds the one entry of a backend, and what `Filter` leaves in the slice is a set
in `Pool`.

For `Cluster`, the slots of an instance equal the number of its probes in
`Holding`, a finite set whatever the pool is (`SlotsInv`); each step of a probe
moves one backend in or out of it. `FaultInv` adds to `OnlyFailuresSpread` what
makes it inductive: a backend that has not failed is up, and no probe has found it
down. Statuses are then only copied: from a probe to a call, from a call to the
key and to messages, from the key to a sync (`CleanRun`).

For `Lifecycle`, `CountInv` counts the recorded requests, `ShutdownInv` says what
each stage of the shutdown has in hand, and `ExportInv` that an export which is
not `disturbed`, by another one or by a failed flush, owns the file. `BreakdownInv` adds to `Breakdown` that the table of
backends is finite, which a sum needs: then a record changes one term of it
(`SumUpdate`), by what it adds to the totals.

Percentiles and the sample rest on the type of the reservoir and on facts about
data. `SortedOrder`: the sorted copy lists the sample by an injection, so that at
least `k` values are no larger than its `k`-th (`RankCovers`); the rest is the
arithmetic of the index. `ReservoirFair` counts outcomes of the draws: one of `n` + 1 draws is
one of `n` and a last one (`CountPairs`); of the last draws, `MaxSamples` bring the
new request in (`NewKept`) and exactly one puts a given old one out, as nobody is
in the sample twice (`OldKept`, `SamplesFair`). Hence every request is kept in
`MaxSamples` times as many outcomes as `n` - 1 draws have (`KeepingCount`), of
`n` requests.

**Induction.** The induction theorems of the library take a predicate as
parameter, which the provers cannot instantiate. `DataLemmas` derives from
well-foundedness induction principles whose parameter is a set, the set of those
numbers or subsets that have the property (`Induction`, `SetInduction`). With
them the recursive functions behind the sum of a table and behind `SampleOf` are
shown to exist and to be what their equations say (`PartialSumsExist`,
`RunExists`), so that these facts about data are proved as well.

**Assumptions**: `RequestsAssumption` (finitely many requests, in `Proxy`),
`SourceAssumption`, `NoURLAssumption` (the marker is not a backend),
`OutcomesAssumption`, `ReportsAssumption`, `RetriesAssumption`,
`WeightAssumption` (weights are integers, also invalid ones),
`MaxEpochsAssumption`; `ListsAssumption` (no backend is twice in a list, which
`slice` shows of the pool), `LoadsAssumption`, `ModulusAssumption`,
`MaxTurnsAssumption`; `MaxInboxAssumption`, `OrderAssumption` (pairs of different
backends), `MaxProbesAssumption`,
`MaxEventsAssumption`; `InMemoryAssumption` (finitely many URLs and at least as
many addresses; a tag is not empty); `LatenciesAssumption`, `MaxSamplesAssumption`,
`RecordsAssumption`, `MaxPointsAssumption`. TLC evaluates all of them.

**Only model-checked**: the four liveness properties `RequestsFinish`,
`DrainCompletes`, `Converges` and `ExitsAfterSignal`, since fairness and `ENABLED`
are out of the prover's reach, and the five runs that refute a comment, which are
counterexamples.

## 6. Not modelled, and the plan

Not modelled at all: configuration parsing (read once; its values are the
constants), the test backend (the modules treat backends as arbitrary),
Terraform, Locust, scripts and results. Within the modelled parts:

- bodies, headers and paths of requests, and latencies outside `Collector`;
- `LastCheck`, which `/health/backends` reads without the lock that guards its
  writes: a data race, on a value that is only displayed;
- the other metrics endpoints, which only read;
- requests on connections accepted in time that come only after the deadline of the
  shutdown;
- two configured backends with one host name and different ports, which share a
  source tag, so that each watcher drops the other's entries at every tick: a
  mistake in the configuration rather than a race.

That the first check runs before traffic arrives (`checker.go:56`) is not a
property of the code, since the pool may still be empty then. `Cluster` has both
orders and shows that it ends well.

Left to do, in this order:

1. Theorems that tie the layers together: what `LoadBalancerProofs` shows over
   `Pool`, stated over `InMemory` through `SliceImplementsPool`.
2. The safety half of the liveness properties, as invariants with proofs: that a
   request which has not finished always has a step to take, that a drained
   entry without requests is dropped by the next tick.
3. A pool with two endpoints of one host name in `InMemory`.
