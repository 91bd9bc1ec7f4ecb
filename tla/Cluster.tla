------------------------------- MODULE Cluster ------------------------------
(***************************************************************************)
(* Several load balancer instances over one Redis: cmd/lb starts each one, *)
(* its watchers fill its pool, its checker and its proxy report statuses,  *)
(* and instances crash and are started again.                              *)
(*                                                                         *)
(* What happens to the cluster from outside (a backend fails or recovers,  *)
(* DNS changes, a request fails, an instance crashes, a SET or GET fails)  *)
(* is an event; a behaviour has at most MaxEvents of them, at any moments. *)
(***************************************************************************)
EXTENDS Checker

CONSTANT MaxEvents      \* bound on the events

ASSUME MaxEventsAssumption == MaxEvents \in Nat

VARIABLES
  pc,           \* how far main has come in each instance
  registered,   \* external: the backends in DNS
  busy,         \* the backends that each instance has a request on the wire to
  failing,      \* those whose failed request has released its connection, not reported yet
  faulty,       \* history: the backends that were down or failed a request
  events        \* how many events have happened

vars == <<redisVars, checkerVars, up, pc, registered, busy, failing, faulty, events>>

\* The stages of main: not running; watchers started; startup sync; first
\* health check about to start, running; requests are served.
Stages == {"off", "boot", "sync", "check", "wave", "serving"}

TypeOK ==
  /\ RedisTypeOK
  /\ CheckerTypeOK
  /\ pc \in [Instances -> Stages]
  /\ registered \subseteq URLs
  /\ busy \in [Instances -> SUBSET URLs] /\ failing \in [Instances -> SUBSET URLs]
  /\ faulty \subseteq URLs
  /\ events \in 0 .. MaxEvents

\* A first deployment that has settled: each instance started before its
\* watchers had filled its pool, so that no sync has seen an entry and no key
\* exists yet.  Starting up from nothing is what follows a crash.
Init ==
  /\ RedisInit
  /\ CheckerInit
  /\ pc = [i \in Instances |-> "serving"]
  /\ registered = URLs
  /\ busy = [i \in Instances |-> {}] /\ failing = [i \in Instances |-> {}]
  /\ faulty = {}
  /\ events = 0

-----------------------------------------------------------------------------
(***************************************************************************)
(* main.  NewRedisManager pings Redis: without an answer the instance runs *)
(* without an updater, without syncs and without a subscription for good.  *)
(***************************************************************************)
Event == events < MaxEvents /\ events' = events + 1

Boot(i) ==
  /\ pc[i] = "off"
  /\ pc' = [pc EXCEPT ![i] = "boot"]
  /\ hasUpdater' = hasUpdater \cup {i}
  /\ UNCHANGED <<redisVars, up, draining, probe, pointee, slots, registered, busy, failing, faulty, events>>

BootDegraded(i) ==
  /\ pc[i] = "off"
  /\ Event
  /\ pc' = [pc EXCEPT ![i] = "check"]
  /\ UNCHANGED <<redisVars, checkerVars, up, registered, busy, failing, faulty>>

StartupSync(i) ==
  /\ pc[i] = "boot"
  /\ pc' = [pc EXCEPT ![i] = "sync"]
  /\ SyncStart(i)
  /\ UNCHANGED <<checkerVars, up, registered, busy, failing, faulty, events>>

StartWatcher(i) ==
  /\ pc[i] = "sync" /\ ~Syncing(i)
  /\ pc' = [pc EXCEPT ![i] = "check"]
  /\ subscribed' = subscribed \cup {i}
  /\ UNCHANGED <<known, healthy, inbox, key, calls, todo, got, checkerVars, up, registered, busy, failing, faulty, events>>

FirstWave(i) ==
  /\ pc[i] = "check"
  /\ pc' = [pc EXCEPT ![i] = "wave"]
  /\ StartWave(i)
  /\ UNCHANGED <<registered, busy, failing, faulty, events>>

Serve(i) ==
  /\ pc[i] = "wave" /\ ~Checking(i)
  /\ pc' = [pc EXCEPT ![i] = "serving"]
  /\ UNCHANGED <<redisVars, checkerVars, up, registered, busy, failing, faulty, events>>

\* The process ends: its pool, its goroutines and its subscription are gone.
Crash(i) ==
  /\ pc[i] # "off"
  /\ Event
  /\ pc' = [pc EXCEPT ![i] = "off"]
  /\ known' = [known EXCEPT ![i] = {}]
  /\ healthy' = [healthy EXCEPT ![i] = [u \in URLs |-> FALSE]]
  /\ subscribed' = subscribed \ {i}
  /\ inbox' = [inbox EXCEPT ![i] = <<>>]
  /\ calls' = {c \in calls : c.by.instance # i}
  /\ todo' = [todo EXCEPT ![i] = {}]
  /\ got' = [got EXCEPT ![i] = {}]
  /\ hasUpdater' = hasUpdater \ {i}
  /\ draining' = [draining EXCEPT ![i] = {}]
  /\ probe' = [probe EXCEPT ![i] = NoProbe]
  /\ pointee' = [pointee EXCEPT ![i] = NoPointer]
  /\ slots' = [slots EXCEPT ![i] = 0]
  /\ busy' = [busy EXCEPT ![i] = {}] /\ failing' = [failing EXCEPT ![i] = {}]
  /\ UNCHANGED <<key, up, registered, faulty>>

-----------------------------------------------------------------------------
(***************************************************************************)
(* The goroutines of a running instance.                                   *)
(***************************************************************************)

(***************************************************************************)
(* A watcher's tick: new entries are healthy, entries that DNS names again *)
(* stop draining, those it names no longer drain while they have a request *)
(* and are dropped otherwise.  An empty answer is ignored.                 *)
(***************************************************************************)
Tick(i, pool, lingering) ==
  /\ pc[i] # "off" /\ registered # {}
  /\ known' = [known EXCEPT ![i] = pool]
  /\ draining' = [draining EXCEPT ![i] = lingering]
  /\ healthy' = [healthy EXCEPT ![i] =
       [u \in URLs |-> u \in pool \ lingering /\ (u \in known[i] => healthy[i][u])]]
  /\ pointee' = [pointee EXCEPT ![i] =
       [u \in URLs |-> IF probe[i][u] # "idle" /\ u \in known[i] \ pool
                         THEN LeftBehind(i, u) ELSE pointee[i][u]]]
  /\ UNCHANGED <<subscribed, inbox, key, calls, todo, got, up, hasUpdater, probe, slots,
                 pc, registered, busy, failing, faulty, events>>

\* Mutant of SyncDNS: entries are added and never dropped.
SyncDNS_AddOnly(i) == Tick(i, known[i] \cup registered, {})

SyncDNS(i) ==
  LET lingering == (known[i] \ registered) \cap busy[i]
  IN  Tick(i, registered \cup lingering, lingering)

PeriodicSync(i) ==
  /\ i \in subscribed
  /\ SyncStart(i)
  /\ UNCHANGED <<checkerVars, up, pc, registered, busy, failing, faulty, events>>

SyncStep(i) ==
  /\ SyncMark(i) \/ \E u \in URLs : SyncGet(i, u)
  /\ UNCHANGED <<checkerVars, up, pc, registered, busy, failing, faulty, events>>

HandleMessage(i) ==
  /\ Receive(i)
  /\ UNCHANGED <<checkerVars, up, pc, registered, busy, failing, faulty, events>>

NextWave(i) ==
  /\ pc[i] = "serving"
  /\ StartWave(i)
  /\ UNCHANGED <<pc, registered, busy, failing, faulty, events>>

CheckBackends(i) ==
  /\ \E u \in URLs : CheckBackend(i, u)
  /\ UNCHANGED <<pc, registered, busy, failing, faulty, events>>

UpdateStep(i) ==
  /\ \E c \in calls : c.by.instance = i /\ (SetKey(c) \/ Publish(c))
  /\ UNCHANGED <<checkerVars, up, pc, registered, busy, failing, faulty, events>>

-----------------------------------------------------------------------------
(***************************************************************************)
(* The other events.                                                       *)
(***************************************************************************)
RedisFails ==
  /\ Event
  /\ \/ \E c \in calls : SetFails(c)
     \/ \E i \in Instances, u \in URLs : SyncSkip(i, u)
  /\ UNCHANGED <<checkerVars, up, pc, registered, busy, failing, faulty>>

BackendChanges(u) ==
  /\ Event
  /\ \/ u \in up /\ up' = up \ {u} /\ faulty' = faulty \cup {u}
     \/ u \notin up /\ up' = up \cup {u} /\ UNCHANGED faulty
  /\ UNCHANGED <<redisVars, checkerVars, pc, registered, busy, failing>>

DNSChanges(u) ==
  /\ Event
  /\ registered' = IF u \in registered THEN registered \ {u} ELSE registered \cup {u}
  /\ UNCHANGED <<redisVars, checkerVars, up, pc, busy, failing, faulty>>

RequestStarts(i, u) ==
  /\ pc[i] = "serving" /\ u \in known[i] /\ healthy[i][u] /\ u \notin busy[i] \cup failing[i]
  /\ Event
  /\ busy' = [busy EXCEPT ![i] = @ \cup {u}]
  /\ UNCHANGED <<redisVars, checkerVars, up, pc, registered, failing, faulty>>

-----------------------------------------------------------------------------
(***************************************************************************)
(* A request (see Proxy) releases its connection when its attempt is over. *)
(* The retry path of one that has failed comes later: it looks at the flag *)
(* of the entry there is then, marks the backend unless it is down already *)
(* (an entry that is gone is not), and tells Redis from a new goroutine.   *)
(* A request that fails and is not retried reports as little as a success. *)
(***************************************************************************)
RequestSucceeds(i, u) == UNCHANGED <<failing, faulty>>

RequestFails(i, u) ==
  /\ failing' = [failing EXCEPT ![i] = @ \cup {u}]
  /\ faulty' = faulty \cup {u}

RequestEnds(i) ==
  /\ \E u \in busy[i] :
       /\ busy' = [busy EXCEPT ![i] = @ \ {u}]
       /\ RequestSucceeds(i, u) \/ RequestFails(i, u)
  /\ UNCHANGED <<redisVars, checkerVars, up, pc, registered, events>>

AlreadyDown(i, u) == u \in known[i] /\ ~healthy[i][u]

MarkDown(i, u) ==
  /\ ~AlreadyDown(i, u)
  /\ MarkHealthy(i, u, "DOWN")
  /\ IF i \in hasUpdater
       THEN \E n \in 1 .. MaxEvents :
              /\ ~Calling(ProxyOf(i, n)) /\ \A m \in 1 .. n - 1 : Calling(ProxyOf(i, m))
              /\ UpdateBackendStatus(ProxyOf(i, n), u, "DOWN")
       ELSE UNCHANGED calls

ReportFailure(i) ==
  /\ \E u \in failing[i] :
       /\ failing' = [failing EXCEPT ![i] = @ \ {u}]
       /\ \/ AlreadyDown(i, u) /\ UNCHANGED <<healthy, calls>>
          \/ MarkDown(i, u)
  /\ UNCHANGED <<known, subscribed, inbox, key, todo, got, checkerVars, up, pc, registered, busy, faulty, events>>

-----------------------------------------------------------------------------
Startup(i) == Boot(i) \/ StartupSync(i) \/ StartWatcher(i) \/ FirstWave(i) \/ Serve(i)

Sync(i) == PeriodicSync(i) \/ SyncStep(i)

HealthCheck(i) == NextWave(i) \/ CheckBackends(i)

Run(i) ==
  \/ Startup(i) \/ SyncDNS(i) \/ Sync(i) \/ HandleMessage(i) \/ HealthCheck(i)
  \/ UpdateStep(i) \/ RequestEnds(i) \/ ReportFailure(i)

Next ==
  \/ \E i \in Instances : Run(i) \/ BootDegraded(i) \/ Crash(i)
  \/ \E u \in URLs : BackendChanges(u) \/ DNSChanges(u)
  \/ RedisFails
  \/ \E i \in Instances, u \in URLs : RequestStarts(i, u)

Spec == Init /\ [][Next]_vars

(***************************************************************************)
(* Every goroutine that is not blocked runs on; tickers fire; calls end,   *)
(* by an answer or by their deadline; ECS restarts a task that has ended.  *)
(* Nothing is assumed of the delivery of messages.  The steps of Startup,  *)
(* of Sync and of HealthCheck exclude each other: one is enabled until it  *)
(* is taken, so that fairness of all together is fairness of each.         *)
(***************************************************************************)
Fairness ==
  \A i \in Instances :
    /\ WF_vars(Startup(i)) /\ WF_vars(SyncDNS(i)) /\ WF_vars(Sync(i))
    /\ WF_vars(HandleMessage(i)) /\ WF_vars(HealthCheck(i)) /\ WF_vars(UpdateStep(i))
    /\ WF_vars(RequestEnds(i)) /\ WF_vars(ReportFailure(i))

FairSpec == Spec /\ Fairness

-----------------------------------------------------------------------------
(***************************************************************************)
(* Whatever a bounded number of failures, restarts, DNS changes and lost   *)
(* messages did, in whatever order late statuses, stale reads and old      *)
(* writes arrived: in the end every instance holds exactly the backends of *)
(* DNS with the health they really have, and so does Redis, and stays so.  *)
(***************************************************************************)
Agreed ==
  registered # {} =>
    /\ \A i \in Instances : known[i] = registered
    /\ \A i \in Instances, u \in registered : healthy[i][u] <=> u \in up
    /\ hasUpdater # {} => \A u \in registered : key[u] = IF u \in up THEN "UP" ELSE "DOWN"

Converges == <>[]Agreed

(***************************************************************************)
(* Only a real failure makes a backend DOWN for the other instances.  An   *)
(* entry is unhealthy also while it drains and after a restart, but that   *)
(* is local: no sync, no late probe and no initialisation of a missing key *)
(* tells Redis, or an instance through Redis, that a backend is down which *)
(* never was.                                                              *)
(***************************************************************************)
OnlyFailuresSpread ==
  \A u \in URLs \ faulty :
    /\ key[u] # "DOWN"
    /\ \A c \in calls : c.url = u => c.status = "UP"
    /\ \A i \in Instances :
         /\ [url |-> u, status |-> "DOWN"] \notin got[i]
         /\ \A m \in 1 .. Len(inbox[i]) : inbox[i][m] # [url |-> u, status |-> "DOWN"]

=============================================================================
