----------------------------- MODULE RedisManager ---------------------------
(***************************************************************************)
(* internal/repository/redismanager: the load balancer instances share a   *)
(* key per backend in Redis and tell each other of changes over Pub/Sub.   *)
(* SET, PUBLISH, GET and MarkHealthy are separate steps.                   *)
(*                                                                         *)
(* Redis runs its commands one at a time.  Pub/Sub keeps the order of the  *)
(* messages to one subscriber but may lose any of them (reconnection, full *)
(* buffer).  A pool is reduced to what a status can touch: its entries and *)
(* their health flags.                                                     *)
(***************************************************************************)
EXTENDS Integers, Sequences

CONSTANTS
  Instances,    \* load balancer processes
  URLs,         \* backends
  MaxInbox,     \* bound on the messages waiting in one subscription
  Order         \* bound on the order of the pool's lists: pairs of backends that
                \* every list has in this order; with {} lists have any order

ASSUME MaxInboxAssumption == MaxInbox \in Nat \ {0}
ASSUME OrderAssumption == Order \subseteq {p \in URLs \X URLs : p[1] # p[2]}

VARIABLES
  known,        \* the entries of each instance's pool
  healthy,      \* their health flags; FALSE without an entry
  subscribed,   \* the instances whose subscription is open
  inbox,        \* messages delivered to an instance and not handled yet
  key,          \* the value of each backend's key in Redis, "none" if absent
  calls,        \* the running calls of UpdateBackendStatus
  todo,         \* per instance, the backends a sync has still to look up
  got           \* per instance, the value that a sync has read, not applied

redisVars == <<known, healthy, subscribed, inbox, key, calls, todo, got>>

StatusValues == {"UP", "DOWN"}
Message == [url : URLs, status : StatusValues]

\* Who makes a call: the checker, a sync, or the proxy (n numbers its goroutines).
Caller == [kind : {"checker", "sync", "proxy"}, instance : Instances, n : Nat]
Call == [by : Caller, url : URLs, status : StatusValues, next : {"set", "publish"}]

RedisTypeOK ==
  /\ known \in [Instances -> SUBSET URLs]
  /\ healthy \in [Instances -> [URLs -> BOOLEAN]]
  /\ \A i \in Instances : \A u \in URLs \ known[i] : ~healthy[i][u]
  /\ subscribed \subseteq Instances
  /\ inbox \in [Instances -> Seq(Message)]
  /\ \A i \in Instances : Len(inbox[i]) <= MaxInbox
  /\ key \in [URLs -> StatusValues \cup {"none"}]
  /\ calls \subseteq Call
  /\ todo \in [Instances -> SUBSET URLs]
  /\ got \in [Instances -> SUBSET Message]

\* Instances that run, with the entries DNS gave them, before any key is written.
RedisInit ==
  /\ known = [i \in Instances |-> URLs]
  /\ healthy = [i \in Instances |-> [u \in URLs |-> TRUE]]
  /\ subscribed = Instances
  /\ inbox = [i \in Instances |-> <<>>]
  /\ key = [u \in URLs |-> "none"]
  /\ calls = {}
  /\ todo = [i \in Instances |-> {}]
  /\ got = [i \in Instances |-> {}]

-----------------------------------------------------------------------------
\* Mutant of MarkHealthy: the flag is set without looking for an entry.
MarkHealthy_NoLookup(i, u, status) ==
  healthy' = [healthy EXCEPT ![i][u] = (status = "UP")]

\* MarkHealthy of the pool of instance i.
MarkHealthy(i, u, status) ==
  healthy' = IF u \in known[i] THEN [healthy EXCEPT ![i][u] = (status = "UP")] ELSE healthy

-----------------------------------------------------------------------------
(***************************************************************************)
(* UpdateBackendStatus, in two phases.  Its two-second context may expire  *)
(* in either; a SET whose answer is lost may still have been executed.     *)
(***************************************************************************)
CheckerOf(i) == [kind |-> "checker", instance |-> i, n |-> 0]
SyncOf(i) == [kind |-> "sync", instance |-> i, n |-> 0]
ProxyOf(i, n) == [kind |-> "proxy", instance |-> i, n |-> n]

UpdateBackendStatus(caller, u, status) ==
  calls' = calls \cup {[by |-> caller, url |-> u, status |-> status, next |-> "set"]}

Calling(caller) == \E c \in calls : c.by = caller

\* Mutant of SetKey: the change is published but not stored.
SetKey_Skipped(c) ==
  /\ c.next = "set"
  /\ calls' = (calls \ {c}) \cup {[c EXCEPT !.next = "publish"]}
  /\ UNCHANGED <<key, known, healthy, subscribed, inbox, todo, got>>

SetKey(c) ==
  /\ c.next = "set"
  /\ key' = [key EXCEPT ![c.url] = c.status]
  /\ calls' = (calls \ {c}) \cup {[c EXCEPT !.next = "publish"]}
  /\ UNCHANGED <<known, healthy, subscribed, inbox, todo, got>>

SetFails(c) ==
  /\ c.next = "set"
  /\ key' = key \/ key' = [key EXCEPT ![c.url] = c.status]
  /\ calls' = calls \ {c}
  /\ UNCHANGED <<known, healthy, subscribed, inbox, todo, got>>

\* PUBLISH, to those subscribers that get it; to none if it fails.
Publish(c) ==
  /\ c.next = "publish"
  /\ \E reached \in SUBSET {i \in subscribed : Len(inbox[i]) < MaxInbox} :
       inbox' = [i \in Instances |->
                   IF i \in reached THEN Append(inbox[i], [url |-> c.url, status |-> c.status])
                                    ELSE inbox[i]]
  /\ calls' = calls \ {c}
  /\ UNCHANGED <<known, healthy, subscribed, key, todo, got>>

-----------------------------------------------------------------------------
(***************************************************************************)
(* StartRedisWatcher: the subscription and the loop that handles messages, *)
(* an instance's own ones among them.                                      *)
(***************************************************************************)
Receive(i) ==
  /\ inbox[i] # <<>>
  /\ MarkHealthy(i, Head(inbox[i]).url, Head(inbox[i]).status)
  /\ inbox' = [inbox EXCEPT ![i] = Tail(@)]
  /\ UNCHANGED <<known, subscribed, key, calls, todo, got>>

-----------------------------------------------------------------------------
(***************************************************************************)
(* SyncOnStartUp, at the start and then every thirty seconds: one backend  *)
(* after the other, a GET and then, by its result, MarkHealthy, a call of  *)
(* UpdateBackendStatus that initialises the key, or nothing.               *)
(***************************************************************************)
Syncing(i) == todo[i] # {} \/ got[i] # {} \/ Calling(SyncOf(i))

\* GetAllServers: the list is a snapshot.
SyncStart(i) ==
  /\ ~Syncing(i)
  /\ todo' = [todo EXCEPT ![i] = known[i]]
  /\ UNCHANGED <<known, healthy, subscribed, inbox, key, calls, got>>

\* The sync has come to u in its list.
AtBackend(i, u) ==
  /\ u \in todo[i] /\ got[i] = {} /\ ~Calling(SyncOf(i))
  /\ \A v \in todo[i] : <<v, u>> \notin Order

\* Mutant of SyncGet: a missing key is initialised with the local status.
SyncGet_Local(i, u) ==
  /\ AtBackend(i, u)
  /\ todo' = [todo EXCEPT ![i] = @ \ {u}]
  /\ key[u] = "none"
  /\ UpdateBackendStatus(SyncOf(i), u, IF healthy[i][u] THEN "UP" ELSE "DOWN")
  /\ UNCHANGED <<known, healthy, subscribed, inbox, key, got>>

SyncGet(i, u) ==
  /\ AtBackend(i, u)
  /\ todo' = [todo EXCEPT ![i] = @ \ {u}]
  /\ \/ /\ key[u] # "none"
        /\ got' = [got EXCEPT ![i] = {[url |-> u, status |-> key[u]]}]
        /\ UNCHANGED calls
     \/ /\ key[u] = "none"
        /\ UpdateBackendStatus(SyncOf(i), u, "UP")
        /\ UNCHANGED got
  /\ UNCHANGED <<known, healthy, subscribed, inbox, key>>

\* The GET fails, for instance because the five seconds are over: skipped.
SyncSkip(i, u) ==
  /\ AtBackend(i, u)
  /\ todo' = [todo EXCEPT ![i] = @ \ {u}]
  /\ UNCHANGED <<known, healthy, subscribed, inbox, key, calls, got>>

SyncMark(i) ==
  /\ \E m \in got[i] : MarkHealthy(i, m.url, m.status)
  /\ got' = [got EXCEPT ![i] = {}]
  /\ UNCHANGED <<known, subscribed, inbox, key, calls, todo>>

=============================================================================
