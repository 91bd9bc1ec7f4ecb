-------------------------------- MODULE Pool --------------------------------
(***************************************************************************)
(* The backend pool of one load balancer, as internal/repository promises  *)
(* it to its users through the SharedState interface: a set of backends,   *)
(* each with a health flag, a draining flag and a counter of active        *)
(* connections.  Every operation runs under InMemory.mu, so each one is a  *)
(* single atomic action here.                                              *)
(*                                                                         *)
(* The pool is indexed by URL.  That is exact when no URL is discovered by *)
(* two DNS sources, which the constant SourceOf states: every URL belongs  *)
(* to one source.  InMemory.tla models the slice of pointers behind this   *)
(* interface and is checked to implement this specification.               *)
(*                                                                         *)
(* Left out: Weight (fixed when the entry is created, see Weighted.tla)    *)
(* and LastCheck (only displayed).                                         *)
(***************************************************************************)
EXTENDS Integers

CONSTANTS
  URLs,       \* backend URLs that DNS can ever return
  Sources,    \* DNS host names, one watcher each (the SourceTag of an entry)
  SourceOf    \* the source that discovers each URL

ASSUME SourceAssumption == SourceOf \in [URLs -> Sources]

VARIABLES
  servers,    \* the URLs that have an entry in InMemory.servers
  healthy,    \* ServerState.Healthy
  draining,   \* ServerState.Draining
  conns       \* ServerState.ActiveConnections

poolVars == <<servers, healthy, draining, conns>>

(***************************************************************************)
(* A URL without an entry has no flags and no counter; the three functions *)
(* give it these fixed values so that equal pools are equal states.        *)
(***************************************************************************)
PoolTypeOK ==
  /\ servers \subseteq URLs
  /\ healthy \in [URLs -> BOOLEAN]
  /\ draining \in [URLs -> BOOLEAN]
  /\ conns \in [URLs -> Int]
  /\ \A u \in URLs \ servers : ~healthy[u] /\ ~draining[u] /\ conns[u] = 0

\* NewInMemory([]url.URL{}, []int{}): main starts with an empty pool.
PoolInit ==
  /\ servers = {}
  /\ healthy = [u \in URLs |-> FALSE]
  /\ draining = [u \in URLs |-> FALSE]
  /\ conns = [u \in URLs |-> 0]

-----------------------------------------------------------------------------
(***************************************************************************)
(* Queries.                                                                *)
(***************************************************************************)
GetHealthy == {u \in servers : healthy[u]}

SourceURLs(tag) == {u \in URLs : SourceOf[u] = tag}

(***************************************************************************)
(* Updates.  A call that names a URL without an entry changes nothing.     *)
(***************************************************************************)
MarkHealthy(u, status) ==
  /\ healthy' = IF u \in servers THEN [healthy EXCEPT ![u] = status] ELSE healthy
  /\ UNCHANGED <<servers, draining, conns>>

\* Mutant of AddConnections: no lookup, the counter moves without an entry.
AddConnections_NoLookup(u, n) ==
  /\ conns' = [conns EXCEPT ![u] = @ + n]
  /\ UNCHANGED <<servers, healthy, draining>>

AddConnections(u, n) ==
  /\ conns' = IF u \in servers THEN [conns EXCEPT ![u] = @ + n] ELSE conns
  /\ UNCHANGED <<servers, healthy, draining>>

RemoveConnections(u, n) ==
  /\ conns' = IF u \in servers THEN [conns EXCEPT ![u] = @ - n] ELSE conns
  /\ UNCHANGED <<servers, healthy, draining>>

(***************************************************************************)
(* Reconcile the entries of one scope (a set of URLs) with the URLs that   *)
(* are active now: known active entries keep their counter and health and  *)
(* stop draining, unknown ones are created healthy, entries that are no    *)
(* longer active are kept as draining while their counter is positive and  *)
(* dropped otherwise.  Entries outside the scope are not touched.          *)
(***************************************************************************)
StartsDraining(scope, active) == {u \in (servers \cap scope) \ active : conns[u] > 0}
\* Mutant of Dropped: an entry goes only when its counter is exactly zero.
Dropped_AtZero(scope, active) == {u \in (servers \cap scope) \ active : conns[u] = 0}

Dropped(scope, active) == {u \in (servers \cap scope) \ active : conns[u] <= 0}

Reconcile(scope, active) ==
  LET kept  == StartsDraining(scope, active)
      gone  == Dropped(scope, active)
      added == active \ servers
  IN  /\ servers' = (servers \ gone) \cup active
      /\ healthy' = [u \in URLs |-> \/ u \in added
                                    \/ healthy[u] /\ u \notin kept \cup gone]
      /\ draining' = [u \in URLs |-> \/ u \in kept
                                     \/ draining[u] /\ u \notin active \cup gone]
      /\ conns' = [u \in URLs |-> IF u \in added \cup gone THEN 0 ELSE conns[u]]

\* What a DNS watcher calls: the scope is the watcher's own source.
SyncServersBySource(tag, active) == Reconcile(SourceURLs(tag), active)

\* The same for all entries; cmd/lb does not call it.
SyncServers(active) == Reconcile(URLs, active)

-----------------------------------------------------------------------------
(***************************************************************************)
(* The pool on its own, with callers that may do anything.                 *)
(***************************************************************************)
SourcedNext ==
  \/ \E u \in URLs, status \in BOOLEAN : MarkHealthy(u, status)
  \/ \E u \in URLs : AddConnections(u, 1)
  \/ \E u \in URLs : RemoveConnections(u, 1)
  \/ \E tag \in Sources : \E active \in SUBSET SourceURLs(tag) :
        SyncServersBySource(tag, active)

PoolNext == SourcedNext \/ \E active \in SUBSET URLs : SyncServers(active)

PoolSpec == PoolInit /\ [][PoolNext]_poolVars

=============================================================================
