------------------------------ MODULE InMemory ------------------------------
(***************************************************************************)
(* internal/repository/in_memory.go: the pool as the code keeps it, a      *)
(* slice of pointers to ServerState.  Lookups by URL take the first match; *)
(* reconciling builds a new slice that reuses the pointers of the entries  *)
(* it keeps.  The checker, the proxy and the algorithms hold such pointers *)
(* outside the lock, so which pointer stands for a backend matters.        *)
(*                                                                         *)
(* Weight and LastCheck are left out, as in Pool.                          *)
(***************************************************************************)
EXTENDS Integers, Sequences, FiniteSets, SequencesExt, TLC

CONSTANTS
  URLs, Sources, SourceOf,   \* as in Pool
  NoTag,                     \* the empty SourceTag
  Refs,                      \* addresses of ServerState objects
  Free,                      \* what stands at an address outside the slice
  MaxConns                   \* bound on the counters

ASSUME InMemoryAssumption ==
  /\ SourceOf \in [URLs -> Sources]
  /\ NoTag \notin Sources
  /\ MaxConns \in Nat
  /\ IsFiniteSet(URLs) /\ IsFiniteSet(Refs) /\ Cardinality(Refs) >= Cardinality(URLs)

VARIABLES
  slice,      \* InMemory.servers
  state,      \* the ServerState at each address
  bySource    \* which of the two reconciling methods the process uses

inMemoryVars == <<slice, state, bySource>>

ServerState == [ServerURL : URLs, SourceTag : Sources \cup {NoTag},
                Healthy : BOOLEAN, Draining : BOOLEAN, ActiveConnections : Int]

Held == ToSet(slice)

InMemoryTypeOK ==
  /\ slice \in Seq(Refs) /\ IsInjective(slice)
  /\ \A p \in Refs : IF p \in Held THEN state[p] \in ServerState ELSE state[p] = Free
  /\ DOMAIN state = Refs
  /\ bySource \in BOOLEAN

InMemoryInit ==
  /\ slice = <<>>
  /\ state = [p \in Refs |-> Free]
  /\ bySource \in BOOLEAN

-----------------------------------------------------------------------------
(***************************************************************************)
(* Lookups.                                                                *)
(***************************************************************************)
HasEntry(u) == \E p \in Held : state[p].ServerURL = u

\* The entry that the loops of MarkHealthy and Add/RemoveConnections stop at.
FirstMatch(u) == slice[SelectInSeq(slice, LAMBDA p : state[p].ServerURL = u)]

(***************************************************************************)
(* What the loops that append the matching entries to a new slice collect: *)
(* the entries of s that are in S, in the order of s.  It is SelectSeq,    *)
(* given by its result.                                                    *)
(***************************************************************************)
Increasing(I) ==
  CHOOSE f \in [1 .. Cardinality(I) -> I] : \A i, j \in DOMAIN f : i < j => f[i] < f[j]

Filter(s, S) ==
  LET at == Increasing({i \in DOMAIN s : s[i] \in S})
  IN  [k \in DOMAIN at |-> s[at[k]]]

\* Mutant of GetHealthy: draining backends are left out.
GetHealthy_Serving == Filter(slice, {p \in Held : state[p].Healthy /\ ~state[p].Draining})

GetHealthy == Filter(slice, {p \in Held : state[p].Healthy})

-----------------------------------------------------------------------------
(***************************************************************************)
(* Updates of one entry.  Without a match the loops end and nothing has    *)
(* changed: that call is a stuttering step.                                *)
(***************************************************************************)
MarkHealthy(u, status) ==
  /\ HasEntry(u)
  /\ state' = [state EXCEPT ![FirstMatch(u)].Healthy = status]
  /\ UNCHANGED <<slice, bySource>>

AddConnections(u, n) ==
  /\ HasEntry(u)
  /\ state[FirstMatch(u)].ActiveConnections + n \in -MaxConns .. MaxConns
  /\ state' = [state EXCEPT ![FirstMatch(u)].ActiveConnections = @ + n]
  /\ UNCHANGED <<slice, bySource>>

RemoveConnections(u, n) == AddConnections(u, -n)

-----------------------------------------------------------------------------
(***************************************************************************)
(* Reconciliation.  own is the part of the slice that the call may touch,  *)
(* active the discovered URLs in the order of the DNS answer.  A pointer   *)
(* of own is kept when its URL is active, and kept as draining when it     *)
(* still has connections; every active URL without one gets a new object,  *)
(* at whatever free address the allocator picks.                           *)
(***************************************************************************)
\* existingMap: the index of the last entry of own with this URL, or 0.
Existing(own, u) == SelectLastInSeq(own, LAMBDA p : state[p].ServerURL = u)

\* Mutants of Lingering: idle entries stay too; active entries are not left out.
Lingering_Idle(own, active) ==
  Filter(own, {p \in Held : /\ state[p].ServerURL \notin ToSet(active)
                            /\ state[p].ActiveConnections >= 0})
Lingering_All(own, active) ==
  Filter(own, {p \in Held : state[p].ActiveConnections > 0})

Lingering(own, active) ==
  Filter(own, {p \in Held : /\ state[p].ServerURL \notin ToSet(active)
                            /\ state[p].ActiveConnections > 0})

NewServer(u, tag) == [ServerURL |-> u, SourceTag |-> tag, Healthy |-> TRUE,
                      Draining |-> FALSE, ActiveConnections |-> 0]

Kept(p, u, tag) ==
  IF p \in Held THEN [state[p] EXCEPT !.Draining = FALSE] ELSE NewServer(u, tag)

Drained(p) == [state[p] EXCEPT !.Draining = TRUE, !.Healthy = FALSE]

\* others \o known and new \o lingering; pointer gives each active URL its object.
Rebuild(others, active, pointer, lingering, tag) ==
  /\ slice' = others \o [i \in DOMAIN active |-> pointer[active[i]]] \o lingering
  /\ state' = [p \in Refs |->
       IF p \in ToSet(others) THEN state[p]
       ELSE IF p \in ToSet(lingering) THEN Drained(p)
       ELSE IF p \in Range(pointer)
         THEN Kept(p, CHOOSE u \in ToSet(active) : pointer[u] = p, tag)
       ELSE Free]
  /\ UNCHANGED bySource

\* Mutant of Reconcile: every active URL gets a new object.
Reconcile_Fresh(others, own, active, tag) ==
  \E new \in Injection(ToSet(active), Refs \ Held) :
    Rebuild(others, active, new, Lingering(own, active), tag)

Reconcile(others, own, active, tag) ==
  LET unknown == {u \in ToSet(active) : Existing(own, u) = 0}
  IN  \E new \in Injection(unknown, Refs \ Held) :
        Rebuild(others, active,
                [u \in ToSet(active) |-> IF u \in unknown THEN new[u] ELSE own[Existing(own, u)]],
                Lingering(own, active), tag)

OfSource(tag) == Filter(slice, {p \in Held : state[p].SourceTag = tag})
OfOthers(tag) == Filter(slice, {p \in Held : state[p].SourceTag # tag})

\* Mutants of SyncServersBySource: others are dropped; new entries are not tagged.
SyncServersBySource_Only(tag, active) == Reconcile(<<>>, OfSource(tag), active, tag)
SyncServersBySource_NoTag(tag, active) ==
  Reconcile(OfOthers(tag), OfSource(tag), active, NoTag)

SyncServersBySource(tag, active) ==
  Reconcile(OfOthers(tag), OfSource(tag), active, tag)

\* All entries are its own, whatever their tag; cmd/lb does not call it.
SyncServers(active) == Reconcile(<<>>, slice, active, NoTag)

-----------------------------------------------------------------------------
(***************************************************************************)
(* The callers: the proxy's goroutines and the health reports name any     *)
(* URL, a watcher passes a non-empty answer for its own source.  The two   *)
(* reconciling methods are not mixed in one process: entries made by       *)
(* SyncServers belong to no source and no watcher would find them again.   *)
(***************************************************************************)
Answers(S) == SetToAllKPermutations(S) \ {<<>>}

SourceURLs(tag) == {u \in URLs : SourceOf[u] = tag}

CallNext ==
  \E u \in URLs :
    \/ \E status \in BOOLEAN : MarkHealthy(u, status)
    \/ AddConnections(u, 1)
    \/ RemoveConnections(u, 1)

InMemoryNext ==
  \/ CallNext
  \/ /\ bySource
     /\ \E tag \in Sources : \E active \in Answers(SourceURLs(tag)) :
          SyncServersBySource(tag, active)
  \/ ~bySource /\ \E active \in Answers(URLs) : SyncServers(active)

InMemorySpec == InMemoryInit /\ [][InMemoryNext]_inMemoryVars

-----------------------------------------------------------------------------
(***************************************************************************)
(* No backend has two entries: first-match updates and the flags that      *)
(* GetHealthy reads are about the same object.                             *)
(***************************************************************************)
UniqueURLs == \A p, q \in Held : state[p].ServerURL = state[q].ServerURL => p = q

(***************************************************************************)
(* A watcher never disturbs another source's entries, their order or their *)
(* flags (the comment of SyncServersBySource).  One step changes entries   *)
(* of one source at most.                                                  *)
(***************************************************************************)
Entries(s) == [i \in DOMAIN s |-> <<s[i], state[s[i]]>>]

SourceIsolation ==
  [][bySource => \E tag \in Sources : Entries(OfOthers(tag))' = Entries(OfOthers(tag))]_inMemoryVars

(***************************************************************************)
(* While a backend stays in the pool, its object stays the same one:       *)
(* counters and flags survive every DNS answer, and the pointers that the  *)
(* checker, the retry path and the algorithms hold do not go stale.        *)
(***************************************************************************)
StablePointers ==
  [][\A u \in URLs : HasEntry(u) /\ HasEntry(u)' => FirstMatch(u)' = FirstMatch(u)]_inMemoryVars

(***************************************************************************)
(* The slice implements the pool of Pool.tla, whichever of the two methods *)
(* reconciles it, and without steps of SyncServers if it is the one per    *)
(* source.                                                                 *)
(***************************************************************************)
EntryOf(u, field, default) == IF HasEntry(u) THEN state[FirstMatch(u)][field] ELSE default

PoolServers  == {u \in URLs : HasEntry(u)}
PoolHealthy  == [u \in URLs |-> EntryOf(u, "Healthy", FALSE)]
PoolDraining == [u \in URLs |-> EntryOf(u, "Draining", FALSE)]
PoolConns    == [u \in URLs |-> EntryOf(u, "ActiveConnections", 0)]

Abstract == INSTANCE Pool WITH
  servers <- PoolServers, healthy <- PoolHealthy, draining <- PoolDraining, conns <- PoolConns

ImplementsPool ==
  /\ Abstract!PoolSpec
  /\ [][bySource => Abstract!SourcedNext \/ UNCHANGED Abstract!poolVars]_inMemoryVars

\* GetHealthy lists each backend that the pool calls healthy, and lists it once.
HealthyAgrees ==
  /\ Len(GetHealthy) = Cardinality(Abstract!GetHealthy)
  /\ {state[p].ServerURL : p \in ToSet(GetHealthy)} = Abstract!GetHealthy

=============================================================================
