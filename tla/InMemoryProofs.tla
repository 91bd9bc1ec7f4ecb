---------------------------- MODULE InMemoryProofs --------------------------
(***************************************************************************)
(* Theorems about InMemory, for any backends, sources and addresses: the   *)
(* slice of pointers keeps one stable entry per backend, a watcher leaves  *)
(* other sources alone, and the slice implements the pool of Pool.tla.     *)
(***************************************************************************)
EXTENDS InMemory, DataLemmas

-----------------------------------------------------------------------------
(***************************************************************************)
(* Filter keeps what is in the set, in the order of the sequence.          *)
(***************************************************************************)
LEMMA IncreasingProperties ==
  ASSUME NEW n \in Nat, NEW I \in SUBSET (1 .. n)
  PROVE  /\ IsFiniteSet(I) /\ Cardinality(I) \in Nat
         /\ Increasing(I) \in [1 .. Cardinality(I) -> I]
         /\ \A i, j \in 1 .. Cardinality(I) : i < j => Increasing(I)[i] < Increasing(I)[j]
         /\ \A i, j \in 1 .. Cardinality(I) : Increasing(I)[i] = Increasing(I)[j] => i = j
         /\ \A x \in I : \E i \in 1 .. Cardinality(I) : Increasing(I)[i] = x
<1> DEFINE c == Cardinality(I)
           Ordered(f) == \A i, j \in DOMAIN f : i < j => f[i] < f[j]
<1>1. PICK f \in [1 .. c -> I] : \A i, j \in 1 .. c : i < j => f[i] < f[j]
  BY IncreasingExists
<1>2. Ordered(f)
  BY <1>1
<1>3. Increasing(I) = CHOOSE g \in [1 .. c -> I] : Ordered(g)
  BY DEF Increasing
<1>4. Increasing(I) \in [1 .. c -> I] /\ Ordered(Increasing(I))
  <2> HIDE DEF Ordered, c
  <2> QED
    BY <1>1, <1>2, <1>3
<1>5. \A i, j \in 1 .. c : i < j => Increasing(I)[i] < Increasing(I)[j]
  BY <1>4
<1>6. I \in SUBSET Nat /\ IsFiniteSet(I)
  BY IncreasingExists
<1> QED
  BY <1>4, <1>5, <1>6, IncreasingMeetsAll

Positions(s, S) == {i \in DOMAIN s : s[i] \in S}

\* What Filter collects.
LEMMA FilterProperties ==
  ASSUME NEW R, NEW s \in Seq(R), NEW S
  PROVE  /\ Filter(s, S) \in Seq(R)
         /\ ToSet(Filter(s, S)) = ToSet(s) \cap S
         /\ IsInjective(s) => IsInjective(Filter(s, S))
         /\ Len(Filter(s, S)) = Cardinality(Positions(s, S))
<1> DEFINE I == {i \in DOMAIN s : s[i] \in S}
           c == Cardinality(I)
           at == Increasing(I)
           t == Filter(s, S)
<1>1. Len(s) \in Nat /\ DOMAIN s = 1 .. Len(s) /\ I \in SUBSET (1 .. Len(s))
      /\ \A i \in 1 .. Len(s) : s[i] \in R
  OBVIOUS
<1>2. /\ c \in Nat /\ at \in [1 .. c -> I]
      /\ \A i, j \in 1 .. c : at[i] = at[j] => i = j
      /\ \A x \in I : \E i \in 1 .. c : at[i] = x
  <2> HIDE DEF I
  <2> QED
    BY <1>1, IncreasingProperties
<1>3. t = [k \in DOMAIN at |-> s[at[k]]]
  BY DEF Filter
<1> HIDE DEF t, at, c
<1>4. t = [k \in 1 .. c |-> s[at[k]]] /\ \A k \in 1 .. c : at[k] \in I /\ s[at[k]] \in R \cap S
  BY <1>1, <1>2, <1>3
<1>5. t \in Seq(R) /\ Len(t) = c /\ DOMAIN t = 1 .. c
  BY <1>2, <1>4
<1>6. ToSet(t) = ToSet(s) \cap S
  <2>1. ASSUME NEW x \in ToSet(t) PROVE x \in ToSet(s) \cap S
    BY <1>1, <1>4, <1>5, <2>1 DEF ToSet
  <2>2. ASSUME NEW x \in ToSet(s), x \in S PROVE x \in ToSet(t)
    <3>1. PICK i \in DOMAIN s : s[i] = x
      BY DEF ToSet
    <3>2. i \in I
      BY <2>2, <3>1
    <3>3. PICK k \in 1 .. c : at[k] = i
      BY <1>2, <3>2
    <3>4. t[k] = x
      BY <1>4, <3>1, <3>3
    <3> QED
      BY <1>5, <3>4 DEF ToSet
  <2> QED
    BY <2>1, <2>2
<1>7. ASSUME IsInjective(s) PROVE IsInjective(t)
  <2> SUFFICES ASSUME NEW i \in 1 .. c, NEW j \in 1 .. c, t[i] = t[j] PROVE i = j
    BY <1>5 DEF IsInjective
  <2>1. at[i] = at[j]
    BY <1>1, <1>4, <1>7 DEF IsInjective
  <2> QED
    BY <1>2, <2>1
<1> QED
  BY <1>5, <1>6, <1>7 DEF t, c, Positions

\* From two parts of a slice, what only the first part has is the first part.
LEMMA FilterOfConcat ==
  ASSUME NEW R, NEW s \in Seq(R), NEW t \in Seq(R), NEW S,
         ToSet(s) \subseteq S, ToSet(t) \cap S = {}
  PROVE  Filter(s \o t, S) = s
<1> DEFINE n == Len(s)
           m == Len(t)
           st == s \o t
           I == {i \in DOMAIN st : st[i] \in S}
           at == Increasing(I)
<1>1. /\ n \in Nat /\ m \in Nat /\ st \in Seq(R) /\ DOMAIN st = 1 .. n + m
      /\ \A i \in 1 .. n : st[i] = s[i]
      /\ \A i \in n + 1 .. n + m : st[i] = t[i - n] /\ i - n \in 1 .. m
  OBVIOUS
<1>2. \A i \in 1 .. n : s[i] \in S
  BY DEF ToSet
<1>3. \A i \in 1 .. m : t[i] \notin S
  BY DEF ToSet
<1>4. I = 1 .. n
  <2> HIDE DEF st, n, m
  <2>1. \A i \in 1 .. n + m : i \in 1 .. n \/ i \in n + 1 .. n + m
    BY <1>1
  <2>2. \A i \in n + 1 .. n + m : st[i] \notin S
    BY <1>1, <1>3
  <2>3. \A i \in 1 .. n : st[i] \in S /\ i \in 1 .. n + m
    BY <1>1, <1>2
  <2> QED
    BY <1>1, <2>1, <2>2, <2>3
<1>5. Cardinality(1 .. n) = n /\ I \in SUBSET (1 .. n)
  BY <1>1, <1>4, FS_Interval
<1> HIDE DEF I, n
<1>6. at \in [1 .. n -> 1 .. n] /\ \A i, j \in 1 .. n : i < j => at[i] < at[j]
  BY <1>1, <1>4, <1>5, IncreasingProperties
<1>7. \A k \in 1 .. n : at[k] = k
  BY <1>1, <1>6, IncreasingIsIdentity
<1>8. Filter(st, S) = [k \in 1 .. n |-> s[k]]
  <2>1. Filter(st, S) = [k \in DOMAIN at |-> st[at[k]]]
    BY DEF Filter, I
  <2> QED
    BY <1>1, <1>6, <1>7, <2>1
<1> QED
  BY <1>8 DEF n

-----------------------------------------------------------------------------
(***************************************************************************)
(* Lookups.  The searches find an entry when there is one; no backend has  *)
(* two, so the first match is the entry of that backend.                   *)
(***************************************************************************)
LEMMA HeldProperties ==
  InMemoryTypeOK => /\ Held \subseteq Refs
                    /\ slice \in Seq(Refs) /\ IsInjective(slice)
                    /\ \A p \in Held : state[p] \in ServerState
<1> SUFFICES ASSUME InMemoryTypeOK
             PROVE  Held \subseteq Refs /\ \A p \in Held : state[p] \in ServerState
  BY DEF InMemoryTypeOK
<1>1. Held \subseteq Refs
  BY DEF InMemoryTypeOK, Held, ToSet
<1> QED
  BY <1>1 DEF InMemoryTypeOK

LookupsExact ==
  /\ \A u : HasEntry(u) => FirstMatch(u) \in Held /\ state[FirstMatch(u)].ServerURL = u
  /\ \A p \in Held : HasEntry(state[p].ServerURL) /\ FirstMatch(state[p].ServerURL) = p

\* A lookup finds the one entry of a backend.
LEMMA Lookup == InMemoryTypeOK /\ UniqueURLs => LookupsExact
<1> SUFFICES ASSUME InMemoryTypeOK, UniqueURLs PROVE LookupsExact
  OBVIOUS
<1>1. ASSUME NEW u, HasEntry(u)
      PROVE  FirstMatch(u) \in Held /\ state[FirstMatch(u)].ServerURL = u
  <2> DEFINE I == {i \in 1 .. Len(slice) : state[slice[i]].ServerURL = u}
             least == CHOOSE x \in I : \A y \in I : x <= y
  <2>1. I # {}
    <3>1. DOMAIN slice = 1 .. Len(slice)
      BY DEF InMemoryTypeOK
    <3> QED
      BY <1>1, <3>1 DEF HasEntry, Held, ToSet
  <2>2. FirstMatch(u) = slice[least]
    BY <2>1 DEF FirstMatch, SelectInSeq, Min
  <2>3. I \in SUBSET Nat
    OBVIOUS
  <2>4. \E x \in I : \A y \in I : x <= y
    <3> HIDE DEF I
    <3> QED
      BY <2>1, <2>3, LeastElement
  <2>5. least \in I
    <3> HIDE DEF I
    <3> QED
      BY <2>4
  <2>6. least \in DOMAIN slice /\ state[slice[least]].ServerURL = u
    <3> HIDE DEF least
    <3> QED
      BY <2>5 DEF InMemoryTypeOK
  <2> QED
    BY <2>2, <2>6 DEF Held, ToSet
<1>2. ASSUME NEW p \in Held
      PROVE  HasEntry(state[p].ServerURL) /\ FirstMatch(state[p].ServerURL) = p
  <2>1. HasEntry(state[p].ServerURL)
    BY DEF HasEntry
  <2> QED
    BY <1>1, <2>1 DEF UniqueURLs
<1> QED
  BY <1>1, <1>2 DEF LookupsExact

LEMMA LookupNext == InMemoryTypeOK' /\ UniqueURLs' => LookupsExact'
BY Lookup, PTL

\* Existing is the entry that a reconciliation keeps for a backend.
LEMMA ExistingProperties ==
  ASSUME NEW own \in Seq(Refs), NEW u
  PROVE  /\ Existing(own, u) = 0 => \A p \in ToSet(own) : state[p].ServerURL # u
         /\ Existing(own, u) # 0 => /\ Existing(own, u) \in DOMAIN own
                                    /\ state[own[Existing(own, u)]].ServerURL = u
<1> DEFINE I == {i \in 1 .. Len(own) : state[own[i]].ServerURL = u}
           greatest == CHOOSE x \in I : \A y \in I : x >= y
<1>1. Existing(own, u) = IF I # {} THEN greatest ELSE 0
  BY DEF Existing, SelectLastInSeq, Max
<1>2. DOMAIN own = 1 .. Len(own) /\ Len(own) \in Nat
  OBVIOUS
<1>3. ASSUME I # {} PROVE greatest \in I
  <2>1. I \in SUBSET (1 .. Len(own))
    OBVIOUS
  <2> HIDE DEF I
  <2>2. \E x \in I : \A y \in I : x >= y
    BY <1>2, <1>3, <2>1, GreatestElement
  <2> QED
    BY <2>2
<1>4. greatest \in I => greatest \in DOMAIN own /\ greatest # 0 /\ state[own[greatest]].ServerURL = u
  <2> HIDE DEF greatest
  <2> QED
    BY <1>2
<1>5. I = {} => \A p \in ToSet(own) : state[p].ServerURL # u
  BY <1>2 DEF ToSet
<1> HIDE DEF I, greatest
<1> QED
  BY <1>1, <1>3, <1>4, <1>5

-----------------------------------------------------------------------------
(***************************************************************************)
(* Reconciliation.  Scope says how the slice is cut into the entries that  *)
(* the call leaves alone and its own; Reconciled, in terms of sets, what a *)
(* call has done with them.                                                *)
(***************************************************************************)
LEMMA Joined ==
  ASSUME NEW R, NEW s \in Seq(R), NEW t \in Seq(R), IsInjective(s), IsInjective(t),
         ToSet(s) \cap ToSet(t) = {}
  PROVE  /\ s \o t \in Seq(R) /\ IsInjective(s \o t)
         /\ ToSet(s \o t) = ToSet(s) \cup ToSet(t)
<1> DEFINE n == Len(s)
           m == Len(t)
           st == s \o t
<1>1. /\ n \in Nat /\ m \in Nat /\ st \in Seq(R) /\ DOMAIN st = 1 .. n + m
      /\ DOMAIN s = 1 .. n /\ DOMAIN t = 1 .. m
      /\ \A i \in 1 .. n : st[i] = s[i] /\ i \in 1 .. n + m
      /\ \A i \in 1 .. m : st[n + i] = t[i] /\ n + i \in 1 .. n + m
  OBVIOUS
<1> HIDE DEF st, n, m
<1>2. \A i \in 1 .. n + m : i \in 1 .. n \/ \E k \in 1 .. m : i = n + k
  <2> SUFFICES ASSUME NEW i \in 1 .. n + m, i \notin 1 .. n PROVE \E k \in 1 .. m : i = n + k
    OBVIOUS
  <2>1. i - n \in 1 .. m /\ i = n + (i - n)
    BY <1>1
  <2> QED
    BY <2>1
<1>3. ToSet(st) = ToSet(s) \cup ToSet(t)
  <2>1. ASSUME NEW x \in ToSet(st) PROVE x \in ToSet(s) \cup ToSet(t)
    <3>1. PICK i \in 1 .. n + m : st[i] = x
      BY <1>1 DEF ToSet
    <3> QED
      BY <1>1, <1>2, <3>1 DEF ToSet
  <2>2. ASSUME NEW x \in ToSet(s) PROVE x \in ToSet(st)
    BY <1>1 DEF ToSet
  <2>3. ASSUME NEW x \in ToSet(t) PROVE x \in ToSet(st)
    BY <1>1 DEF ToSet
  <2> QED
    BY <2>1, <2>2, <2>3
<1>4. IsInjective(st)
  <2> SUFFICES ASSUME NEW i \in 1 .. n + m, NEW j \in 1 .. n + m, st[i] = st[j] PROVE i = j
    BY <1>1 DEF IsInjective
  <2>1. CASE i \in 1 .. n /\ j \in 1 .. n
    BY <1>1, <2>1 DEF IsInjective
  <2>2. ASSUME NEW k \in 1 .. m, NEW l \in 1 .. m, i = n + k, j = n + l PROVE i = j
    BY <1>1, <2>2 DEF IsInjective
  <2>3. ASSUME NEW x \in 1 .. n, NEW k \in 1 .. m PROVE st[x] # st[n + k]
    <3>1. st[x] \in ToSet(s) /\ st[n + k] \in ToSet(t)
      BY <1>1 DEF ToSet
    <3> QED
      BY <3>1
  <2> QED
    BY <1>2, <2>1, <2>2, <2>3
<1> QED
  BY <1>1, <1>3, <1>4 DEF st

Scope(others, own) ==
  /\ others \in Seq(Refs) /\ IsInjective(others)
  /\ own \in Seq(Refs) /\ IsInjective(own)
  /\ ToSet(others) \cup ToSet(own) = Held /\ ToSet(others) \cap ToSet(own) = {}

Leftover(own, active) ==
  {p \in ToSet(own) : state[p].ServerURL \notin ToSet(active) /\ state[p].ActiveConnections > 0}

\* Each active backend has its own object: the one it had in own, or else a new one.
Assigns(pointer, own, active) ==
  /\ pointer \in [ToSet(active) -> Refs]
  /\ \A u, v \in ToSet(active) : pointer[u] = pointer[v] => u = v
  /\ \A u \in ToSet(active) :
       \/ pointer[u] \in ToSet(own) /\ state[pointer[u]].ServerURL = u
       \/ pointer[u] \notin Held /\ \A p \in ToSet(own) : state[p].ServerURL # u

Pointers(pointer, active) == {pointer[u] : u \in ToSet(active)}

Reconciled(others, own, active, tag, pointer) ==
  /\ Assigns(pointer, own, active)
  /\ slice' \in Seq(Refs) /\ IsInjective(slice') /\ DOMAIN state' = Refs
  /\ \E rest \in Seq(Refs) :
       /\ slice' = others \o rest
       /\ ToSet(rest) = Pointers(pointer, active) \cup Leftover(own, active)
  /\ Held' = ToSet(others) \cup Pointers(pointer, active) \cup Leftover(own, active)
  /\ \A p \in ToSet(others) : state'[p] = state[p]
  /\ \A p \in Leftover(own, active) : state'[p] = Drained(p)
  /\ \A u \in ToSet(active) : state'[pointer[u]] = Kept(pointer[u], u, tag)
  /\ \A p \in Refs \ Held' : state'[p] = Free
  /\ UNCHANGED bySource

\* The entries that a reconciliation keeps only because they still drain.
LEMMA LingeringProperties ==
  ASSUME InMemoryTypeOK, NEW others, NEW own, Scope(others, own), NEW active
  PROVE  /\ Lingering(own, active) \in Seq(Refs) /\ IsInjective(Lingering(own, active))
         /\ ToSet(Lingering(own, active)) = Leftover(own, active)
<1> DEFINE S == {p \in Held : /\ state[p].ServerURL \notin ToSet(active)
                              /\ state[p].ActiveConnections > 0}
<1>1. own \in Seq(Refs) /\ IsInjective(own) /\ ToSet(own) \subseteq Held
  BY DEF Scope
<1>2. Lingering(own, active) = Filter(own, S)
  BY DEF Lingering
<1>3. ToSet(own) \cap S = Leftover(own, active)
  BY <1>1 DEF Leftover
<1> HIDE DEF S
<1>4. /\ Filter(own, S) \in Seq(Refs) /\ IsInjective(Filter(own, S))
      /\ ToSet(Filter(own, S)) = ToSet(own) \cap S
  BY <1>1, FilterProperties
<1> QED
  BY <1>2, <1>3, <1>4

\* The new slice: one entry for each current backend, kept or new.
LEMMA RebuildDoes ==
  ASSUME InMemoryTypeOK, NEW others, NEW own, Scope(others, own),
         NEW active \in Seq(URLs), IsInjective(active), NEW tag,
         NEW pointer, Assigns(pointer, own, active),
         Rebuild(others, active, pointer, Lingering(own, active), tag)
  PROVE  Reconciled(others, own, active, tag, pointer)
<1> DEFINE known == [i \in DOMAIN active |-> pointer[active[i]]]
           lingering == Lingering(own, active)
           P == Pointers(pointer, active)
           L == Leftover(own, active)
<1>1. /\ lingering \in Seq(Refs) /\ IsInjective(lingering) /\ ToSet(lingering) = L
  BY LingeringProperties
<1>2. /\ known \in Seq(Refs) /\ IsInjective(known) /\ ToSet(known) = P
  <2>1. \A i \in DOMAIN active : active[i] \in ToSet(active)
    BY DEF ToSet
  <2>2. DOMAIN active = 1 .. Len(active) /\ Len(active) \in Nat
    OBVIOUS
  <2>3. known \in Seq(Refs) /\ DOMAIN known = DOMAIN active
    BY <2>1, <2>2 DEF Assigns
  <2>4. IsInjective(known)
    BY <2>1, <2>3 DEF Assigns, IsInjective
  <2>5. ToSet(known) = P
    BY <2>1, <2>3 DEF ToSet, Pointers
  <2> QED
    BY <2>3, <2>4, <2>5
<1>3. P \cap L = {} /\ ToSet(others) \cap P = {} /\ ToSet(others) \cap L = {}
  BY DEF Pointers, Leftover, Assigns, Scope
<1>4. others \in Seq(Refs) /\ IsInjective(others)
  BY DEF Scope
<1>5. /\ slice' = (others \o known) \o lingering
      /\ state' = [p \in Refs |->
           IF p \in ToSet(others) THEN state[p]
           ELSE IF p \in ToSet(lingering) THEN Drained(p)
           ELSE IF p \in Range(pointer)
             THEN Kept(p, CHOOSE u \in ToSet(active) : pointer[u] = p, tag)
           ELSE Free]
      /\ UNCHANGED bySource
  BY DEF Rebuild
<1>6. Range(pointer) = P
  BY DEF Range, Pointers, Assigns
<1> HIDE DEF known, lingering, P, L
<1>7. slice' = others \o (known \o lingering)
  BY <1>1, <1>2, <1>4, <1>5
<1>8. /\ known \o lingering \in Seq(Refs) /\ IsInjective(known \o lingering)
      /\ ToSet(known \o lingering) = P \cup L
  BY <1>1, <1>2, <1>3, Joined
<1>9. /\ slice' \in Seq(Refs) /\ IsInjective(slice')
      /\ ToSet(slice') = ToSet(others) \cup P \cup L
  <2> DEFINE rest == known \o lingering
  <2>1. ToSet(others) \cap ToSet(rest) = {}
    BY <1>3, <1>8
  <2> HIDE DEF rest
  <2>2. rest \in Seq(Refs) /\ IsInjective(rest) /\ slice' = others \o rest /\ ToSet(rest) = P \cup L
    BY <1>7, <1>8 DEF rest
  <2> QED
    BY <1>4, <2>1, <2>2, Joined
<1>10. Held' = ToSet(others) \cup P \cup L
  BY <1>9 DEF Held
<1>11. DOMAIN state' = Refs
  BY <1>5
<1>12. ToSet(others) \subseteq Refs /\ L \subseteq Refs /\ P \subseteq Refs
  BY <1>1, <1>2, <1>4 DEF ToSet
<1>13. \A p \in ToSet(others) : state'[p] = state[p]
  BY <1>5, <1>12
<1>14. \A p \in L : state'[p] = Drained(p)
  BY <1>1, <1>3, <1>5, <1>12
<1>15. ASSUME NEW u \in ToSet(active) PROVE state'[pointer[u]] = Kept(pointer[u], u, tag)
  <2>1. pointer[u] \in P
    BY DEF P, Pointers
  <2>2. (CHOOSE v \in ToSet(active) : pointer[v] = pointer[u]) = u
    BY DEF Assigns
  <2>3. state'[pointer[u]]
          = Kept(pointer[u], CHOOSE v \in ToSet(active) : pointer[v] = pointer[u], tag)
    BY <1>1, <1>3, <1>5, <1>6, <1>12, <2>1
  <2> QED
    BY <2>2, <2>3
<1>16. \A p \in Refs \ Held' : state'[p] = Free
  BY <1>1, <1>5, <1>6, <1>10
<1>17. \E rest \in Seq(Refs) : slice' = others \o rest /\ ToSet(rest) = P \cup L
  BY <1>7, <1>8
<1> QED
  BY <1>5, <1>9, <1>10, <1>11, <1>13, <1>14, <1>15, <1>16, <1>17 DEF Reconciled, P, L

\* A reconciliation leaves out, keeps or adds, backend by backend.
LEMMA ReconcileDoes ==
  ASSUME InMemoryTypeOK, UniqueURLs, NEW others, NEW own, Scope(others, own),
         NEW active \in Seq(URLs), IsInjective(active), NEW tag,
         Reconcile(others, own, active, tag)
  PROVE  \E pointer : Reconciled(others, own, active, tag, pointer)
<1> DEFINE unknown == {u \in ToSet(active) : Existing(own, u) = 0}
<1>1. PICK new \in Injection(unknown, Refs \ Held) :
        Rebuild(others, active,
                [u \in ToSet(active) |-> IF u \in unknown THEN new[u] ELSE own[Existing(own, u)]],
                Lingering(own, active), tag)
  BY DEF Reconcile
<1> DEFINE pointer ==
             [u \in ToSet(active) |-> IF u \in unknown THEN new[u] ELSE own[Existing(own, u)]]
<1>2. own \in Seq(Refs) /\ ToSet(own) \subseteq Held /\ Held \subseteq Refs
  BY HeldProperties DEF Scope
<1>3. ASSUME NEW u \in ToSet(active), u \in unknown
      PROVE  pointer[u] = new[u] /\ pointer[u] \in Refs \ Held
             /\ \A p \in ToSet(own) : state[p].ServerURL # u
  <2>1. new[u] \in Refs \ Held
    BY <1>3 DEF Injection
  <2>2. \A p \in ToSet(own) : state[p].ServerURL # u
    BY <1>2, <1>3, ExistingProperties
  <2> QED
    BY <1>3, <2>1, <2>2
<1>4. ASSUME NEW u \in ToSet(active), u \notin unknown
      PROVE  pointer[u] \in ToSet(own) /\ state[pointer[u]].ServerURL = u
  <2>1. Existing(own, u) \in DOMAIN own /\ state[own[Existing(own, u)]].ServerURL = u
    BY <1>2, <1>4, ExistingProperties
  <2>2. pointer[u] = own[Existing(own, u)]
    BY <1>4
  <2> QED
    BY <2>1, <2>2 DEF ToSet
<1>5. \A u, v \in unknown : new[u] = new[v] => u = v
  BY DEF Injection, IsInjective
<1>6. DOMAIN pointer = ToSet(active)
  OBVIOUS
<1>7. pointer = [u \in ToSet(active) |-> pointer[u]]
  OBVIOUS
<1>8. Rebuild(others, active, pointer, Lingering(own, active), tag)
  BY <1>1
<1> HIDE DEF pointer, unknown
<1>9. Assigns(pointer, own, active)
  <2>1. pointer \in [ToSet(active) -> Refs]
    BY <1>2, <1>3, <1>4, <1>6, <1>7
  <2>2. ASSUME NEW u \in ToSet(active), NEW v \in ToSet(active), pointer[u] = pointer[v] PROVE u = v
    BY <1>2, <1>3, <1>4, <1>5, <2>2
  <2>3. \A u \in ToSet(active) :
          \/ pointer[u] \in ToSet(own) /\ state[pointer[u]].ServerURL = u
          \/ pointer[u] \notin Held /\ \A p \in ToSet(own) : state[p].ServerURL # u
    BY <1>3, <1>4
  <2> QED
    BY <2>1, <2>2, <2>3 DEF Assigns
<1> QED
  BY <1>8, <1>9, RebuildDoes

-----------------------------------------------------------------------------
(***************************************************************************)
(* The invariant: with well-formed entries and one entry per backend, the  *)
(* entries of a process that reconciles per source carry the tag of their  *)
(* source.  UniqueURLs needs that: a watcher looks for its backends among  *)
(* the entries with its tag only, and creates those it does not find.      *)
(***************************************************************************)
TagsTrue == bySource => \A p \in Held : state[p].SourceTag = SourceOf[state[p].ServerURL]

MInv == InMemoryTypeOK /\ UniqueURLs /\ TagsTrue

LEMMA MInvInit == InMemoryInit => MInv
<1> SUFFICES ASSUME InMemoryInit PROVE MInv
  OBVIOUS
<1>1. Held = {}
  BY DEF InMemoryInit, Held, ToSet
<1>2. slice \in Seq(Refs) /\ IsInjective(slice)
  BY DEF InMemoryInit, IsInjective
<1> QED
  BY <1>1, <1>2 DEF InMemoryInit, MInv, InMemoryTypeOK, UniqueURLs, TagsTrue

\* The updates of one entry: its address, its backend and its source stay.
OneEntry(p) ==
  /\ p \in Held /\ UNCHANGED <<slice, bySource>>
  /\ state'[p] \in ServerState
  /\ state'[p].ServerURL = state[p].ServerURL /\ state'[p].SourceTag = state[p].SourceTag
  /\ DOMAIN state' = Refs /\ \A q \in Refs \ {p} : state'[q] = state[q]

\* A call through a pointer changes one entry in its place.
LEMMA CallUpdates ==
  ASSUME MInv, NEW u \in URLs,
         \/ \E status \in BOOLEAN : MarkHealthy(u, status)
         \/ \E n \in {1, -1} : AddConnections(u, n)
  PROVE  OneEntry(FirstMatch(u)) /\ state[FirstMatch(u)].ServerURL = u
<1> DEFINE p == FirstMatch(u)
<1>1. HasEntry(u) /\ UNCHANGED <<slice, bySource>>
  BY DEF MarkHealthy, AddConnections
<1>2. p \in Held /\ state[p].ServerURL = u
  BY <1>1, Lookup DEF MInv, LookupsExact
<1>3. p \in Refs /\ state[p] \in ServerState /\ DOMAIN state = Refs
  BY <1>2, HeldProperties DEF MInv, InMemoryTypeOK
<1>4. CASE \E status \in BOOLEAN : MarkHealthy(u, status)
  <2>1. PICK status \in BOOLEAN : MarkHealthy(u, status)
    BY <1>4
  <2>2. state' = [state EXCEPT ![p].Healthy = status]
    BY <2>1 DEF MarkHealthy
  <2> HIDE DEF p
  <2>3. state'[p] = [state[p] EXCEPT !.Healthy = status]
        /\ DOMAIN state' = Refs /\ \A q \in Refs \ {p} : state'[q] = state[q]
    BY <1>3, <2>2
  <2> QED
    BY <1>1, <1>2, <1>3, <2>3 DEF OneEntry, ServerState, p
<1>5. CASE \E n \in {1, -1} : AddConnections(u, n)
  <2>1. PICK n \in {1, -1} : AddConnections(u, n)
    BY <1>5
  <2>2. state' = [state EXCEPT ![p].ActiveConnections = @ + n]
    BY <2>1 DEF AddConnections
  <2> HIDE DEF p
  <2>3. state'[p] = [state[p] EXCEPT !.ActiveConnections = @ + n]
        /\ DOMAIN state' = Refs /\ \A q \in Refs \ {p} : state'[q] = state[q]
    BY <1>3, <2>2
  <2>4. state[p].ActiveConnections + n \in Int
    BY <1>3 DEF ServerState
  <2> QED
    BY <1>1, <1>2, <1>3, <2>3, <2>4 DEF OneEntry, ServerState, p
<1> QED
  BY <1>4, <1>5

\* Such a change keeps the invariant and who is in the slice.
LEMMA OneEntryKeeps ==
  ASSUME MInv, NEW p, OneEntry(p)
  PROVE  MInv' /\ Held' = Held
<1>1. Held' = Held
  BY DEF OneEntry, Held
<1>2. \A q \in Held : /\ state'[q] \in ServerState
                      /\ state'[q].ServerURL = state[q].ServerURL
                      /\ state'[q].SourceTag = state[q].SourceTag
  BY HeldProperties DEF MInv, OneEntry
<1>3. InMemoryTypeOK'
  BY <1>1, <1>2, HeldProperties DEF MInv, InMemoryTypeOK, OneEntry
<1>4. UniqueURLs'
  BY <1>1, <1>2 DEF MInv, UniqueURLs
<1>5. TagsTrue'
  BY <1>1, <1>2 DEF MInv, TagsTrue, OneEntry
<1> QED
  BY <1>1, <1>3, <1>4, <1>5 DEF MInv

-----------------------------------------------------------------------------
(***************************************************************************)
(* What the two reconciling methods pass on: none of the other entries is  *)
(* of an active backend, and a watcher's own entries and active backends   *)
(* are those of its source.                                                *)
(***************************************************************************)
Reaches(others, own, active, tag) ==
  /\ tag \in Sources \cup {NoTag}
  /\ active \in Seq(URLs) /\ IsInjective(active) /\ ToSet(active) \subseteq URLs
  /\ \A p \in ToSet(others) : state[p].ServerURL \notin ToSet(active)
  /\ bySource => /\ tag \in Sources /\ others = OfOthers(tag)
                 /\ \A p \in ToSet(own) : state[p].SourceTag = tag
                 /\ \A u \in ToSet(active) : SourceOf[u] = tag
  /\ ~bySource => others = <<>>

\* The backends of an answer.
LEMMA AnswerProperties ==
  ASSUME NEW S \in SUBSET URLs, NEW active \in Answers(S)
  PROVE  active \in Seq(S) /\ active \in Seq(URLs) /\ IsInjective(active) /\ ToSet(active) \subseteq S
<1>1. PICK T \in SUBSET S : active \in SetToSeqs(T)
  BY DEF Answers, SetToAllKPermutations
<1>2. IsFiniteSet(T)
  BY FS_Subset, InMemoryAssumption
<1>3. Cardinality(T) \in Nat
  BY <1>2, FS_CardinalityType
<1>4. active \in [1 .. Cardinality(T) -> T]
      /\ \A i, j \in 1 .. Cardinality(T) : i # j => active[i] # active[j]
  BY <1>1 DEF SetToSeqs
<1>5. IsInjective(active)
  BY <1>4 DEF IsInjective
<1>6. active \in Seq(T)
  BY <1>3, <1>4
<1>7. active \in Seq(S) /\ active \in Seq(URLs)
  BY <1>6
<1>8. ToSet(active) \subseteq S
  BY <1>4 DEF ToSet
<1> QED
  BY <1>5, <1>7, <1>8

\* SyncServersBySource reconciles the entries of its tag.
LEMMA ScopeOfSource ==
  ASSUME MInv, bySource, NEW tag \in Sources, NEW active \in Answers(SourceURLs(tag))
  PROVE  /\ Scope(OfOthers(tag), OfSource(tag))
         /\ Reaches(OfOthers(tag), OfSource(tag), active, tag)
<1> DEFINE A == {p \in Held : state[p].SourceTag # tag}
           B == {p \in Held : state[p].SourceTag = tag}
<1>1. slice \in Seq(Refs) /\ IsInjective(slice) /\ ToSet(slice) = Held
  BY HeldProperties DEF MInv, Held
<1>2. Held \cap A = A /\ Held \cap B = B /\ A \cup B = Held /\ A \cap B = {}
  OBVIOUS
<1>3. /\ OfOthers(tag) \in Seq(Refs) /\ IsInjective(OfOthers(tag))
      /\ ToSet(OfOthers(tag)) = A
  <2> HIDE DEF A
  <2>1. OfOthers(tag) = Filter(slice, A)
    BY DEF OfOthers, A
  <2>2. /\ Filter(slice, A) \in Seq(Refs) /\ IsInjective(Filter(slice, A))
        /\ ToSet(Filter(slice, A)) = ToSet(slice) \cap A
    BY <1>1, FilterProperties
  <2> QED
    BY <1>1, <1>2, <2>1, <2>2
<1>4. /\ OfSource(tag) \in Seq(Refs) /\ IsInjective(OfSource(tag))
      /\ ToSet(OfSource(tag)) = B
  <2> HIDE DEF B
  <2>1. OfSource(tag) = Filter(slice, B)
    BY DEF OfSource, B
  <2>2. /\ Filter(slice, B) \in Seq(Refs) /\ IsInjective(Filter(slice, B))
        /\ ToSet(Filter(slice, B)) = ToSet(slice) \cap B
    BY <1>1, FilterProperties
  <2> QED
    BY <1>1, <1>2, <2>1, <2>2
<1>5. Scope(OfOthers(tag), OfSource(tag))
  <2> HIDE DEF A, B
  <2> QED
    BY <1>2, <1>3, <1>4 DEF Scope
<1>6. SourceURLs(tag) \in SUBSET URLs /\ \A u \in SourceURLs(tag) : SourceOf[u] = tag
  BY DEF SourceURLs
<1>7. active \in Seq(URLs) /\ IsInjective(active) /\ ToSet(active) \subseteq SourceURLs(tag)
  BY <1>6, AnswerProperties
<1>8. \A p \in A : state[p].ServerURL \notin ToSet(active)
  BY <1>6, <1>7 DEF MInv, TagsTrue
<1> QED
  BY <1>3, <1>4, <1>5, <1>6, <1>7, <1>8 DEF Reaches

\* SyncServers reconciles all of them.
LEMMA ScopeOfAll ==
  ASSUME MInv, ~bySource, NEW active \in Answers(URLs)
  PROVE  Scope(<<>>, slice) /\ Reaches(<<>>, slice, active, NoTag)
<1>1. ToSet(<<>>) = {} /\ <<>> \in Seq(Refs) /\ IsInjective(<<>>)
  BY DEF ToSet, IsInjective
<1>2. active \in Seq(URLs) /\ IsInjective(active) /\ ToSet(active) \subseteq URLs
  BY AnswerProperties
<1>3. slice \in Seq(Refs) /\ IsInjective(slice)
  BY HeldProperties DEF MInv
<1> QED
  BY <1>1, <1>2, <1>3 DEF Scope, Reaches, Held

-----------------------------------------------------------------------------
(***************************************************************************)
(* The entries after a reconciliation: those that were there and stay have *)
(* their backend and their tag, the others are those of active backends.   *)
(***************************************************************************)
LEMMA EntriesAfter ==
  ASSUME MInv, NEW others, NEW own, NEW active, NEW tag, NEW pointer,
         Scope(others, own), Reaches(others, own, active, tag),
         Reconciled(others, own, active, tag, pointer)
  PROVE  /\ \A q \in ToSet(others) \cup Leftover(own, active) :
              /\ q \in Held /\ state'[q] \in ServerState
              /\ state'[q].ServerURL = state[q].ServerURL /\ state[q].ServerURL \notin ToSet(active)
              /\ state'[q].SourceTag = state[q].SourceTag
         /\ \A u \in ToSet(active) :
              /\ state'[pointer[u]] \in ServerState
              /\ state'[pointer[u]].ServerURL = u
              /\ bySource => state'[pointer[u]].SourceTag = tag
<1>1. \A p \in Held : p \in Refs /\ state[p] \in ServerState
  BY HeldProperties DEF MInv
<1>2. ToSet(others) \subseteq Held /\ ToSet(own) \subseteq Held
  BY DEF Scope
<1>3. ASSUME NEW q \in ToSet(others)
      PROVE  /\ q \in Held /\ state'[q] \in ServerState
             /\ state'[q].ServerURL = state[q].ServerURL /\ state[q].ServerURL \notin ToSet(active)
             /\ state'[q].SourceTag = state[q].SourceTag
  BY <1>1, <1>2 DEF Reconciled, Reaches
<1>4. ASSUME NEW q \in Leftover(own, active)
      PROVE  /\ q \in Held /\ state'[q] \in ServerState
             /\ state'[q].ServerURL = state[q].ServerURL /\ state[q].ServerURL \notin ToSet(active)
             /\ state'[q].SourceTag = state[q].SourceTag
  <2>1. q \in Held /\ state[q] \in ServerState /\ state[q].ServerURL \notin ToSet(active)
    BY <1>1, <1>2 DEF Leftover
  <2>2. state'[q] = [state[q] EXCEPT !.Draining = TRUE, !.Healthy = FALSE]
    BY DEF Reconciled, Drained
  <2> QED
    BY <2>1, <2>2 DEF ServerState
<1>5. ASSUME NEW u \in ToSet(active)
      PROVE  /\ state'[pointer[u]] \in ServerState
             /\ state'[pointer[u]].ServerURL = u
             /\ bySource => state'[pointer[u]].SourceTag = tag
  <2>1. state'[pointer[u]] = Kept(pointer[u], u, tag) /\ u \in URLs
        /\ tag \in Sources \cup {NoTag}
    BY DEF Reconciled, Reaches
  <2>2. \/ pointer[u] \in ToSet(own) /\ state[pointer[u]].ServerURL = u
        \/ pointer[u] \notin Held
    BY DEF Reconciled, Assigns
  <2>3. CASE pointer[u] \in ToSet(own) /\ state[pointer[u]].ServerURL = u
    <3>1. pointer[u] \in Held /\ state[pointer[u]] \in ServerState
      BY <1>1, <1>2, <2>3
    <3>2. state'[pointer[u]] = [state[pointer[u]] EXCEPT !.Draining = FALSE]
      BY <2>1, <3>1 DEF Kept
    <3> QED
      BY <2>3, <3>1, <3>2 DEF ServerState, Reaches
  <2>4. CASE pointer[u] \notin Held
    <3>1. state'[pointer[u]] = NewServer(u, tag)
      BY <2>1, <2>4 DEF Kept
    <3> QED
      BY <2>1, <3>1 DEF NewServer, ServerState
  <2> QED
    BY <2>2, <2>3, <2>4
<1> QED
  BY <1>3, <1>4, <1>5

\* A reconciliation keeps the invariant.
LEMMA ReconciledKeeps ==
  ASSUME MInv, NEW others, NEW own, NEW active, NEW tag, NEW pointer,
         Scope(others, own), Reaches(others, own, active, tag),
         Reconciled(others, own, active, tag, pointer)
  PROVE  MInv'
<1> DEFINE Old == ToSet(others) \cup Leftover(own, active)
           New == Pointers(pointer, active)
<1>1. /\ \A q \in Old : /\ q \in Held /\ state'[q] \in ServerState
                        /\ state'[q].ServerURL = state[q].ServerURL
                        /\ state[q].ServerURL \notin ToSet(active)
                        /\ state'[q].SourceTag = state[q].SourceTag
      /\ \A u \in ToSet(active) : /\ state'[pointer[u]] \in ServerState
                                  /\ state'[pointer[u]].ServerURL = u
                                  /\ bySource => state'[pointer[u]].SourceTag = tag
  BY EntriesAfter
<1>2. Held' = Old \cup New /\ UNCHANGED bySource
  BY DEF Reconciled
<1>3. \A q \in New : \E u \in ToSet(active) : q = pointer[u]
  BY DEF Pointers
<1> HIDE DEF Old, New
<1>4. InMemoryTypeOK'
  <2>1. \A q \in Held' : state'[q] \in ServerState
    BY <1>1, <1>2, <1>3
  <2>2. slice' \in Seq(Refs) /\ IsInjective(slice') /\ DOMAIN state' = Refs
        /\ bySource' \in BOOLEAN /\ \A p \in Refs \ Held' : state'[p] = Free
    BY DEF Reconciled, MInv, InMemoryTypeOK
  <2> QED
    BY <2>1, <2>2 DEF InMemoryTypeOK
<1>5. UniqueURLs'
  <2> SUFFICES ASSUME NEW p \in Held', NEW q \in Held', state'[p].ServerURL = state'[q].ServerURL
               PROVE  p = q
    BY DEF UniqueURLs
  <2>1. CASE p \in Old /\ q \in Old
    BY <1>1, <2>1 DEF MInv, UniqueURLs
  <2>2. CASE p \in New /\ q \in New
    BY <1>1, <1>3, <2>2
  <2>3. CASE p \in Old /\ q \in New
    BY <1>1, <1>3, <2>3
  <2>4. CASE p \in New /\ q \in Old
    BY <1>1, <1>3, <2>4
  <2> QED
    BY <1>2, <2>1, <2>2, <2>3, <2>4
<1>6. TagsTrue'
  <2>1. bySource => \A u \in ToSet(active) : SourceOf[u] = tag
    BY DEF Reaches
  <2> QED
    BY <1>1, <1>2, <1>3, <2>1 DEF MInv, TagsTrue
<1> QED
  BY <1>4, <1>5, <1>6 DEF MInv

\* Every step is a call for one backend or a reconciliation of one scope.
LEMMA StepCases ==
  ASSUME MInv, InMemoryNext
  PROVE  \/ /\ CallNext
            /\ \E u \in URLs : OneEntry(FirstMatch(u)) /\ state[FirstMatch(u)].ServerURL = u
         \/ \E others, own, active, tag, pointer :
              /\ Scope(others, own) /\ Reaches(others, own, active, tag)
              /\ Reconciled(others, own, active, tag, pointer)
<1>1. CASE CallNext
  <2>1. PICK u \in URLs : \/ \E status \in BOOLEAN : MarkHealthy(u, status)
                          \/ AddConnections(u, 1)
                          \/ RemoveConnections(u, 1)
    BY <1>1 DEF CallNext
  <2>2. \/ \E status \in BOOLEAN : MarkHealthy(u, status)
        \/ \E n \in {1, -1} : AddConnections(u, n)
    BY <2>1 DEF RemoveConnections
  <2> QED
    BY <1>1, <2>2, CallUpdates
<1>2. ASSUME bySource, NEW tag \in Sources, NEW active \in Answers(SourceURLs(tag)),
             SyncServersBySource(tag, active)
      PROVE  \E others, own, pointer :
               /\ Scope(others, own) /\ Reaches(others, own, active, tag)
               /\ Reconciled(others, own, active, tag, pointer)
  <2> DEFINE others == OfOthers(tag)
             own == OfSource(tag)
  <2>1. Scope(others, own) /\ Reaches(others, own, active, tag)
    BY <1>2, ScopeOfSource
  <2>2. active \in Seq(URLs) /\ IsInjective(active) /\ Reconcile(others, own, active, tag)
    BY <1>2, <2>1 DEF Reaches, SyncServersBySource
  <2> HIDE DEF others, own
  <2> QED
    BY <2>1, <2>2, ReconcileDoes DEF MInv
<1>3. ASSUME ~bySource, NEW active \in Answers(URLs), SyncServers(active)
      PROVE  \E pointer :
               /\ Scope(<<>>, slice) /\ Reaches(<<>>, slice, active, NoTag)
               /\ Reconciled(<<>>, slice, active, NoTag, pointer)
  <2>1. Scope(<<>>, slice) /\ Reaches(<<>>, slice, active, NoTag)
    BY <1>3, ScopeOfAll
  <2>2. active \in Seq(URLs) /\ IsInjective(active) /\ Reconcile(<<>>, slice, active, NoTag)
    BY <1>3, <2>1 DEF Reaches, SyncServers
  <2> QED
    BY <2>1, <2>2, ReconcileDoes DEF MInv
<1> QED
  BY <1>1, <1>2, <1>3 DEF InMemoryNext

LEMMA MInvNext == MInv /\ [InMemoryNext]_inMemoryVars => MInv'
<1> SUFFICES ASSUME MInv, [InMemoryNext]_inMemoryVars PROVE MInv'
  OBVIOUS
<1>1. CASE UNCHANGED inMemoryVars
  BY <1>1 DEF inMemoryVars, MInv, InMemoryTypeOK, UniqueURLs, TagsTrue, Held
<1>2. CASE InMemoryNext
  BY <1>2, StepCases, OneEntryKeeps, ReconciledKeeps
<1> QED
  BY <1>1, <1>2

LEMMA MInvAlways == InMemorySpec => []MInv
BY MInvInit, MInvNext, PTL DEF InMemorySpec

(***************************************************************************)
(* The slice holds every address once, an entry is well formed, and an     *)
(* address that left the slice is free, whatever the watchers, the proxy   *)
(* and the health reports do.                                              *)
(***************************************************************************)
THEOREM SliceTypeCorrect == InMemorySpec => []InMemoryTypeOK
BY MInvAlways, PTL DEF MInv

(***************************************************************************)
(* No backend has two entries, for any backends and sources, if a URL      *)
(* belongs to one source.                                                  *)
(***************************************************************************)
THEOREM OneEntryPerBackend == InMemorySpec => []UniqueURLs
BY MInvAlways, PTL DEF MInv

LEMMA StablePointersStep ==
  MInv /\ MInv' /\ [InMemoryNext]_inMemoryVars =>
    [\A u \in URLs : HasEntry(u) /\ HasEntry(u)' => FirstMatch(u)' = FirstMatch(u)]_inMemoryVars
<1> SUFFICES ASSUME MInv, MInv', InMemoryNext, NEW u \in URLs, HasEntry(u), HasEntry(u)'
             PROVE  FirstMatch(u)' = FirstMatch(u)
  OBVIOUS
<1> DEFINE p == FirstMatch(u)
           q == FirstMatch(u)'
<1>1. p \in Held /\ state[p].ServerURL = u
  BY Lookup DEF MInv, LookupsExact
<1>2. q \in Held' /\ state'[q].ServerURL = u
  BY LookupNext DEF MInv, LookupsExact
<1> HIDE DEF p, q
<1>3. ASSUME NEW v \in URLs, OneEntry(FirstMatch(v)) PROVE p = q
  <2>1. /\ Held' = Held
        /\ \A r \in Held : state'[r].ServerURL = state[r].ServerURL
    <3>1. Held' = Held
      BY <1>3, OneEntryKeeps
    <3>2. \A r \in Held : state'[r].ServerURL = state[r].ServerURL
      BY <1>3, HeldProperties DEF OneEntry, MInv
    <3> QED
      BY <3>1, <3>2
  <2> QED
    BY <1>1, <1>2, <2>1 DEF MInv, UniqueURLs
<1>4. ASSUME NEW others, NEW own, NEW active, NEW tag, NEW pointer,
             Scope(others, own), Reaches(others, own, active, tag),
             Reconciled(others, own, active, tag, pointer)
      PROVE  p = q
  <2>1. CASE q \in ToSet(others) \cup Leftover(own, active)
    <3>1. q \in Held /\ state'[q].ServerURL = state[q].ServerURL
      BY <1>4, <2>1, EntriesAfter
    <3> QED
      BY <1>1, <1>2, <3>1 DEF MInv, UniqueURLs
  <2>2. ASSUME NEW v \in ToSet(active), q = pointer[v] PROVE p = q
    <3>1. v = u
      BY <1>2, <1>4, <2>2, EntriesAfter
    <3>2. p \in ToSet(own)
      BY <1>1, <1>4, <3>1 DEF Scope, Reaches
    <3>3. q \in ToSet(own) /\ state[q].ServerURL = u
      BY <1>1, <1>4, <2>2, <3>1, <3>2 DEF Reconciled, Assigns
    <3>4. q \in Held
      BY <1>4, <3>3 DEF Scope
    <3> QED
      BY <1>1, <3>3, <3>4 DEF MInv, UniqueURLs
  <2>3. Held' = ToSet(others) \cup Pointers(pointer, active) \cup Leftover(own, active)
    BY <1>4 DEF Reconciled
  <2> QED
    BY <1>2, <2>1, <2>2, <2>3 DEF Pointers
<1>5. p = q
  BY <1>3, <1>4, StepCases
<1> QED
  BY <1>5 DEF p, q

(***************************************************************************)
(* A backend that stays in the pool keeps its object: the pointers that    *)
(* the checker, the proxy and the algorithms hold do not go stale.         *)
(***************************************************************************)
THEOREM PointersAreStable == InMemorySpec => StablePointers
<1>1. MInv /\ MInv' /\ [InMemoryNext]_inMemoryVars =>
        [\A u \in URLs : HasEntry(u) /\ HasEntry(u)' => FirstMatch(u)' = FirstMatch(u)]_inMemoryVars
  BY StablePointersStep
<1> QED
  BY <1>1, MInvAlways, PTL DEF InMemorySpec, StablePointers

-----------------------------------------------------------------------------
LEMMA OthersProperties ==
  ASSUME InMemoryTypeOK, NEW tag
  PROVE  /\ OfOthers(tag) \in Seq(Refs)
         /\ ToSet(OfOthers(tag)) = {p \in Held : state[p].SourceTag # tag}
<1> DEFINE A == {p \in Held : state[p].SourceTag # tag}
<1>1. slice \in Seq(Refs) /\ ToSet(slice) = Held /\ Held \cap A = A
  BY HeldProperties DEF Held
<1>2. OfOthers(tag) = Filter(slice, A)
  BY DEF OfOthers
<1> HIDE DEF A
<1>3. Filter(slice, A) \in Seq(Refs) /\ ToSet(Filter(slice, A)) = ToSet(slice) \cap A
  BY <1>1, FilterProperties
<1> QED
  BY <1>1, <1>2, <1>3 DEF A

LEMMA SourceIsolationStep ==
  MInv /\ MInv' /\ [InMemoryNext]_inMemoryVars =>
    [bySource => \E tag \in Sources :
       Entries(OfOthers(tag))' = Entries(OfOthers(tag))]_inMemoryVars
<1> SUFFICES ASSUME MInv, MInv', InMemoryNext, bySource
             PROVE  \E tag \in Sources : Entries(OfOthers(tag))' = Entries(OfOthers(tag))
  OBVIOUS
<1>1. ASSUME NEW tag \in Sources, OfOthers(tag)' = OfOthers(tag),
             \A p \in ToSet(OfOthers(tag)) : state'[p] = state[p]
      PROVE  Entries(OfOthers(tag))' = Entries(OfOthers(tag))
  BY <1>1 DEF Entries, ToSet
<1>2. ASSUME NEW u \in URLs, OneEntry(FirstMatch(u)), state[FirstMatch(u)].ServerURL = u
      PROVE  \E tag \in Sources : Entries(OfOthers(tag))' = Entries(OfOthers(tag))
  <2> DEFINE tag == SourceOf[u]
             p == FirstMatch(u)
  <2>1. tag \in Sources /\ p \in Held /\ state[p].SourceTag = tag
    BY <1>2, InMemoryAssumption DEF OneEntry, MInv, TagsTrue
  <2>2. Held' = Held /\ slice' = slice
    BY <1>2 DEF OneEntry, Held
  <2>3. /\ \A q \in Held : state'[q].SourceTag = state[q].SourceTag
        /\ \A q \in Held \ {p} : state'[q] = state[q]
    BY <1>2, HeldProperties DEF OneEntry, MInv
  <2> HIDE DEF tag, p
  <2>4. {q \in Held' : state'[q].SourceTag # tag} = {q \in Held : state[q].SourceTag # tag}
    BY <2>2, <2>3
  <2>5. Filter(slice', {q \in Held' : state'[q].SourceTag # tag})
          = Filter(slice, {q \in Held : state[q].SourceTag # tag})
    BY <2>2, <2>4
  <2>6. OfOthers(tag)' = OfOthers(tag)
    BY <2>5 DEF OfOthers
  <2>7. \A q \in ToSet(OfOthers(tag)) : state'[q] = state[q]
    BY <2>1, <2>3, OthersProperties DEF MInv
  <2> QED
    BY <1>1, <2>1, <2>6, <2>7
<1>3. ASSUME NEW others, NEW own, NEW active, NEW tag, NEW pointer,
             Scope(others, own), Reaches(others, own, active, tag),
             Reconciled(others, own, active, tag, pointer)
      PROVE  \E t \in Sources : Entries(OfOthers(t))' = Entries(OfOthers(t))
  <2> DEFINE S == {p \in Held' : state'[p].SourceTag # tag}
  <2>1. tag \in Sources /\ others = OfOthers(tag)
    BY <1>3 DEF Reaches
  <2>2. PICK rest \in Seq(Refs) :
          /\ slice' = others \o rest
          /\ ToSet(rest) = Pointers(pointer, active) \cup Leftover(own, active)
    BY <1>3 DEF Reconciled
  <2>3. ToSet(others) \subseteq S
    <3>1. \A p \in ToSet(others) : state'[p] = state[p] /\ p \in Held'
      BY <1>3 DEF Reconciled
    <3>2. \A p \in ToSet(others) : state[p].SourceTag # tag
      BY <2>1, OthersProperties DEF MInv
    <3> QED
      BY <3>1, <3>2
  <2>4. ToSet(rest) \cap S = {}
    <3>1. \A p \in Pointers(pointer, active) : state'[p].SourceTag = tag
      BY <1>3, EntriesAfter DEF Pointers
    <3>2. \A p \in Leftover(own, active) : state'[p].SourceTag = tag
      <4>1. \A p \in Leftover(own, active) : state'[p].SourceTag = state[p].SourceTag
        BY <1>3, EntriesAfter
      <4>2. \A p \in Leftover(own, active) : state[p].SourceTag = tag
        BY <1>3 DEF Leftover, Reaches
      <4> QED
        BY <4>1, <4>2
    <3> QED
      BY <2>2, <3>1, <3>2
  <2> HIDE DEF S
  <2>5. Filter(others \o rest, S) = others
    BY <1>3, <2>2, <2>3, <2>4, FilterOfConcat DEF Scope
  <2>6. OfOthers(tag)' = Filter(slice', S)
    BY DEF OfOthers, S
  <2>7. OfOthers(tag)' = OfOthers(tag)
    BY <2>1, <2>2, <2>5, <2>6
  <2>8. \A p \in ToSet(OfOthers(tag)) : state'[p] = state[p]
    BY <1>3, <2>1 DEF Reconciled
  <2> QED
    BY <1>1, <2>1, <2>7, <2>8
<1> QED
  BY <1>2, <1>3, StepCases

(***************************************************************************)
(* One step changes entries of one source at most: a watcher leaves the    *)
(* entries of every other source, their order and their flags as they are. *)
(***************************************************************************)
THEOREM SourcesAreIsolated == InMemorySpec => SourceIsolation
BY SourceIsolationStep, MInvAlways, PTL DEF InMemorySpec, SourceIsolation

-----------------------------------------------------------------------------
(***************************************************************************)
(* The pool as a caller sees it: what EntryOf gives for a URL is what its  *)
(* one entry holds.                                                        *)
(***************************************************************************)
Shows(u, entry) ==
  /\ HasEntry(u)
  /\ EntryOf(u, "Healthy", FALSE) = entry.Healthy
  /\ EntryOf(u, "Draining", FALSE) = entry.Draining
  /\ EntryOf(u, "ActiveConnections", 0) = entry.ActiveConnections

ShowsNothing(u) ==
  /\ ~HasEntry(u)
  /\ EntryOf(u, "Healthy", FALSE) = FALSE /\ EntryOf(u, "Draining", FALSE) = FALSE
  /\ EntryOf(u, "ActiveConnections", 0) = 0

EntriesShown ==
  /\ \A p \in Held : Shows(state[p].ServerURL, state[p])
  /\ \A u : (\A p \in Held : state[p].ServerURL # u) => ShowsNothing(u)

LEMMA Shown == MInv => EntriesShown
<1> SUFFICES ASSUME MInv PROVE EntriesShown
  OBVIOUS
<1>1. ASSUME NEW p \in Held PROVE Shows(state[p].ServerURL, state[p])
  <2>1. HasEntry(state[p].ServerURL) /\ FirstMatch(state[p].ServerURL) = p
    BY Lookup DEF MInv, LookupsExact
  <2>2. state[p] \in ServerState
    BY HeldProperties DEF MInv
  <2> QED
    BY <2>1, <2>2 DEF Shows, EntryOf, ServerState
<1>2. ASSUME NEW u, \A p \in Held : state[p].ServerURL # u PROVE ShowsNothing(u)
  <2>1. ~HasEntry(u)
    BY <1>2 DEF HasEntry
  <2> QED
    BY <2>1 DEF ShowsNothing, EntryOf
<1> QED
  BY <1>1, <1>2 DEF EntriesShown

LEMMA ShownNext == MInv' => EntriesShown'
BY Shown, PTL

LEMMA ShownOne ==
  ASSUME MInv, MInv', NEW u
  PROVE  /\ \A p \in Held : state[p].ServerURL = u => Shows(u, state[p])
         /\ (\A p \in Held : state[p].ServerURL # u) => ShowsNothing(u)
         /\ \A p \in Held' : state'[p].ServerURL = u =>
              /\ HasEntry(u)'
              /\ EntryOf(u, "Healthy", FALSE)' = state'[p].Healthy
              /\ EntryOf(u, "Draining", FALSE)' = state'[p].Draining
              /\ EntryOf(u, "ActiveConnections", 0)' = state'[p].ActiveConnections
         /\ (\A p \in Held' : state'[p].ServerURL # u) => ShowsNothing(u)'
BY Shown, ShownNext DEF EntriesShown, Shows

\* After a call for u every other backend looks as before, and u as its entry says.
LEMMA OneShown ==
  ASSUME MInv, MInv', NEW u \in URLs, OneEntry(FirstMatch(u)), state[FirstMatch(u)].ServerURL = u
  PROVE  /\ Shows(u, state[FirstMatch(u)])
         /\ EntryOf(u, "Healthy", FALSE)' = state'[FirstMatch(u)].Healthy
         /\ EntryOf(u, "Draining", FALSE)' = state'[FirstMatch(u)].Draining
         /\ EntryOf(u, "ActiveConnections", 0)' = state'[FirstMatch(u)].ActiveConnections
         /\ \A v \in URLs : HasEntry(v)' <=> HasEntry(v)
         /\ \A v \in URLs \ {u} :
              /\ EntryOf(v, "Healthy", FALSE)' = EntryOf(v, "Healthy", FALSE)
              /\ EntryOf(v, "Draining", FALSE)' = EntryOf(v, "Draining", FALSE)
              /\ EntryOf(v, "ActiveConnections", 0)' = EntryOf(v, "ActiveConnections", 0)
<1> DEFINE p == FirstMatch(u)
<1>1. /\ Held' = Held /\ Held \subseteq Refs /\ p \in Held /\ state[p].ServerURL = u
      /\ state'[p].ServerURL = u
      /\ \A q \in Refs \ {p} : state'[q] = state[q]
  BY OneEntryKeeps, HeldProperties DEF OneEntry, MInv
<1> HIDE DEF p
<1>2. /\ Shows(u, state[p]) /\ HasEntry(u)'
      /\ EntryOf(u, "Healthy", FALSE)' = state'[p].Healthy
      /\ EntryOf(u, "Draining", FALSE)' = state'[p].Draining
      /\ EntryOf(u, "ActiveConnections", 0)' = state'[p].ActiveConnections
  BY <1>1, ShownOne
<1>3. ASSUME NEW v \in URLs \ {u}
      PROVE  /\ HasEntry(v)' <=> HasEntry(v)
             /\ EntryOf(v, "Healthy", FALSE)' = EntryOf(v, "Healthy", FALSE)
             /\ EntryOf(v, "Draining", FALSE)' = EntryOf(v, "Draining", FALSE)
             /\ EntryOf(v, "ActiveConnections", 0)' = EntryOf(v, "ActiveConnections", 0)
  <2>1. ASSUME NEW q \in Held, state[q].ServerURL = v
        PROVE  /\ HasEntry(v)' <=> HasEntry(v)
               /\ EntryOf(v, "Healthy", FALSE)' = EntryOf(v, "Healthy", FALSE)
               /\ EntryOf(v, "Draining", FALSE)' = EntryOf(v, "Draining", FALSE)
               /\ EntryOf(v, "ActiveConnections", 0)' = EntryOf(v, "ActiveConnections", 0)
    <3>1. state'[q] = state[q] /\ q \in Held'
      BY <1>1, <2>1
    <3>2. Shows(v, state[q])
      BY <2>1, ShownOne
    <3>3. /\ HasEntry(v)'
          /\ EntryOf(v, "Healthy", FALSE)' = state'[q].Healthy
          /\ EntryOf(v, "Draining", FALSE)' = state'[q].Draining
          /\ EntryOf(v, "ActiveConnections", 0)' = state'[q].ActiveConnections
      BY <2>1, <3>1, ShownOne
    <3> QED
      BY <3>1, <3>2, <3>3 DEF Shows
  <2>2. CASE \A q \in Held : state[q].ServerURL # v
    <3>1. \A q \in Held' : state'[q].ServerURL # v
      BY <1>1, <2>2
    <3>2. ShowsNothing(v) /\ ShowsNothing(v)'
      BY <2>2, <3>1, ShownOne
    <3> QED
      BY <3>2 DEF ShowsNothing
  <2> QED
    BY <2>1, <2>2
<1>4. HasEntry(u)
  BY <1>2 DEF Shows
<1> QED
  BY <1>2, <1>3, <1>4 DEF p

\* A call on the slice is the same call on the pool.
LEMMA CallImplements ==
  ASSUME MInv, MInv', CallNext
  PROVE  \E u \in URLs : \/ \E status \in BOOLEAN : Abstract!MarkHealthy(u, status)
                         \/ Abstract!AddConnections(u, 1)
                         \/ Abstract!RemoveConnections(u, 1)
<1>1. PICK u \in URLs : \/ \E status \in BOOLEAN : MarkHealthy(u, status)
                        \/ \E n \in {1, -1} : AddConnections(u, n)
  BY DEF CallNext, RemoveConnections
<1> DEFINE p == FirstMatch(u)
<1> USE DEF PoolServers, PoolHealthy, PoolDraining, PoolConns
<1>2. OneEntry(p) /\ state[p].ServerURL = u
  BY <1>1, CallUpdates
<1>3. p \in Refs /\ state[p] \in ServerState /\ DOMAIN state = Refs
  BY <1>2, HeldProperties DEF OneEntry, MInv, InMemoryTypeOK
<1>4. PoolServers' = PoolServers /\ u \in PoolServers
  BY <1>2, OneShown DEF Shows
<1>5. /\ EntryOf(u, "Healthy", FALSE) = state[p].Healthy
      /\ EntryOf(u, "Draining", FALSE) = state[p].Draining
      /\ EntryOf(u, "ActiveConnections", 0) = state[p].ActiveConnections
      /\ EntryOf(u, "Healthy", FALSE)' = state'[p].Healthy
      /\ EntryOf(u, "Draining", FALSE)' = state'[p].Draining
      /\ EntryOf(u, "ActiveConnections", 0)' = state'[p].ActiveConnections
      /\ \A v \in URLs \ {u} :
           /\ EntryOf(v, "Healthy", FALSE)' = EntryOf(v, "Healthy", FALSE)
           /\ EntryOf(v, "Draining", FALSE)' = EntryOf(v, "Draining", FALSE)
           /\ EntryOf(v, "ActiveConnections", 0)' = EntryOf(v, "ActiveConnections", 0)
  BY <1>2, OneShown DEF Shows
<1>6. ASSUME NEW status \in BOOLEAN, MarkHealthy(u, status)
      PROVE  Abstract!MarkHealthy(u, status)
  <2>1. state' = [state EXCEPT ![p].Healthy = status]
    BY <1>6 DEF MarkHealthy
  <2> HIDE DEF p
  <2>2. /\ state'[p].Healthy = status /\ state'[p].Draining = state[p].Draining
        /\ state'[p].ActiveConnections = state[p].ActiveConnections
    BY <1>3, <2>1 DEF ServerState
  <2>3. PoolHealthy' = [PoolHealthy EXCEPT ![u] = status]
    BY <1>5, <2>2
  <2>4. PoolDraining' = PoolDraining
    BY <1>5, <2>2
  <2>5. PoolConns' = PoolConns
    BY <1>5, <2>2
  <2> QED
    BY <1>4, <2>3, <2>4, <2>5 DEF Abstract!MarkHealthy
<1>7. ASSUME NEW n \in {1, -1}, AddConnections(u, n)
      PROVE  Abstract!AddConnections(u, n)
  <2>1. state' = [state EXCEPT ![p].ActiveConnections = @ + n]
    BY <1>7 DEF AddConnections
  <2> HIDE DEF p
  <2>2. /\ state'[p].Healthy = state[p].Healthy /\ state'[p].Draining = state[p].Draining
        /\ state'[p].ActiveConnections = state[p].ActiveConnections + n
    BY <1>3, <2>1 DEF ServerState
  <2>3. PoolConns' = [PoolConns EXCEPT ![u] = PoolConns[u] + n]
    BY <1>5, <2>2
  <2>4. PoolDraining' = PoolDraining
    BY <1>5, <2>2
  <2>5. PoolHealthy' = PoolHealthy
    BY <1>5, <2>2
  <2> QED
    BY <1>4, <2>3, <2>4, <2>5 DEF Abstract!AddConnections
<1>8. ASSUME AddConnections(u, -1) PROVE Abstract!RemoveConnections(u, 1)
  <2>1. PoolConns \in [URLs -> Int]
    <3>1. \A v \in URLs : EntryOf(v, "ActiveConnections", 0) \in Int
      <4> SUFFICES ASSUME NEW v \in URLs PROVE EntryOf(v, "ActiveConnections", 0) \in Int
        OBVIOUS
      <4>1. ASSUME NEW q \in Held, state[q].ServerURL = v
            PROVE  EntryOf(v, "ActiveConnections", 0) \in Int
        <5>1. Shows(v, state[q])
          BY <4>1, ShownOne
        <5>2. state[q].ActiveConnections \in Int
          BY HeldProperties DEF MInv, ServerState
        <5> QED
          BY <5>1, <5>2 DEF Shows
      <4>2. CASE \A q \in Held : state[q].ServerURL # v
        <5>1. ShowsNothing(v)
          BY <4>2, ShownOne
        <5> QED
          BY <5>1 DEF ShowsNothing
      <4> QED
        BY <4>1, <4>2
    <3> QED
      BY <3>1
  <2>2. Abstract!AddConnections(u, -1)
    BY <1>7, <1>8
  <2>3. PoolConns[u] + (-1) = PoolConns[u] - 1
    BY <2>1
  <2> QED
    BY <2>2, <2>3 DEF Abstract!AddConnections, Abstract!RemoveConnections
<1>9. \/ \E status \in BOOLEAN : Abstract!MarkHealthy(u, status)
      \/ Abstract!AddConnections(u, 1)
      \/ Abstract!RemoveConnections(u, 1)
  BY <1>1, <1>6, <1>7, <1>8
<1> QED
  BY <1>9

\* A reconciliation of one part of the slice is one of those backends' pool entries.
LEMMA ReconciledImplements ==
  ASSUME MInv, MInv', NEW others, NEW own, NEW active, NEW tag, NEW pointer, NEW scope,
         Scope(others, own), Reaches(others, own, active, tag),
         Reconciled(others, own, active, tag, pointer),
         ToSet(active) \subseteq scope,
         \A p \in ToSet(own) : state[p].ServerURL \in scope,
         \A p \in ToSet(others) : state[p].ServerURL \notin scope
  PROVE  Abstract!Reconcile(scope, ToSet(active))
<1> DEFINE A == ToSet(active)
           drains == {u \in (PoolServers \cap scope) \ A : PoolConns[u] > 0}
           drops == {u \in (PoolServers \cap scope) \ A : PoolConns[u] <= 0}
           joins == A \ PoolServers
           Same(u) == /\ PoolHealthy'[u] = PoolHealthy[u]
                      /\ PoolDraining'[u] = PoolDraining[u]
                      /\ PoolConns'[u] = PoolConns[u]
           Draining(u) == /\ PoolHealthy'[u] = FALSE
                          /\ PoolDraining'[u] = TRUE
                          /\ PoolConns'[u] = PoolConns[u]
           Cleared(u) == /\ PoolHealthy'[u] = FALSE
                         /\ PoolDraining'[u] = FALSE
                         /\ PoolConns'[u] = 0
<1> USE DEF PoolServers, PoolHealthy, PoolDraining, PoolConns
<1>1. /\ Held \subseteq Refs
      /\ \A p \in Held : state[p] \in ServerState /\ state[p].ServerURL \in URLs
      /\ ToSet(others) \cup ToSet(own) = Held
      /\ Held' = ToSet(others) \cup Pointers(pointer, active) \cup Leftover(own, active)
      /\ A \subseteq URLs
  BY HeldProperties DEF MInv, ServerState, Scope, Reconciled, Reaches
<1>2. ASSUME NEW u \in A
      PROVE  /\ u \in PoolServers' /\ PoolDraining'[u] = FALSE
             /\ IF u \in PoolServers
                THEN PoolHealthy'[u] = PoolHealthy[u] /\ PoolConns'[u] = PoolConns[u]
                ELSE PoolHealthy'[u] = TRUE /\ PoolConns'[u] = 0
  <2> DEFINE p == pointer[u]
  <2>1. /\ p \in Held' /\ state'[p] = Kept(p, u, tag) /\ state'[p].ServerURL = u
        /\ \/ p \in ToSet(own) /\ state[p].ServerURL = u
           \/ p \notin Held /\ \A q \in ToSet(own) : state[q].ServerURL # u
    <3>1. p \in Pointers(pointer, active)
      BY DEF Pointers
    <3>2. p \in Held' /\ state'[p] = Kept(p, u, tag)
      BY <1>1, <3>1 DEF Reconciled
    <3>3. state'[p].ServerURL = u
      BY EntriesAfter
    <3> QED
      BY <3>2, <3>3 DEF Reconciled, Assigns
  <2> HIDE DEF p
  <2>2. /\ HasEntry(u)' /\ EntryOf(u, "Healthy", FALSE)' = state'[p].Healthy
        /\ EntryOf(u, "Draining", FALSE)' = state'[p].Draining
        /\ EntryOf(u, "ActiveConnections", 0)' = state'[p].ActiveConnections
    BY <2>1, ShownOne
  <2>3. CASE p \in ToSet(own) /\ state[p].ServerURL = u
    <3>1. p \in Held /\ Shows(u, state[p])
      BY <1>1, <2>3, ShownOne
    <3>2. state'[p] = [state[p] EXCEPT !.Draining = FALSE]
      BY <2>1, <3>1 DEF Kept
    <3>3. /\ state'[p].Healthy = state[p].Healthy /\ state'[p].Draining = FALSE
          /\ state'[p].ActiveConnections = state[p].ActiveConnections
      BY <1>1, <3>1, <3>2 DEF ServerState
    <3> QED
      BY <1>1, <2>2, <3>1, <3>3 DEF Shows
  <2>4. CASE p \notin Held /\ \A q \in ToSet(own) : state[q].ServerURL # u
    <3>1. \A q \in Held : state[q].ServerURL # u
      BY <1>1, <2>4
    <3>2. ~HasEntry(u)
      BY <3>1, ShownOne DEF ShowsNothing
    <3>3. state'[p].Healthy = TRUE /\ state'[p].Draining = FALSE /\ state'[p].ActiveConnections = 0
      BY <2>1, <2>4 DEF Kept, NewServer
    <3> QED
      BY <1>1, <2>2, <3>2, <3>3
  <2> HIDE DEF A, PoolServers, PoolHealthy, PoolDraining, PoolConns
  <2> QED
    BY <2>1, <2>3, <2>4
<1>3. ASSUME NEW u \in URLs \ A, NEW p \in Held, state[p].ServerURL = u
      PROVE  /\ u \in PoolServers
             /\ u \notin scope => u \in PoolServers' /\ Same(u)
             /\ u \in drains => u \in PoolServers' /\ Draining(u)
             /\ u \in drops => u \notin PoolServers' /\ Cleared(u)
  <2>1. Shows(u, state[p])
    BY <1>3, ShownOne
  <2>2. p \in Held' /\ state'[p].ServerURL = u =>
          /\ HasEntry(u)' /\ EntryOf(u, "Healthy", FALSE)' = state'[p].Healthy
          /\ EntryOf(u, "Draining", FALSE)' = state'[p].Draining
          /\ EntryOf(u, "ActiveConnections", 0)' = state'[p].ActiveConnections
    BY ShownOne
  <2>3. ASSUME u \notin scope PROVE u \in PoolServers' /\ Same(u)
    <3>1. p \in ToSet(others)
      BY <1>1, <1>3, <2>3
    <3>2. p \in Held' /\ state'[p] = state[p]
      BY <1>1, <3>1 DEF Reconciled
    <3> QED
      BY <1>3, <2>1, <2>2, <3>2 DEF Shows
  <2>4. ASSUME u \in drains PROVE u \in PoolServers' /\ Draining(u)
    <3>1. p \in ToSet(own) /\ state[p].ActiveConnections > 0
      BY <1>1, <1>3, <2>1, <2>4 DEF Shows
    <3>2. p \in Leftover(own, active)
      BY <1>3, <3>1 DEF Leftover
    <3>3. p \in Held' /\ state'[p] = [state[p] EXCEPT !.Draining = TRUE, !.Healthy = FALSE]
      BY <1>1, <3>2 DEF Reconciled, Drained
    <3>4. /\ state'[p].ServerURL = u /\ state'[p].Healthy = FALSE /\ state'[p].Draining = TRUE
          /\ state'[p].ActiveConnections = state[p].ActiveConnections
      BY <1>1, <1>3, <3>3 DEF ServerState
    <3> QED
      BY <2>1, <2>2, <3>3, <3>4 DEF Shows
  <2>5. ASSUME u \in drops PROVE u \notin PoolServers' /\ Cleared(u)
    <3>1. state[p].ActiveConnections <= 0 /\ state[p].ActiveConnections \in Int
          /\ p \notin ToSet(others)
      BY <1>1, <1>3, <2>1, <2>5 DEF Shows, ServerState
    <3>2. p \notin Leftover(own, active)
      BY <3>1 DEF Leftover
    <3>3. ASSUME NEW q \in Held' PROVE state'[q].ServerURL # u
      <4>1. CASE q \in ToSet(others) \cup Leftover(own, active)
        <5>1. q \in Held /\ state'[q].ServerURL = state[q].ServerURL /\ q # p
          BY <3>1, <3>2, <4>1, EntriesAfter
        <5> QED
          BY <1>3, <5>1 DEF MInv, UniqueURLs
      <4>2. ASSUME NEW v \in A, q = pointer[v] PROVE state'[q].ServerURL # u
        BY <4>2, EntriesAfter
      <4> QED
        BY <1>1, <4>1, <4>2 DEF Pointers
    <3>4. ShowsNothing(u)'
      BY <3>3, ShownOne
    <3> QED
      BY <3>4 DEF ShowsNothing
  <2>6. u \in PoolServers
    BY <2>1 DEF Shows
  <2> QED
    BY <2>3, <2>4, <2>5, <2>6
<1>4. ASSUME NEW u \in URLs \ A, \A p \in Held : state[p].ServerURL # u
      PROVE  /\ u \notin PoolServers /\ u \notin PoolServers'
             /\ Same(u) /\ PoolHealthy[u] = FALSE /\ PoolDraining[u] = FALSE
  <2>1. ASSUME NEW q \in Held' PROVE state'[q].ServerURL # u
    <3>1. CASE q \in ToSet(others) \cup Leftover(own, active)
      BY <1>4, <3>1, EntriesAfter
    <3>2. ASSUME NEW v \in A, q = pointer[v] PROVE state'[q].ServerURL # u
      BY <3>2, EntriesAfter
    <3> QED
      BY <1>1, <3>1, <3>2 DEF Pointers
  <2>2. ShowsNothing(u) /\ ShowsNothing(u)'
    BY <1>4, <2>1, ShownOne
  <2> QED
    BY <2>2 DEF ShowsNothing
<1> HIDE DEF A
<1>5. \A u \in URLs : /\ PoolHealthy[u] \in BOOLEAN /\ PoolDraining[u] \in BOOLEAN
                      /\ PoolConns[u] \in Int
  <2> SUFFICES ASSUME NEW u \in URLs
               PROVE  /\ EntryOf(u, "Healthy", FALSE) \in BOOLEAN
                      /\ EntryOf(u, "Draining", FALSE) \in BOOLEAN
                      /\ EntryOf(u, "ActiveConnections", 0) \in Int
    OBVIOUS
  <2>1. ASSUME NEW p \in Held, state[p].ServerURL = u
        PROVE  /\ EntryOf(u, "Healthy", FALSE) \in BOOLEAN
               /\ EntryOf(u, "Draining", FALSE) \in BOOLEAN
               /\ EntryOf(u, "ActiveConnections", 0) \in Int
    <3>1. Shows(u, state[p])
      BY <2>1, ShownOne
    <3>2. /\ state[p].Healthy \in BOOLEAN /\ state[p].Draining \in BOOLEAN
          /\ state[p].ActiveConnections \in Int
      BY <1>1 DEF ServerState
    <3> QED
      BY <3>1, <3>2 DEF Shows
  <2>2. CASE \A p \in Held : state[p].ServerURL # u
    <3>1. ~HasEntry(u)
      BY <2>2, ShownOne DEF ShowsNothing
    <3> QED
      BY <3>1 DEF EntryOf
  <2> QED
    BY <2>1, <2>2
<1>6. PoolServers' \subseteq URLs /\ PoolServers \subseteq URLs
  OBVIOUS
<1>7. \A u \in URLs \ A : \/ \E p \in Held : state[p].ServerURL = u
                          \/ \A p \in Held : state[p].ServerURL # u
  OBVIOUS
<1>8. /\ PoolHealthy' = [u \in URLs |-> PoolHealthy'[u]]
      /\ PoolDraining' = [u \in URLs |-> PoolDraining'[u]]
      /\ PoolConns' = [u \in URLs |-> PoolConns'[u]]
  OBVIOUS
<1> HIDE DEF PoolServers, PoolHealthy, PoolDraining, PoolConns
<1>9. ASSUME NEW u \in URLs \ A
       PROVE  /\ u \in PoolServers' <=> u \in PoolServers \ drops
              /\ u \in PoolServers' => u \in PoolServers
              /\ u \in drains => Draining(u)
              /\ u \in drops => Cleared(u)
              /\ u \notin drains \cup drops => Same(u)
  <2>1. ASSUME NEW p \in Held, state[p].ServerURL = u
        PROVE  /\ u \in PoolServers
               /\ u \notin scope => u \in PoolServers' /\ Same(u)
               /\ u \in drains => u \in PoolServers' /\ Draining(u)
               /\ u \in drops => u \notin PoolServers' /\ Cleared(u)
    BY <1>3, <2>1
  <2>2. u \in PoolServers /\ u \in scope => u \in drains \cup drops
    BY <1>5
  <2>3. /\ drains \subseteq PoolServers \cap scope /\ drops \subseteq PoolServers \cap scope
        /\ drains \cap drops = {}
    BY <1>5, <1>6
  <2> HIDE DEF drains, drops
  <2> QED
    BY <1>4, <1>7, <2>1, <2>2, <2>3
<1>10. /\ drains \cap A = {} /\ drops \cap A = {} /\ joins \subseteq A
       /\ \A u \in A : u \in joins <=> u \notin PoolServers
  OBVIOUS
<1>11. PoolServers' = (PoolServers \ drops) \cup A
  <2> HIDE DEF drains, drops, joins
  <2> QED
    BY <1>1, <1>2, <1>6, <1>9, <1>10
<1>12. \A u \in URLs :
         PoolHealthy'[u] = (u \in joins \/ (PoolHealthy[u] /\ u \notin drains \cup drops))
  <2> HIDE DEF drains, drops, joins
  <2> QED
    BY <1>2, <1>5, <1>9, <1>10
<1>13. \A u \in URLs :
         PoolDraining'[u] = (u \in drains \/ (PoolDraining[u] /\ u \notin A \cup drops))
  <2> HIDE DEF drains, drops, joins
  <2> QED
    BY <1>2, <1>5, <1>9, <1>10
<1>14. \A u \in URLs : PoolConns'[u] = IF u \in joins \cup drops THEN 0 ELSE PoolConns[u]
  <2> HIDE DEF drains, drops, joins
  <2> QED
    BY <1>2, <1>5, <1>9, <1>10
<1>15. Abstract!StartsDraining(scope, A) = drains /\ Abstract!Dropped(scope, A) = drops
  BY DEF Abstract!StartsDraining, Abstract!Dropped, PoolServers, PoolConns
<1>16. /\ PoolHealthy' =
            [u \in URLs |-> u \in joins \/ (PoolHealthy[u] /\ u \notin drains \cup drops)]
       /\ PoolDraining' =
            [u \in URLs |-> u \in drains \/ (PoolDraining[u] /\ u \notin A \cup drops)]
       /\ PoolConns' = [u \in URLs |-> IF u \in joins \cup drops THEN 0 ELSE PoolConns[u]]
  <2> HIDE DEF drains, drops, joins
  <2> QED
    BY <1>8, <1>12, <1>13, <1>14
<1>17. Abstract!Reconcile(scope, A)
  <2>1. A \ PoolServers = joins
    OBVIOUS
  <2> HIDE DEF drains, drops, joins
  <2> QED
    BY <1>11, <1>15, <1>16, <2>1 DEF Abstract!Reconcile
<1> QED
  BY <1>17 DEF A

LEMMA InitImplements == InMemoryInit => Abstract!PoolInit
<1> SUFFICES ASSUME InMemoryInit PROVE Abstract!PoolInit
  OBVIOUS
<1>1. Held = {}
  BY DEF InMemoryInit, Held, ToSet
<1>2. \A u : ~HasEntry(u)
  BY <1>1 DEF HasEntry
<1> QED
  BY <1>2 DEF Abstract!PoolInit, PoolServers, PoolHealthy, PoolDraining, PoolConns, EntryOf

LEMMA StepImplements ==
  ASSUME MInv, MInv', InMemoryNext
  PROVE  /\ Abstract!PoolNext
         /\ bySource => Abstract!SourcedNext
<1>1. CASE CallNext
  BY <1>1, CallImplements DEF Abstract!PoolNext, Abstract!SourcedNext
<1>2. ASSUME NEW others, NEW own, NEW active, NEW tag, NEW pointer,
             Scope(others, own), Reaches(others, own, active, tag),
             Reconciled(others, own, active, tag, pointer)
      PROVE  Abstract!PoolNext /\ (bySource => Abstract!SourcedNext)
  <2>1. /\ ToSet(active) \subseteq URLs
        /\ ToSet(own) \subseteq Held
        /\ \A p \in Held : state[p].ServerURL \in URLs
    BY <1>2, HeldProperties DEF Reaches, Scope, MInv, ServerState
  <2>2. CASE bySource
    <3> DEFINE scope == Abstract!SourceURLs(tag)
    <3>1. tag \in Sources /\ others = OfOthers(tag)
      BY <1>2, <2>2 DEF Reaches
    <3>2. ToSet(active) \subseteq scope
      BY <1>2, <2>1, <2>2 DEF Reaches, Abstract!SourceURLs
    <3>3. \A p \in ToSet(own) : state[p].ServerURL \in scope
      <4>1. \A p \in ToSet(own) : state[p].SourceTag = tag
        BY <1>2, <2>2 DEF Reaches
      <4> QED
        BY <2>1, <2>2, <4>1 DEF MInv, TagsTrue, Abstract!SourceURLs
    <3>4. \A p \in ToSet(others) : state[p].ServerURL \notin scope
      <4>1. \A p \in ToSet(others) : p \in Held /\ state[p].SourceTag # tag
        BY <3>1, OthersProperties DEF MInv
      <4> QED
        BY <2>2, <4>1 DEF MInv, TagsTrue, Abstract!SourceURLs
    <3> HIDE DEF scope
    <3>5. Abstract!Reconcile(scope, ToSet(active))
      BY <1>2, <3>2, <3>3, <3>4, ReconciledImplements
    <3>6. Abstract!SyncServersBySource(tag, ToSet(active))
      BY <3>5 DEF Abstract!SyncServersBySource, scope
    <3> QED
      BY <3>1, <3>2, <3>6 DEF Abstract!PoolNext, Abstract!SourcedNext, scope
  <2>3. CASE ~bySource
    <3>1. ToSet(others) = {}
      BY <1>2, <2>3 DEF Reaches, ToSet
    <3>2. Abstract!Reconcile(URLs, ToSet(active))
      BY <1>2, <2>1, <3>1, ReconciledImplements
    <3>3. Abstract!SyncServers(ToSet(active))
      BY <3>2 DEF Abstract!SyncServers
    <3> QED
      BY <2>1, <2>3, <3>3 DEF Abstract!PoolNext
  <2> QED
    BY <2>2, <2>3
<1> QED
  BY <1>1, <1>2, StepCases

LEMMA StutterImplements == UNCHANGED inMemoryVars => UNCHANGED Abstract!poolVars
<1> SUFFICES ASSUME UNCHANGED inMemoryVars PROVE UNCHANGED Abstract!poolVars
  OBVIOUS
<1>1. slice' = slice /\ state' = state /\ Held' = Held
  BY DEF inMemoryVars, Held
<1>2. \A u : (HasEntry(u)' <=> HasEntry(u)) /\ FirstMatch(u)' = FirstMatch(u)
  BY <1>1 DEF HasEntry, FirstMatch, SelectInSeq
<1>3. \A u, field, default : EntryOf(u, field, default)' = EntryOf(u, field, default)
  BY <1>1, <1>2 DEF EntryOf
<1> QED
  BY <1>2, <1>3 DEF Abstract!poolVars, PoolServers, PoolHealthy, PoolDraining, PoolConns

(***************************************************************************)
(* The slice implements the pool of Pool.tla: what the other modules say   *)
(* of the pool holds of the slice of pointers, for any backends, sources   *)
(* and addresses, and for both reconciling methods.                        *)
(***************************************************************************)
THEOREM SliceImplementsPool == InMemorySpec => ImplementsPool
<1>1. MInv /\ MInv' /\ [InMemoryNext]_inMemoryVars => [Abstract!PoolNext]_Abstract!poolVars
  BY StepImplements, StutterImplements
<1>2. MInv /\ MInv' /\ [InMemoryNext]_inMemoryVars =>
        [bySource => Abstract!SourcedNext \/ UNCHANGED Abstract!poolVars]_inMemoryVars
  BY StepImplements, StutterImplements
<1> QED
  BY <1>1, <1>2, InitImplements, MInvAlways, PTL
  DEF InMemorySpec, ImplementsPool, Abstract!PoolSpec

-----------------------------------------------------------------------------
LEMMA HealthyAgreesState == MInv => HealthyAgrees
<1> SUFFICES ASSUME MInv PROVE HealthyAgrees
  OBVIOUS
<1> DEFINE S == {p \in Held : state[p].Healthy}
           I == {i \in DOMAIN slice : slice[i] \in S}
           T == Abstract!GetHealthy
           url == [i \in I |-> state[slice[i]].ServerURL]
<1>1. slice \in Seq(Refs) /\ IsInjective(slice) /\ ToSet(slice) = Held
      /\ \A p \in Held : state[p] \in ServerState
  BY HeldProperties DEF MInv, Held
<1>2. \A p \in Held : Shows(state[p].ServerURL, state[p])
  BY Shown DEF EntriesShown
<1>3. \A p \in S : state[p].ServerURL \in T
  <2> SUFFICES ASSUME NEW p \in S PROVE state[p].ServerURL \in T
    OBVIOUS
  <2>1. state[p].ServerURL \in URLs /\ state[p].Healthy
    BY <1>1 DEF ServerState
  <2>2. Shows(state[p].ServerURL, state[p])
    BY <1>2
  <2> QED
    BY <2>1, <2>2 DEF Shows, Abstract!GetHealthy, PoolServers, PoolHealthy
<1>4. \A u \in T : \E p \in S : state[p].ServerURL = u
  <2> SUFFICES ASSUME NEW u \in T PROVE \E p \in S : state[p].ServerURL = u
    OBVIOUS
  <2>1. u \in URLs /\ HasEntry(u) /\ EntryOf(u, "Healthy", FALSE)
    BY DEF Abstract!GetHealthy, PoolServers, PoolHealthy
  <2>2. PICK p \in Held : state[p].ServerURL = u
    BY <2>1 DEF HasEntry
  <2>3. Shows(u, state[p])
    BY <1>2, <2>2
  <2>4. state[p].Healthy
    BY <2>1, <2>3 DEF Shows
  <2> QED
    BY <2>2, <2>4
<1>5. {state[p].ServerURL : p \in S} = T
  BY <1>3, <1>4
<1>6. url \in Bijection(I, T)
  <2>1. url \in [I -> T]
    BY <1>3
  <2>2. \A i, j \in I : url[i] = url[j] => i = j
    BY <1>1 DEF IsInjective, MInv, UniqueURLs
  <2>3. \A u \in T : \E i \in I : url[i] = u
    <3> SUFFICES ASSUME NEW u \in T PROVE \E i \in I : url[i] = u
      OBVIOUS
    <3>1. PICK p \in S : state[p].ServerURL = u
      BY <1>4
    <3>2. PICK i \in DOMAIN slice : slice[i] = p
      BY <1>1, <3>1 DEF ToSet
    <3> QED
      BY <3>1, <3>2
  <2> HIDE DEF url, I, T
  <2> QED
    BY <2>1, <2>2, <2>3 DEF Bijection, Injection, Surjection, IsInjective
<1>7. IsFiniteSet(I)
  <2>1. I \in SUBSET (1 .. Len(slice)) /\ Len(slice) \in Nat
    BY <1>1
  <2> HIDE DEF I
  <2> QED
    BY <2>1, IncreasingProperties
<1>8. Cardinality(T) = Cardinality(I)
  <2> HIDE DEF url, I, T
  <2> QED
    BY <1>6, <1>7, FS_Bijection DEF ExistsBijection
<1>9. GetHealthy = Filter(slice, S)
  BY DEF GetHealthy
<1>10. Held \cap S = S
  OBVIOUS
<1> HIDE DEF S, T
<1>11. ToSet(Filter(slice, S)) = ToSet(slice) \cap S /\ Len(Filter(slice, S)) = Cardinality(I)
  <2>1. slice \in Seq(Refs)
    BY <1>1
  <2>2. ToSet(Filter(slice, S)) = ToSet(slice) \cap S
    BY <2>1, FilterProperties
  <2>3. Len(Filter(slice, S)) = Cardinality(Positions(slice, S))
    BY <2>1, FilterProperties
  <2> QED
    BY <2>2, <2>3 DEF Positions
<1>12. ToSet(GetHealthy) = S /\ Len(GetHealthy) = Cardinality(T)
  BY <1>1, <1>8, <1>9, <1>10, <1>11
<1> QED
  BY <1>5, <1>12 DEF HealthyAgrees, T

(***************************************************************************)
(* GetHealthy lists each backend that the pool calls healthy, once: no     *)
(* algorithm gets a backend twice, or misses one, because of the slice.    *)
(***************************************************************************)
THEOREM HealthyListAgrees == InMemorySpec => []HealthyAgrees
BY HealthyAgreesState, MInvAlways, PTL

=============================================================================
