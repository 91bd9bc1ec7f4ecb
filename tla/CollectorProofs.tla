--------------------------- MODULE CollectorProofs --------------------------
(***************************************************************************)
(* What the collector computes from its reservoir, for a reservoir of any  *)
(* size and any number of requests: every sample can be sorted, a          *)
(* percentile of a sorted sample is large enough, and all requests are     *)
(* kept in equally many outcomes of the draws.                             *)
(***************************************************************************)
EXTENDS Collector, DataLemmas

\* p lists T by ascending fun.
Lists(p, T, fun) ==
  /\ p \in Injection(1 .. Cardinality(T), T)
  /\ \A i, j \in 1 .. Cardinality(T) : i < j => fun[p[i]] <= fun[p[j]]

\* A finite table has a largest term.
LEMMA LargestTerm ==
  ASSUME NEW D, IsFiniteSet(D), NEW fun \in [D -> Int], D # {}
  PROVE  \E x \in D : \A y \in D : fun[y] <= fun[x]
<1> DEFINE P == {T \in SUBSET D : T # {} => \E x \in T : \A y \in T : fun[y] <= fun[x]}
<1>1. {} \in P
  OBVIOUS
<1>2. ASSUME NEW T \in P, NEW z \in D \ T PROVE T \cup {z} \in P
  <2>1. CASE T = {}
    BY <2>1
  <2>2. CASE T # {}
    <3>1. PICK x \in T : \A y \in T : fun[y] <= fun[x]
      BY <2>2
    <3>2. CASE fun[z] <= fun[x]
      BY <3>1, <3>2
    <3>3. CASE ~(fun[z] <= fun[x])
      <4>1. \A y \in T \cup {z} : fun[y] <= fun[z]
        BY <3>1, <3>3
      <4> QED
        BY <4>1
    <3> QED
      BY <3>2, <3>3
  <2> QED
    BY <2>1, <2>2
<1>3. P \in SUBSET (SUBSET D)
  OBVIOUS
<1>4. D \in P
  <2> HIDE DEF P
  <2> QED
    BY <1>1, <1>2, <1>3, SetInduction
<1> QED
  BY <1>4

\* Every finite set can be listed by ascending terms.
LEMMA ListExists ==
  ASSUME NEW D, IsFiniteSet(D), NEW fun \in [D -> Int]
  PROVE  \E p : Lists(p, D, fun)
<1> DEFINE N == {n \in Nat : \A T \in SUBSET D : Cardinality(T) = n => \E p : Lists(p, T, fun)}
<1>1. 0 \in N
  <2> SUFFICES ASSUME NEW T \in SUBSET D, Cardinality(T) = 0 PROVE \E p : Lists(p, T, fun)
    OBVIOUS
  <2>1. T = {}
    BY FS_Subset, FS_EmptySet
  <2>2. <<>> \in [1 .. 0 -> T]
    OBVIOUS
  <2>3. Lists(<<>>, T, fun)
    BY <2>1, <2>2 DEF Lists, Injection, IsInjective
  <2> QED
    BY <2>3
<1>2. ASSUME NEW n \in N PROVE n + 1 \in N
  <2> SUFFICES ASSUME NEW T \in SUBSET D, Cardinality(T) = n + 1 PROVE \E p : Lists(p, T, fun)
    OBVIOUS
  <2>1. IsFiniteSet(T) /\ T # {}
    BY FS_Subset, FS_EmptySet
  <2>2. PICK x \in T : \A y \in T : fun[y] <= fun[x]
    <3> DEFINE small == [y \in T |-> fun[y]]
    <3>1. small \in [T -> Int]
      OBVIOUS
    <3>2. \E x \in T : \A y \in T : small[y] <= small[x]
      <4> HIDE DEF small
      <4> QED
        BY <2>1, <3>1, LargestTerm
    <3> QED
      BY <3>2
  <2>3. Cardinality(T \ {x}) = n /\ T \ {x} \in SUBSET D
    <3>1. Cardinality(T \ {x}) = Cardinality(T) - 1 /\ n \in Nat
      BY <2>1, FS_RemoveElement
    <3> QED
      BY <3>1
  <2>4. PICK q : Lists(q, T \ {x}, fun)
    BY <2>3
  <2>5. /\ q \in [1 .. n -> T \ {x}]
        /\ \A i, j \in 1 .. n : q[i] = q[j] => i = j
        /\ \A i, j \in 1 .. n : i < j => fun[q[i]] <= fun[q[j]]
    BY <2>3, <2>4 DEF Lists, Injection, IsInjective
  <2> DEFINE p == [i \in 1 .. n + 1 |-> IF i = n + 1 THEN x ELSE q[i]]
  <2>6. p \in [1 .. n + 1 -> T]
    BY <2>5
  <2>7. p \in Injection(1 .. n + 1, T)
    BY <2>5, <2>6 DEF Injection, IsInjective
  <2>8. ASSUME NEW i \in 1 .. n + 1, NEW j \in 1 .. n + 1, i < j
        PROVE  fun[p[i]] <= fun[p[j]]
    <3>1. i \in 1 .. n /\ p[i] = q[i] /\ q[i] \in T
      BY <2>5, <2>8
    <3>2. CASE j = n + 1
      BY <2>2, <3>1, <3>2
    <3>3. CASE j # n + 1
      BY <2>5, <2>8, <3>1, <3>3
    <3> QED
      BY <3>2, <3>3
  <2>9. Lists(p, T, fun)
    BY <2>7, <2>8 DEF Lists
  <2> QED
    BY <2>9
<1>3. N \in SUBSET Nat
  OBVIOUS
<1>4. Cardinality(D) \in N
  <2>1. Cardinality(D) \in Nat
    BY FS_CardinalityType
  <2> HIDE DEF N
  <2> QED
    BY <1>1, <1>2, <1>3, <2>1, Induction
<1> QED
  BY <1>4

\* The sorted copy: as long as the sample, ascending, and its values are those
\* at the places that an injection gives.
LEMMA SortedOrder ==
  ASSUME NEW sample \in Seq(Int)
  PROVE  /\ Sorted(sample) \in Seq(Int) /\ Len(Sorted(sample)) = Len(sample)
         /\ \E order \in Injection(DOMAIN sample, DOMAIN sample) :
              \A k \in DOMAIN sample :
                /\ Sorted(sample)[k] = sample[order[k]]
                /\ \A i \in 1 .. k : sample[order[i]] <= Sorted(sample)[k]
<1> DEFINE n == Len(sample)
           D == 1 .. n
<1>1. n \in Nat /\ DOMAIN sample = D /\ sample \in [D -> Int]
  OBVIOUS
<1>2. IsFiniteSet(D) /\ Cardinality(D) = n
  BY <1>1, FS_Interval
<1>3. PICK p : Lists(p, D, sample)
  <2> HIDE DEF D
  <2> QED
    BY <1>1, <1>2, ListExists
<1>4. p \in Ascending(sample)
  BY <1>1, <1>2, <1>3 DEF Lists, Ascending
<1> DEFINE order == CHOOSE o \in Ascending(sample) : TRUE
<1>5. order \in Ascending(sample)
  BY <1>4
<1>6. Sorted(sample) = [k \in D |-> sample[order[k]]]
  BY <1>1 DEF Sorted
<1> HIDE DEF order
<1>7. /\ order \in Injection(D, D)
      /\ order \in [D -> D]
      /\ \A i, j \in D : i < j => sample[order[i]] <= sample[order[j]]
  BY <1>1, <1>5 DEF Ascending, Injection
<1>8. Sorted(sample) \in Seq(Int) /\ Len(Sorted(sample)) = n
  BY <1>1, <1>6, <1>7
<1>9. ASSUME NEW k \in D
      PROVE  /\ Sorted(sample)[k] = sample[order[k]]
             /\ \A i \in 1 .. k : sample[order[i]] <= Sorted(sample)[k]
  <2>1. Sorted(sample)[k] = sample[order[k]] /\ sample[order[k]] \in Int
    BY <1>1, <1>6, <1>7
  <2>2. ASSUME NEW i \in 1 .. k PROVE sample[order[i]] <= sample[order[k]]
    <3>1. CASE i = k
      BY <2>1, <3>1
    <3>2. CASE i # k
      BY <1>1, <1>7, <3>2
    <3> QED
      BY <3>1, <3>2
  <2> QED
    BY <2>1, <2>2
<1> QED
  BY <1>1, <1>7, <1>8, <1>9

\* At least as many values are no larger than the k-th of the sorted copy as
\* come before it, itself included.
LEMMA RankCovers ==
  ASSUME NEW sample \in Seq(Int), NEW k \in DOMAIN sample
  PROVE  /\ Cardinality({i \in DOMAIN sample : sample[i] <= Sorted(sample)[k]}) \in Nat
         /\ Cardinality({i \in DOMAIN sample : sample[i] <= Sorted(sample)[k]}) >= k
<1> DEFINE D == DOMAIN sample
           T == {i \in D : sample[i] <= Sorted(sample)[k]}
<1>1. D = 1 .. Len(sample) /\ Len(sample) \in Nat /\ k \in Nat /\ 1 .. k \subseteq D
  OBVIOUS
<1>2. PICK order \in Injection(D, D) :
        \A i \in D : /\ Sorted(sample)[i] = sample[order[i]]
                     /\ \A j \in 1 .. i : sample[order[j]] <= Sorted(sample)[i]
  BY SortedOrder
<1>3. order \in [D -> D] /\ \A i, j \in D : order[i] = order[j] => i = j
  BY <1>2 DEF Injection, IsInjective
<1> DEFINE first == [j \in 1 .. k |-> order[j]]
<1>4. first \in [1 .. k -> T]
  BY <1>1, <1>2, <1>3
<1>5. first \in Injection(1 .. k, T)
  <2>1. \A i, j \in 1 .. k : first[i] = first[j] => i = j
    BY <1>1, <1>3
  <2> HIDE DEF first, T
  <2> QED
    BY <1>4, <2>1, Fun_IsInj
<1>6. IsFiniteSet(D)
  BY <1>1, FS_Interval
<1>7. IsFiniteSet(T)
  BY <1>6, FS_Subset
<1>8. Cardinality(1 .. k) = k
  BY <1>1, FS_Interval
<1>9. Cardinality(1 .. k) <= Cardinality(T)
  <2> HIDE DEF first, T
  <2> QED
    BY <1>5, <1>7, FS_Injection
<1>10. Cardinality(T) \in Nat
  BY <1>7, FS_CardinalityType
<1> QED
  BY <1>8, <1>9, <1>10

\* What RankCovers says, for the index that percentile computes.
LEMMA PercentileCovers ==
  ASSUME NEW sample \in Seq(Int), sample # <<>>, NEW p \in {50, 95, 99}
  PROVE  LET value == percentile(Sorted(sample), p)
         IN  100 * Cardinality({k \in DOMAIN sample : sample[k] <= value}) >= p * Len(sample)
<1> DEFINE n == Len(sample)
           index == (n * p) \div 100
           rank == IF index >= n THEN n ELSE index + 1
<1>1. n \in Nat /\ n >= 1 /\ DOMAIN sample = 1 .. n
  OBVIOUS
<1>2. rank \in 1 .. n /\ 100 * rank >= p * n
  <2> HIDE DEF n
  <2> QED
    BY <1>1
<1>3. percentile(Sorted(sample), p) = Sorted(sample)[rank]
  BY SortedOrder DEF percentile
<1> HIDE DEF rank
<1> DEFINE c == Cardinality({k \in DOMAIN sample : sample[k] <= Sorted(sample)[rank]})
<1>4. c \in Nat /\ c >= rank
  <2>1. rank \in DOMAIN sample
    BY <1>1, <1>2
  <2> QED
    BY <2>1, RankCovers
<1> HIDE DEF n, c
<1>5. 100 * c >= p * n
  BY <1>1, <1>2, <1>4
<1> QED
  BY <1>3, <1>5 DEF c, n

\* A sequence over a set is one over a larger set.
LEMMA WiderSeq ==
  ASSUME NEW T, NEW S \in SUBSET T, NEW s \in Seq(S)
  PROVE  s \in Seq(T)
<1>1. s \in [1 .. Len(s) -> S] /\ Len(s) \in Nat
  OBVIOUS
<1>2. s \in [1 .. Len(s) -> T]
  BY <1>1
<1> QED
  BY <1>1, <1>2

\* A percentile of the reservoir is large enough, whatever its size.
LEMMA ReservoirPercentiles == CollectorTypeOK => PercentilesCover
<1> SUFFICES ASSUME CollectorTypeOK, latencies # <<>> PROVE PercentilesCover
  BY DEF PercentilesCover
<1>1. latencies \in Seq(Int)
  <2>1. latencies \in Seq(Latencies) /\ Latencies \subseteq Int
    BY LatenciesAssumption DEF CollectorTypeOK
  <2> QED
    BY <2>1, WiderSeq
<1> QED
  BY <1>1, PercentileCovers DEF PercentilesCover

-----------------------------------------------------------------------------
(***************************************************************************)
(* The reservoir.  DrawsTo(n) are the outcomes of the draws of n requests; *)
(* those that keep request m are counted by what the last draw does to the *)
(* sample of the others: it brings in the request n + 1 in MaxSamples      *)
(* cases, and puts out a request that is kept in exactly one.              *)
(***************************************************************************)
DrawsTo(n) == {d \in [1 .. n -> 0 .. n - 1] : \A k \in DOMAIN d : d[k] \in Draws(k)}

Keeping(n, m) == {d \in DrawsTo(n) : m \in Range(SampleOf(d))}

Extended(d, n, j) == [k \in 1 .. n + 1 |-> IF k = n + 1 THEN j ELSE d[k]]

\* The recursive function of SampleOf.
IsRun(h, d, n) == h = [k \in 0 .. n |-> IF k = 0 THEN <<>> ELSE Kept(h[k - 1], k, d[k])]

\* The recursive function of SampleOf exists.
LEMMA RunExists ==
  ASSUME NEW d, NEW n \in Nat
  PROVE  \E h : IsRun(h, d, n)
<1> DEFINE P == {j \in Nat : \E h : IsRun(h, d, j)}
<1>1. 0 \in P
  <2> DEFINE h == [k \in 0 .. 0 |-> <<>>]
  <2>1. IsRun(h, d, 0)
    BY DEF IsRun
  <2> QED
    BY <2>1
<1>2. ASSUME NEW j \in P PROVE j + 1 \in P
  <2>1. PICK h : IsRun(h, d, j)
    OBVIOUS
  <2> DEFINE g == [k \in 0 .. j + 1 |-> IF k = j + 1 THEN Kept(h[j], j + 1, d[j + 1]) ELSE h[k]]
  <2>2. ASSUME NEW k \in 0 .. j + 1
        PROVE  g[k] = IF k = 0 THEN <<>> ELSE Kept(g[k - 1], k, d[k])
    <3>1. CASE k = j + 1
      BY <3>1
    <3>2. CASE k # j + 1
      <4>1. k \in 0 .. j /\ g[k] = h[k] /\ (k # 0 => g[k - 1] = h[k - 1])
        BY <3>2
      <4> QED
        BY <2>1, <4>1 DEF IsRun
    <3> QED
      BY <3>1, <3>2
  <2>3. g = [k \in 0 .. j + 1 |-> g[k]]
    OBVIOUS
  <2>4. IsRun(g, d, j + 1)
    <3> HIDE DEF g
    <3> QED
      BY <2>2, <2>3 DEF IsRun
  <2> QED
    BY <2>4
<1>3. P \in SUBSET Nat
  OBVIOUS
<1>4. n \in P
  <2> HIDE DEF P
  <2> QED
    BY <1>1, <1>2, <1>3, Induction
<1> QED
  BY <1>4

\* Where the draws agree, so do the samples that they lead to.
LEMMA RunsAgree ==
  ASSUME NEW n \in Nat, NEW l \in Nat, n <= l, NEW d, NEW e, NEW h, NEW g,
         IsRun(h, d, n), IsRun(g, e, l), \A k \in 1 .. n : d[k] = e[k]
  PROVE  \A k \in 0 .. n : h[k] = g[k]
<1> DEFINE P == {k \in Nat : k <= n => h[k] = g[k]}
<1>1. 0 \in P
  BY DEF IsRun
<1>2. ASSUME NEW k \in P PROVE k + 1 \in P
  <2> SUFFICES ASSUME k + 1 <= n PROVE h[k + 1] = g[k + 1]
    OBVIOUS
  <2>1. h[k] = g[k] /\ d[k + 1] = e[k + 1]
    OBVIOUS
  <2>2. h[k + 1] = Kept(h[k], k + 1, d[k + 1]) /\ g[k + 1] = Kept(g[k], k + 1, e[k + 1])
    BY DEF IsRun
  <2> QED
    BY <2>1, <2>2
<1>3. P \in SUBSET Nat
  OBVIOUS
<1>4. \A k \in Nat : k \in P
  <2> HIDE DEF P
  <2> QED
    BY <1>1, <1>2, <1>3, Induction
<1> QED
  BY <1>4

\* SampleOf is the last sample of the run.
LEMMA SampleIsRun ==
  ASSUME NEW n \in Nat, NEW d \in [1 .. n -> Nat]
  PROVE  \E h : IsRun(h, d, n) /\ SampleOf(d) = h[n]
<1>1. Len(d) = n
  OBVIOUS
<1> DEFINE h == CHOOSE f : IsRun(f, d, n)
<1>2. IsRun(h, d, n)
  BY RunExists
<1>3. SampleOf(d) = h[n]
  BY <1>1 DEF SampleOf, IsRun
<1> QED
  BY <1>2, <1>3

\* One more draw after n draws.
LEMMA ExtendedType ==
  ASSUME NEW n \in Nat, NEW d \in DrawsTo(n), NEW j \in 0 .. n
  PROVE  /\ d \in [1 .. n -> Nat]
         /\ Extended(d, n, j) \in [1 .. n + 1 -> Nat]
         /\ Extended(d, n, j) \in DrawsTo(n + 1)
         /\ \A k \in 1 .. n : d[k] = Extended(d, n, j)[k]
         /\ Extended(d, n, j)[n + 1] = j
<1>1. d \in [1 .. n -> 0 .. n - 1] /\ \A k \in 1 .. n : d[k] \in 0 .. k - 1
  BY DEF DrawsTo, Draws
<1> QED
  BY <1>1 DEF DrawsTo, Draws, Extended

\* The sample after one more draw is the one before, with Kept applied.
LEMMA SampleStep ==
  ASSUME NEW n \in Nat, NEW d \in DrawsTo(n), NEW j \in 0 .. n
  PROVE  SampleOf(Extended(d, n, j)) = Kept(SampleOf(d), n + 1, j)
<1> DEFINE e == Extended(d, n, j)
<1>1. /\ d \in [1 .. n -> Nat] /\ e \in [1 .. n + 1 -> Nat]
      /\ \A k \in 1 .. n : d[k] = e[k]
      /\ e[n + 1] = j
  BY ExtendedType
<1> HIDE DEF e
<1>2. PICK h : IsRun(h, d, n) /\ SampleOf(d) = h[n]
  BY <1>1, SampleIsRun
<1>3. PICK g : IsRun(g, e, n + 1) /\ SampleOf(e) = g[n + 1]
  BY <1>1, SampleIsRun
<1>4. h[n] = g[n]
  BY <1>1, <1>2, <1>3, RunsAgree
<1>5. g[n + 1] = Kept(g[n], n + 1, j)
  BY <1>1, <1>3 DEF IsRun
<1> QED
  BY <1>2, <1>3, <1>4, <1>5 DEF e

\* Every outcome of n + 1 draws is one of n draws, extended.
LEMMA DrawsSplit ==
  ASSUME NEW n \in Nat, NEW e \in DrawsTo(n + 1)
  PROVE  \E d \in DrawsTo(n), j \in 0 .. n : e = Extended(d, n, j)
<1> DEFINE d == [k \in 1 .. n |-> e[k]]
<1>1. e \in [1 .. n + 1 -> 0 .. n] /\ \A k \in 1 .. n + 1 : e[k] \in 0 .. k - 1
  BY DEF DrawsTo, Draws
<1>2. d \in DrawsTo(n)
  BY <1>1 DEF DrawsTo, Draws
<1>3. e = Extended(d, n, e[n + 1])
  BY <1>1 DEF Extended
<1>4. e[n + 1] \in 0 .. n
  BY <1>1
<1> QED
  BY <1>2, <1>3, <1>4

-----------------------------------------------------------------------------
\* The sample of n requests: as many as fit, none twice, all while they fit.
SampleSize(n) == IF n <= MaxSamples THEN n ELSE MaxSamples

FairOf(s, n) ==
  /\ s \in [1 .. SampleSize(n) -> 1 .. n]
  /\ \A i, j \in 1 .. SampleSize(n) : s[i] = s[j] => i = j
  /\ n <= MaxSamples => \A k \in 1 .. n : s[k] = k

\* One more request keeps the shape of the sample; in a full one it takes a place.
LEMMA KeptFair ==
  ASSUME NEW n \in Nat, NEW s, FairOf(s, n), NEW j \in 0 .. n
  PROVE  /\ FairOf(Kept(s, n + 1, j), n + 1)
         /\ n >= MaxSamples =>
              Kept(s, n + 1, j) = [k \in 1 .. MaxSamples |-> IF k = j + 1 THEN n + 1 ELSE s[k]]
<1> DEFINE t == Kept(s, n + 1, j)
<1>1. MaxSamples \in Nat
  BY MaxSamplesAssumption
<1>2. CASE n < MaxSamples
  <2>1. s \in [1 .. n -> 1 .. n] /\ \A k \in 1 .. n : s[k] = k
    BY <1>1, <1>2 DEF FairOf, SampleSize
  <2>2. s \in Seq(1 .. n) /\ Len(s) = n
    BY <2>1
  <2>3. t = Append(s, n + 1)
    BY <1>2, <2>2 DEF Kept
  <2>4. t \in [1 .. n + 1 -> 1 .. n + 1] /\ \A k \in 1 .. n + 1 : t[k] = k
    BY <2>1, <2>2, <2>3
  <2> HIDE DEF t
  <2>5. FairOf(t, n + 1)
    BY <1>1, <1>2, <2>4 DEF FairOf, SampleSize
  <2> QED
    BY <1>1, <1>2, <2>5 DEF t
<1>3. CASE n >= MaxSamples
  <2>1. s \in [1 .. MaxSamples -> 1 .. n]
    BY <1>1, <1>3 DEF FairOf, SampleSize
  <2>2. Len(s) = MaxSamples /\ DOMAIN s = 1 .. MaxSamples
    BY <1>1, <2>1
  <2>3. t = [k \in 1 .. MaxSamples |-> IF k = j + 1 THEN n + 1 ELSE s[k]]
    BY <1>1, <2>2 DEF Kept
  <2>4. \A i, k \in 1 .. MaxSamples : s[i] = s[k] => i = k
    BY <1>1, <1>3 DEF FairOf, SampleSize
  <2>5. t \in [1 .. MaxSamples -> 1 .. n + 1]
    BY <2>1, <2>3
  <2>6. ASSUME NEW i \in 1 .. MaxSamples, NEW k \in 1 .. MaxSamples, t[i] = t[k]
        PROVE  i = k
    <3>1. s[i] \in 1 .. n /\ s[k] \in 1 .. n
      BY <2>1
    <3>2. /\ t[i] = (IF i = j + 1 THEN n + 1 ELSE s[i])
          /\ t[k] = (IF k = j + 1 THEN n + 1 ELSE s[k])
      BY <2>3
    <3>3. s[i] = s[k] => i = k
      BY <2>4
    <3>4. t[i] = t[k]
      BY <2>6
    <3> HIDE DEF t
    <3>5. i = j + 1 <=> k = j + 1
      BY <3>1, <3>2, <3>4
    <3> QED
      BY <3>1, <3>2, <3>3, <3>4, <3>5
  <2> HIDE DEF t
  <2>7. FairOf(t, n + 1)
    BY <1>1, <1>3, <2>5, <2>6 DEF FairOf, SampleSize
  <2> QED
    BY <2>3, <2>7 DEF t
<1> QED
  BY <1>1, <1>2, <1>3

\* The sample has that shape after any draws.
LEMMA SamplesFair ==
  \A n \in Nat : \A d \in DrawsTo(n) : FairOf(SampleOf(d), n)
<1> DEFINE P == {n \in Nat : \A d \in DrawsTo(n) : FairOf(SampleOf(d), n)}
<1>1. 0 \in P
  <2> SUFFICES ASSUME NEW d \in DrawsTo(0) PROVE FairOf(SampleOf(d), 0)
    OBVIOUS
  <2>1. d \in [1 .. 0 -> Nat]
    BY DEF DrawsTo
  <2>2. PICK h : IsRun(h, d, 0) /\ SampleOf(d) = h[0]
    BY <2>1, SampleIsRun
  <2>3. SampleOf(d) = <<>>
    BY <2>2 DEF IsRun
  <2> QED
    BY <2>3, MaxSamplesAssumption DEF FairOf, SampleSize
<1>2. ASSUME NEW n \in P PROVE n + 1 \in P
  <2> SUFFICES ASSUME NEW e \in DrawsTo(n + 1) PROVE FairOf(SampleOf(e), n + 1)
    OBVIOUS
  <2>1. PICK d \in DrawsTo(n), j \in 0 .. n : e = Extended(d, n, j)
    BY DrawsSplit
  <2>2. SampleOf(e) = Kept(SampleOf(d), n + 1, j) /\ FairOf(SampleOf(d), n) /\ n \in Nat
    BY <2>1, SampleStep
  <2> HIDE DEF P
  <2>3. FairOf(Kept(SampleOf(d), n + 1, j), n + 1)
    BY <2>2, KeptFair
  <2> QED
    BY <2>2, <2>3
<1>3. P \in SUBSET Nat
  OBVIOUS
<1>4. \A n \in Nat : n \in P
  <2> HIDE DEF P
  <2> QED
    BY <1>1, <1>2, <1>3, Induction
<1> QED
  BY <1>4

-----------------------------------------------------------------------------
\* Outcomes of n + 1 draws are counted as pairs of n draws and a last one.
LEMMA CountPairs ==
  ASSUME NEW n \in Nat, NEW Q \in SUBSET (DrawsTo(n) \X (0 .. n)), IsFiniteSet(Q),
         NEW T \in SUBSET DrawsTo(n + 1),
         \A d \in DrawsTo(n), j \in 0 .. n : <<d, j>> \in Q <=> Extended(d, n, j) \in T
  PROVE  IsFiniteSet(T) /\ Cardinality(T) = Cardinality(Q)
<1> DEFINE f == [q \in Q |-> Extended(q[1], n, q[2])]
<1>1. f \in [Q -> T]
  OBVIOUS
<1>2. ASSUME NEW p \in Q, NEW q \in Q, f[p] = f[q] PROVE p = q
  <2>1. PICK d \in DrawsTo(n), j \in 0 .. n : p = <<d, j>>
    OBVIOUS
  <2>2. PICK e \in DrawsTo(n), i \in 0 .. n : q = <<e, i>>
    OBVIOUS
  <2>3. Extended(d, n, j) = Extended(e, n, i)
    BY <1>2, <2>1, <2>2
  <2>4. j = i /\ \A k \in 1 .. n : d[k] = e[k]
    <3>1. Extended(d, n, j)[n + 1] = j /\ \A k \in 1 .. n : d[k] = Extended(d, n, j)[k]
      BY ExtendedType
    <3>2. Extended(e, n, i)[n + 1] = i /\ \A k \in 1 .. n : e[k] = Extended(e, n, i)[k]
      BY ExtendedType
    <3> QED
      BY <2>3, <3>1, <3>2
  <2>5. d \in [1 .. n -> Nat] /\ e \in [1 .. n -> Nat]
    BY ExtendedType
  <2>6. d = e
    BY <2>4, <2>5
  <2> QED
    BY <2>1, <2>2, <2>4, <2>6
<1>3. ASSUME NEW t \in T PROVE \E q \in Q : f[q] = t
  <2>1. PICK d \in DrawsTo(n), j \in 0 .. n : t = Extended(d, n, j)
    BY DrawsSplit
  <2>2. <<d, j>> \in Q /\ f[<<d, j>>] = t
    BY <2>1
  <2> QED
    BY <2>2
<1> HIDE DEF f
<1>4. f \in Bijection(Q, T)
  BY <1>1, <1>2, <1>3, Fun_IsBij
<1>5. ExistsBijection(Q, T)
  BY <1>4, Fun_ExistsBij
<1> QED
  BY <1>5, FS_Bijection

\* There are n + 1 times as many outcomes with one more draw.
LEMMA DrawsCount ==
  ASSUME NEW n \in Nat, IsFiniteSet(DrawsTo(n))
  PROVE  /\ IsFiniteSet(DrawsTo(n + 1))
         /\ Cardinality(DrawsTo(n + 1)) = Cardinality(DrawsTo(n)) * (n + 1)
<1> DEFINE Q == DrawsTo(n) \X (0 .. n)
<1>1. IsFiniteSet(0 .. n) /\ Cardinality(0 .. n) = n + 1
  BY FS_Interval
<1>2. IsFiniteSet(Q) /\ Cardinality(Q) = Cardinality(DrawsTo(n)) * (n + 1)
  BY <1>1, FS_Product
<1>3. \A d \in DrawsTo(n), j \in 0 .. n : <<d, j>> \in Q <=> Extended(d, n, j) \in DrawsTo(n + 1)
  BY ExtendedType
<1>4. Q \in SUBSET Q /\ DrawsTo(n + 1) \in SUBSET DrawsTo(n + 1)
  OBVIOUS
<1> HIDE DEF Q
<1>5. IsFiniteSet(DrawsTo(n + 1)) /\ Cardinality(DrawsTo(n + 1)) = Cardinality(Q)
  BY <1>2, <1>3, <1>4, CountPairs DEF Q
<1> QED
  BY <1>2, <1>5

\* There are finitely many outcomes.
LEMMA DrawsFinite == \A n \in Nat : IsFiniteSet(DrawsTo(n))
<1> DEFINE P == {n \in Nat : IsFiniteSet(DrawsTo(n))}
<1>1. 0 \in P
  <2>1. DrawsTo(0) \subseteq {<<>>}
    BY DEF DrawsTo
  <2>2. IsFiniteSet({<<>>})
    BY FS_Singleton
  <2> QED
    BY <2>1, <2>2, FS_Subset
<1>2. ASSUME NEW n \in P PROVE n + 1 \in P
  BY DrawsCount
<1>3. P \in SUBSET Nat
  OBVIOUS
<1>4. \A n \in Nat : n \in P
  <2> HIDE DEF P
  <2> QED
    BY <1>1, <1>2, <1>3, Induction
<1> QED
  BY <1>4

\* When the reservoir is full: the sample after one more draw.
LEMMA FullStep ==
  ASSUME NEW n \in Nat, n >= MaxSamples, NEW d \in DrawsTo(n), NEW j \in 0 .. n
  PROVE  /\ SampleOf(d) \in [1 .. MaxSamples -> 1 .. n]
         /\ \A i, k \in 1 .. MaxSamples : SampleOf(d)[i] = SampleOf(d)[k] => i = k
         /\ SampleOf(Extended(d, n, j))
              = [k \in 1 .. MaxSamples |-> IF k = j + 1 THEN n + 1 ELSE SampleOf(d)[k]]
<1>1. MaxSamples \in Nat
  BY MaxSamplesAssumption
<1>2. FairOf(SampleOf(d), n)
  BY SamplesFair
<1>3. SampleSize(n) = MaxSamples
  BY <1>1 DEF SampleSize
<1>4. /\ SampleOf(d) \in [1 .. MaxSamples -> 1 .. n]
      /\ \A i, k \in 1 .. MaxSamples : SampleOf(d)[i] = SampleOf(d)[k] => i = k
  BY <1>2, <1>3 DEF FairOf
<1>5. SampleOf(Extended(d, n, j)) = Kept(SampleOf(d), n + 1, j)
  BY SampleStep
<1>6. Kept(SampleOf(d), n + 1, j)
        = [k \in 1 .. MaxSamples |-> IF k = j + 1 THEN n + 1 ELSE SampleOf(d)[k]]
  BY <1>2, KeptFair
<1> QED
  BY <1>4, <1>5, <1>6

\* Request n + 1 is kept in MaxSamples of the n + 1 outcomes of its draw.
LEMMA NewKept ==
  ASSUME NEW n \in Nat, n >= MaxSamples
  PROVE  Cardinality(Keeping(n + 1, n + 1)) = Cardinality(DrawsTo(n)) * MaxSamples
<1>1. MaxSamples \in Nat /\ MaxSamples >= 1
  BY MaxSamplesAssumption
<1> DEFINE In == 0 .. MaxSamples - 1
           Q == DrawsTo(n) \X In
           T == Keeping(n + 1, n + 1)
<1>2. In \subseteq 0 .. n
  BY <1>1
<1>3. IsFiniteSet(In) /\ Cardinality(In) = MaxSamples
  BY <1>1, FS_Interval
<1>4. IsFiniteSet(DrawsTo(n))
  BY DrawsFinite
<1>5. IsFiniteSet(Q) /\ Cardinality(Q) = Cardinality(DrawsTo(n)) * MaxSamples
  <2> HIDE DEF In
  <2> QED
    BY <1>3, <1>4, FS_Product
<1>6. Q \in SUBSET (DrawsTo(n) \X (0 .. n))
  BY <1>2
<1>7. T \in SUBSET DrawsTo(n + 1)
  BY DEF Keeping
<1>8. ASSUME NEW d \in DrawsTo(n), NEW j \in 0 .. n
      PROVE  <<d, j>> \in Q <=> Extended(d, n, j) \in T
  <2> DEFINE s == SampleOf(d)
             t == SampleOf(Extended(d, n, j))
  <2>1. /\ s \in [1 .. MaxSamples -> 1 .. n]
        /\ t = [k \in 1 .. MaxSamples |-> IF k = j + 1 THEN n + 1 ELSE s[k]]
    BY FullStep
  <2> HIDE DEF s, t
  <2>2. n + 1 \in Range(t) <=> \E k \in 1 .. MaxSamples : k = j + 1
    <3>1. \A k \in 1 .. MaxSamples : t[k] = n + 1 <=> k = j + 1
      BY <2>1
    <3>2. Range(t) = {t[k] : k \in 1 .. MaxSamples}
      BY <2>1 DEF Range
    <3> QED
      BY <3>1, <3>2
  <2>3. (\E k \in 1 .. MaxSamples : k = j + 1) <=> j \in In
    BY <1>1
  <2>4. Extended(d, n, j) \in DrawsTo(n + 1)
    BY ExtendedType
  <2> QED
    BY <2>2, <2>3, <2>4 DEF Keeping, t
<1> HIDE DEF Q, T
<1>9. Cardinality(T) = Cardinality(Q)
  BY <1>5, <1>6, <1>7, <1>8, CountPairs
<1> QED
  BY <1>5, <1>9 DEF T

\* A request that is kept stays in n of the n + 1 outcomes of the next draw.
LEMMA OldKept ==
  ASSUME NEW n \in Nat, n >= MaxSamples, NEW m \in 1 .. n
  PROVE  Cardinality(Keeping(n + 1, m)) = Cardinality(Keeping(n, m)) * n
<1>1. MaxSamples \in Nat /\ MaxSamples >= 1 /\ n >= 1
  BY MaxSamplesAssumption
<1> DEFINE A == Keeping(n, m)
           All == A \X (0 .. n)
           place == [d \in A |-> CHOOSE k \in 1 .. MaxSamples : SampleOf(d)[k] = m]
           out == [d \in A |-> <<d, place[d] - 1>>]
           Out == {out[d] : d \in A}
           Q == All \ Out
           T == Keeping(n + 1, m)
<1>2. A \in SUBSET DrawsTo(n) /\ T \in SUBSET DrawsTo(n + 1) /\ All \in SUBSET (DrawsTo(n) \X (0 .. n))
  BY DEF Keeping
<1>3. IsFiniteSet(A) /\ Cardinality(A) \in Nat
  <2> HIDE DEF A
  <2> QED
    BY <1>2, DrawsFinite, FS_Subset, FS_CardinalityType
<1>4. IsFiniteSet(All) /\ Cardinality(All) = Cardinality(A) * (n + 1)
  <2>1. IsFiniteSet(0 .. n) /\ Cardinality(0 .. n) = n + 1
    BY FS_Interval
  <2> HIDE DEF A
  <2> QED
    BY <1>3, <2>1, FS_Product
<1>5. ASSUME NEW d \in A
      PROVE  /\ place[d] \in 1 .. MaxSamples /\ SampleOf(d)[place[d]] = m
             /\ \A k \in 1 .. MaxSamples : SampleOf(d)[k] = m => k = place[d]
  <2>1. /\ SampleOf(d) \in [1 .. MaxSamples -> 1 .. n]
        /\ \A i, k \in 1 .. MaxSamples : SampleOf(d)[i] = SampleOf(d)[k] => i = k
    <3>1. 0 \in 0 .. n /\ d \in DrawsTo(n)
      BY <1>2
    <3> QED
      BY <3>1, FullStep
  <2>2. \E k \in 1 .. MaxSamples : SampleOf(d)[k] = m
    BY <2>1 DEF Keeping, Range
  <2>3. place[d] \in 1 .. MaxSamples /\ SampleOf(d)[place[d]] = m
    BY <2>2
  <2> QED
    BY <2>1, <2>3
<1>6. Out \in SUBSET All /\ out \in [A -> Out]
  <2>1. \A d \in A : place[d] - 1 \in 0 .. n
    BY <1>1, <1>5
  <2> HIDE DEF A, place
  <2> QED
    BY <2>1
<1>7. IsFiniteSet(Out) /\ Cardinality(Out) = Cardinality(A)
  <2>1. \A d, e \in A : out[d] = out[e] => d = e
    OBVIOUS
  <2>2. \A p \in Out : \E d \in A : out[d] = p
    OBVIOUS
  <2> HIDE DEF A, Out, out
  <2>3. out \in Bijection(A, Out)
    BY <1>6, <2>1, <2>2, Fun_IsBij
  <2>4. ExistsBijection(A, Out)
    BY <2>3, Fun_ExistsBij
  <2> QED
    BY <1>3, <2>4, FS_Bijection
<1>8. IsFiniteSet(Q) /\ Cardinality(Q) = Cardinality(A) * (n + 1) - Cardinality(A)
  <2>1. All \cap Out = Out
    BY <1>6
  <2> HIDE DEF A, All, Out
  <2>2. IsFiniteSet(All \ Out) /\ Cardinality(All \ Out) = Cardinality(All) - Cardinality(All \cap Out)
    BY <1>4, FS_Difference
  <2> QED
    BY <1>4, <1>7, <2>1, <2>2
<1>9. ASSUME NEW d \in DrawsTo(n), NEW j \in 0 .. n
      PROVE  <<d, j>> \in Q <=> Extended(d, n, j) \in T
  <2> DEFINE s == SampleOf(d)
             t == SampleOf(Extended(d, n, j))
  <2>1. /\ s \in [1 .. MaxSamples -> 1 .. n]
        /\ t = [k \in 1 .. MaxSamples |-> IF k = j + 1 THEN n + 1 ELSE s[k]]
    BY FullStep
  <2>2. Extended(d, n, j) \in T <=> m \in Range(t)
    BY ExtendedType DEF Keeping
  <2>3. d \in A <=> m \in Range(s)
    BY DEF Keeping
  <2> HIDE DEF s, t
  <2>4. m \in Range(t) <=> \E k \in 1 .. MaxSamples : k # j + 1 /\ s[k] = m
    <3>1. \A k \in 1 .. MaxSamples : t[k] = m <=> (k # j + 1 /\ s[k] = m)
      BY <2>1
    <3>2. Range(t) = {t[k] : k \in 1 .. MaxSamples}
      BY <2>1 DEF Range
    <3> QED
      BY <3>1, <3>2
  <2>5. CASE d \notin A
    <3>1. \A k \in 1 .. MaxSamples : s[k] # m
      BY <2>1, <2>3, <2>5 DEF Range
    <3> HIDE DEF A
    <3> QED
      BY <2>2, <2>4, <2>5, <3>1
  <2>6. CASE d \in A
    <3>1. place[d] \in 1 .. MaxSamples /\ \A k \in 1 .. MaxSamples : s[k] = m <=> k = place[d]
      BY <1>5, <2>6 DEF s
    <3>2. <<d, j>> \in Out <=> j = place[d] - 1
      <4> HIDE DEF A, place
      <4> QED
        BY <2>6
    <3> HIDE DEF A, place, Out
    <3>3. <<d, j>> \in Q <=> place[d] # j + 1
      BY <2>6, <3>1, <3>2
    <3> QED
      BY <2>2, <2>4, <3>1, <3>3
  <2> QED
    BY <2>5, <2>6
<1>10. Q \in SUBSET (DrawsTo(n) \X (0 .. n))
  BY <1>2
<1> HIDE DEF A, Q, T
<1>11. Cardinality(T) = Cardinality(Q)
  BY <1>2, <1>8, <1>9, <1>10, CountPairs
<1>12. Cardinality(A) * (n + 1) - Cardinality(A) = Cardinality(A) * n
  BY <1>3
<1> QED
  BY <1>8, <1>11, <1>12 DEF A, T

-----------------------------------------------------------------------------
\* While the reservoir has room, every request is kept in every outcome.
LEMMA AllKept ==
  ASSUME NEW n \in Nat, n <= MaxSamples, NEW m \in 1 .. n
  PROVE  Keeping(n, m) = DrawsTo(n)
<1> SUFFICES ASSUME NEW d \in DrawsTo(n) PROVE m \in Range(SampleOf(d))
  BY DEF Keeping
<1>1. FairOf(SampleOf(d), n)
  BY SamplesFair
<1>2. SampleOf(d) \in [1 .. n -> 1 .. n] /\ SampleOf(d)[m] = m
  BY <1>1 DEF FairOf, SampleSize
<1> QED
  BY <1>2 DEF Range

\* Once it is full, every request is kept in as many.
LEMMA KeepingCount ==
  \A n \in Nat : n >= MaxSamples =>
    \A m \in 1 .. n : Cardinality(Keeping(n, m)) = Cardinality(DrawsTo(n - 1)) * MaxSamples
<1> DEFINE P == {n \in Nat : n >= MaxSamples =>
                   \A m \in 1 .. n :
                     Cardinality(Keeping(n, m)) = Cardinality(DrawsTo(n - 1)) * MaxSamples}
<1>1. MaxSamples \in Nat /\ MaxSamples >= 1
  BY MaxSamplesAssumption
<1>2. 0 \in P
  BY <1>1
<1>3. ASSUME NEW n \in P PROVE n + 1 \in P
  <2> SUFFICES ASSUME n + 1 >= MaxSamples, NEW m \in 1 .. n + 1
               PROVE  Cardinality(Keeping(n + 1, m)) = Cardinality(DrawsTo(n)) * MaxSamples
    OBVIOUS
  <2>1. IsFiniteSet(DrawsTo(n)) /\ Cardinality(DrawsTo(n)) \in Nat
    BY DrawsFinite, FS_CardinalityType
  <2>2. CASE n + 1 = MaxSamples
    <3>1. Keeping(n + 1, m) = DrawsTo(n + 1)
      BY <2>2, AllKept
    <3> QED
      BY <2>1, <2>2, <3>1, DrawsCount
  <2>3. CASE n >= MaxSamples /\ m = n + 1
    BY <2>3, NewKept
  <2>4. CASE n >= MaxSamples /\ m # n + 1
    <3>1. m \in 1 .. n /\ n - 1 \in Nat /\ (n - 1) + 1 = n
      BY <1>1, <2>4
    <3>2. Cardinality(Keeping(n, m)) = Cardinality(DrawsTo(n - 1)) * MaxSamples
      BY <2>4, <3>1
    <3>3. Cardinality(Keeping(n + 1, m)) = Cardinality(Keeping(n, m)) * n
      BY <2>4, <3>1, OldKept
    <3>4. IsFiniteSet(DrawsTo(n - 1)) /\ Cardinality(DrawsTo(n - 1)) \in Nat
      BY <3>1, DrawsFinite, FS_CardinalityType
    <3>5. Cardinality(DrawsTo(n)) = Cardinality(DrawsTo(n - 1)) * n
      BY <3>1, <3>4, DrawsCount
    <3> DEFINE c == Cardinality(DrawsTo(n - 1))
    <3> HIDE DEF c
    <3>6. c \in Nat => (c * MaxSamples) * n = (c * n) * MaxSamples
      BY <1>1
    <3> QED
      BY <3>2, <3>3, <3>4, <3>5, <3>6 DEF c
  <2> QED
    BY <1>1, <2>2, <2>3, <2>4
<1>4. P \in SUBSET Nat
  OBVIOUS
<1>5. \A n \in Nat : n \in P
  <2> HIDE DEF P
  <2> QED
    BY <1>2, <1>3, <1>4, Induction
<1> QED
  BY <1>5

\* Reservoir sampling is fair, for any limit and any number of requests.
LEMMA ReservoirFair == CollectorTypeOK => UniformSample
<1> SUFFICES ASSUME CollectorTypeOK, NEW m \in 1 .. latencyCount PROVE TimesKept(m) = TimesKept(1)
  BY DEF UniformSample
<1>1. latencyCount \in Nat /\ 1 \in 1 .. latencyCount /\ MaxSamples \in Nat
  BY MaxSamplesAssumption DEF CollectorTypeOK
<1>2. \A k : TimesKept(k) = Cardinality(Keeping(latencyCount, k))
  BY DEF TimesKept, Samples, Keeping, DrawsTo
<1>3. CASE latencyCount <= MaxSamples
  BY <1>1, <1>2, <1>3, AllKept
<1>4. CASE latencyCount >= MaxSamples
  BY <1>1, <1>2, <1>4, KeepingCount
<1> QED
  BY <1>1, <1>3, <1>4

=============================================================================
