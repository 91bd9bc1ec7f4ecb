------------------------------ MODULE DataLemmas ----------------------------
(***************************************************************************)
(* Induction over numbers and finite sets, and what follows from it about  *)
(* enumerations, sequences and sums, for the proofs about the models that  *)
(* keep sequences and tables (InMemory, Collector).  A property is given   *)
(* as the set of those that have it: facts about sets are what the provers *)
(* can instantiate.                                                        *)
(***************************************************************************)
EXTENDS Integers, Sequences, FiniteSets, WellFoundedInduction, FiniteSetTheorems,
        FunctionTheorems, Functions, TLAPS

\* A set of natural numbers has a least element.
LEMMA LeastElement ==
  ASSUME NEW T \in SUBSET Nat, T # {}
  PROVE  \E m \in T : \A k \in T : m <= k
<1> DEFINE R == {ss \in Nat \X Nat : ss[1] < ss[2]}
<1>1. OpToRel(<, Nat) = R
  BY DEF OpToRel
<1>2. IsWellFoundedOn(R, Nat)
  BY <1>1, NatLessThanWellFounded
<1> HIDE DEF R
<1>3. PICK m \in T : \A y \in T : <<y, m>> \notin R
  BY <1>2, WFMin
<1>4. ASSUME NEW k \in T PROVE m <= k
  <2>1. ~(k < m)
    BY <1>3 DEF R
  <2> QED
    BY <2>1
<1> QED
  BY <1>4

\* A bounded one has a greatest.
LEMMA GreatestElement ==
  ASSUME NEW n \in Nat, NEW T \in SUBSET (1 .. n), T # {}
  PROVE  \E m \in T : \A k \in T : m >= k
<1> DEFINE U == {i \in Nat : n - i \in T}
<1>1. U \in SUBSET Nat /\ U # {}
  <2>1. PICK t \in T : TRUE
    OBVIOUS
  <2>2. n - (n - t) = t /\ n - t \in Nat
    OBVIOUS
  <2>3. n - t \in U
    BY <2>1, <2>2
  <2> QED
    BY <2>3
<1>2. PICK i \in U : \A k \in U : i <= k
  <2> HIDE DEF U
  <2> QED
    BY <1>1, LeastElement
<1>3. n - i \in T
  BY <1>2
<1>4. ASSUME NEW k \in T PROVE n - i >= k
  <2>1. n - k \in Nat /\ n - (n - k) = k
    OBVIOUS
  <2>2. n - k \in U
    BY <2>1
  <2>3. i <= n - k
    BY <1>2, <2>2
  <2> QED
    BY <2>1, <2>3
<1> QED
  BY <1>3, <1>4

\* Induction over the naturals: P is the set of numbers that have the property.
LEMMA Induction ==
  ASSUME NEW P \in SUBSET Nat, 0 \in P, \A n \in P : n + 1 \in P
  PROVE  \A n \in Nat : n \in P
<1> SUFFICES ASSUME Nat \ P # {} PROVE FALSE
  OBVIOUS
<1>1. PICK m \in Nat \ P : \A k \in Nat \ P : m <= k
  BY LeastElement
<1>2. m # 0 /\ m - 1 \in Nat /\ m = (m - 1) + 1
  OBVIOUS
<1>3. m - 1 \in P
  BY <1>1, <1>2
<1> QED
  BY <1>2, <1>3

\* The same over the finite subsets of a set.
LEMMA SetInduction ==
  ASSUME NEW S, IsFiniteSet(S), NEW P \in SUBSET (SUBSET S), {} \in P,
         \A T \in P : \A x \in S \ T : T \cup {x} \in P
  PROVE  S \in P
<1> DEFINE Good == {n \in Nat : \A T \in SUBSET S : Cardinality(T) = n => T \in P}
<1>1. 0 \in Good
  <2> SUFFICES ASSUME NEW T \in SUBSET S, Cardinality(T) = 0 PROVE T \in P
    OBVIOUS
  <2>1. IsFiniteSet(T)
    BY FS_Subset
  <2>2. T = {}
    BY <2>1, FS_EmptySet
  <2> QED
    BY <2>2
<1>2. ASSUME NEW n \in Good PROVE n + 1 \in Good
  <2> SUFFICES ASSUME NEW T \in SUBSET S, Cardinality(T) = n + 1 PROVE T \in P
    OBVIOUS
  <2>1. IsFiniteSet(T) /\ n \in Nat
    BY FS_Subset
  <2>2. T # {}
    BY <2>1, FS_EmptySet
  <2>3. PICK x \in T : TRUE
    BY <2>2
  <2>4. IsFiniteSet(T \ {x}) /\ Cardinality(T \ {x}) = n
    <3>1. IsFiniteSet(T \ {x}) /\ Cardinality(T \ {x}) = Cardinality(T) - 1
      BY <2>1, <2>3, FS_RemoveElement
    <3> QED
      BY <2>1, <3>1
  <2>5. T \ {x} \in P
    BY <2>4
  <2>6. (T \ {x}) \cup {x} \in P
    BY <2>5
  <2>7. (T \ {x}) \cup {x} = T
    OBVIOUS
  <2> QED
    BY <2>6, <2>7
<1>3. Cardinality(S) \in Nat
  BY FS_CardinalityType
<1>4. Cardinality(S) \in Good
  <2>1. Good \in SUBSET Nat
    OBVIOUS
  <2> HIDE DEF Good
  <2> QED
    <3>1. \A n \in Good : n + 1 \in Good
      BY <1>2
    <3>2. \A n \in Nat : n \in Good
      BY <1>1, <2>1, <3>1, Induction
    <3> QED
      BY <1>3, <3>2
<1> QED
  BY <1>4

-----------------------------------------------------------------------------
(***************************************************************************)
(* A finite set of positions has an enumeration in increasing order, which *)
(* meets every one of them, and that of 1 .. m is the identity.            *)
(***************************************************************************)
LEMMA IncreasingExists ==
  ASSUME NEW n \in Nat, NEW I \in SUBSET (1 .. n)
  PROVE  /\ IsFiniteSet(I)
         /\ \E f \in [1 .. Cardinality(I) -> I] :
              \A i, j \in 1 .. Cardinality(I) : i < j => f[i] < f[j]
<1> DEFINE Enumerated(J) ==
             /\ IsFiniteSet(J)
             /\ \E f \in [1 .. Cardinality(J) -> J] :
                  \A i, j \in 1 .. Cardinality(J) : i < j => f[i] < f[j]
           P == {m \in Nat : \A J \in SUBSET (1 .. m) : Enumerated(J)}
<1>1. 0 \in P
  <2> SUFFICES ASSUME NEW J \in SUBSET (1 .. 0) PROVE Enumerated(J)
    OBVIOUS
  <2>1. J = {}
    OBVIOUS
  <2>2. IsFiniteSet(J) /\ Cardinality(J) = 0
    BY <2>1, FS_EmptySet
  <2>3. [x \in {} |-> x] \in [1 .. 0 -> J]
    OBVIOUS
  <2>4. \A i, j \in 1 .. 0 : i < j => [x \in {} |-> x][i] < [x \in {} |-> x][j]
    OBVIOUS
  <2> QED
    BY <2>2, <2>3, <2>4
<1>2. ASSUME NEW m \in Nat, m \in P PROVE m + 1 \in P
  <2> SUFFICES \A J \in SUBSET (1 .. m + 1) : Enumerated(J)
    <3> HIDE DEF Enumerated
    <3> QED
      OBVIOUS
  <2> SUFFICES ASSUME NEW J \in SUBSET (1 .. m + 1) PROVE Enumerated(J)
    OBVIOUS
  <2> DEFINE K == J \ {m + 1}
  <2>1. K \in SUBSET (1 .. m)
    <3>1. ASSUME NEW x \in J, x # m + 1 PROVE x \in 1 .. m
      <4>1. x \in 1 .. m + 1
        OBVIOUS
      <4> HIDE DEF P
      <4> QED
        BY <3>1, <4>1
    <3> QED
      BY <3>1
  <2>2. Enumerated(K)
    <3> HIDE DEF Enumerated, K
    <3> QED
      BY <1>2, <2>1
  <2>3. CASE m + 1 \notin J
    <3>1. K = J
      BY <2>3
    <3> HIDE DEF K
    <3>2. IsFiniteSet(J)
      BY <2>2, <3>1
    <3>3. \E f \in [1 .. Cardinality(J) -> J] :
            \A i, j \in 1 .. Cardinality(J) : i < j => f[i] < f[j]
      BY <2>2, <3>1
    <3> QED
      BY <3>2, <3>3
  <2>4. CASE m + 1 \in J
    <3> DEFINE c == Cardinality(K)
    <3>1. c \in Nat /\ IsFiniteSet(K)
      BY <2>2, FS_CardinalityType
    <3>2. J = K \cup {m + 1} /\ m + 1 \notin K
      BY <2>4
    <3>3. IsFiniteSet(J) /\ Cardinality(J) = c + 1
      <4> HIDE DEF K
      <4> QED
        BY <3>1, <3>2, FS_AddElement
    <3>4. PICK f \in [1 .. c -> K] : \A i, j \in 1 .. c : i < j => f[i] < f[j]
      BY <2>2
    <3> DEFINE g == [i \in 1 .. c + 1 |-> IF i <= c THEN f[i] ELSE m + 1]
    <3>5. \A i \in 1 .. c : f[i] \in K /\ f[i] \in 1 .. m
      BY <2>1, <3>4
    <3> HIDE DEF c, K
    <3>6. g \in [1 .. c + 1 -> J]
      <4> SUFFICES ASSUME NEW i \in 1 .. c + 1
                   PROVE  (IF i <= c THEN f[i] ELSE m + 1) \in J
        OBVIOUS
      <4>1. i <= c => i \in 1 .. c
        BY <3>1
      <4> QED
        BY <3>2, <3>5, <4>1
    <3>7. ASSUME NEW i \in 1 .. c + 1, NEW j \in 1 .. c + 1, i < j PROVE g[i] < g[j]
      <4>1. i \in 1 .. c
        BY <3>1, <3>7
      <4>2. CASE j <= c
        BY <3>1, <3>4, <3>7, <4>1, <4>2
      <4>3. CASE ~(j <= c)
        BY <2>1, <3>1, <3>5, <4>1, <4>3
      <4> QED
        BY <4>2, <4>3
    <3> HIDE DEF g
    <3> QED
      BY <3>3, <3>6, <3>7
  <2> QED
    BY <2>3, <2>4
<1>3. \A m \in Nat : m \in P
  <2>1. P \in SUBSET Nat
    OBVIOUS
  <2> HIDE DEF P
  <2> QED
    BY <1>1, <1>2, <2>1, Induction
<1> QED
  BY <1>3

\* Such an enumeration meets every element, once.
LEMMA IncreasingMeetsAll ==
  ASSUME NEW I \in SUBSET Nat, IsFiniteSet(I), NEW f \in [1 .. Cardinality(I) -> I],
         \A i, j \in 1 .. Cardinality(I) : i < j => f[i] < f[j]
  PROVE  /\ Cardinality(I) \in Nat
         /\ \A i, j \in 1 .. Cardinality(I) : f[i] = f[j] => i = j
         /\ \A x \in I : \E i \in 1 .. Cardinality(I) : f[i] = x
<1> DEFINE c == Cardinality(I)
<1>1. c \in Nat
  BY FS_CardinalityType
<1>2. \A i \in 1 .. c : f[i] \in Nat
  OBVIOUS
<1> HIDE DEF c
<1>3. ASSUME NEW i \in 1 .. c, NEW j \in 1 .. c, f[i] = f[j] PROVE i = j
  <2>1. ~(i < j) /\ ~(j < i)
    BY <1>2, <1>3 DEF c
  <2> QED
    BY <1>1, <2>1
<1>4. f \in Injection(1 .. c, I)
  BY <1>3 DEF Injection, IsInjective, c
<1>5. IsFiniteSet(1 .. c) /\ Cardinality(1 .. c) = c
  BY <1>1, FS_Interval
<1>6. f \in Surjection(1 .. c, I)
  BY <1>4, <1>5, FS_Injection DEF c
<1>7. \A x \in I : \E i \in 1 .. c : f[i] = x
  BY <1>6 DEF Surjection
<1> QED
  BY <1>1, <1>3, <1>7 DEF c

\* The only one of 1 .. m is the identity.
LEMMA IncreasingIsIdentity ==
  ASSUME NEW m \in Nat, NEW f \in [1 .. m -> 1 .. m],
         \A i, j \in 1 .. m : i < j => f[i] < f[j]
  PROVE  \A k \in 1 .. m : f[k] = k
<1> DEFINE P == {k \in Nat : k \in 1 .. m => f[k] >= k}
           Q == {d \in Nat : d < m => f[m - d] <= m - d}
<1>1. \A k \in Nat : k \in P
  <2>1. 0 \in P
    OBVIOUS
  <2>2. ASSUME NEW k \in P PROVE k + 1 \in P
    <3> SUFFICES ASSUME k + 1 \in 1 .. m PROVE f[k + 1] >= k + 1
      OBVIOUS
    <3>1. f[k + 1] \in 1 .. m /\ k \in Nat
      OBVIOUS
    <3>2. CASE k = 0
      BY <3>1, <3>2
    <3>3. CASE k # 0
      <4>1. k \in 1 .. m /\ f[k] >= k /\ f[k] < f[k + 1] /\ f[k] \in 1 .. m
        BY <3>3
      <4> QED
        BY <3>1, <4>1
    <3> QED
      BY <3>2, <3>3
  <2>3. P \in SUBSET Nat
    OBVIOUS
  <2> HIDE DEF P
  <2> QED
    BY <2>1, <2>2, <2>3, Induction
<1>2. \A d \in Nat : d \in Q
  <2>1. 0 \in Q
    OBVIOUS
  <2>2. ASSUME NEW d \in Q PROVE d + 1 \in Q
    <3> SUFFICES ASSUME d + 1 < m PROVE f[m - (d + 1)] <= m - (d + 1)
      OBVIOUS
    <3>1. d \in Nat /\ m - (d + 1) \in 1 .. m /\ m - d \in 1 .. m /\ m - (d + 1) < m - d
      OBVIOUS
    <3>2. f[m - d] <= m - d /\ f[m - (d + 1)] < f[m - d]
      BY <3>1
    <3>3. f[m - d] \in 1 .. m /\ f[m - (d + 1)] \in 1 .. m
      BY <3>1
    <3> QED
      BY <3>1, <3>2, <3>3
  <2>3. Q \in SUBSET Nat
    OBVIOUS
  <2> HIDE DEF Q
  <2> QED
    BY <2>1, <2>2, <2>3, Induction
<1>3. ASSUME NEW k \in 1 .. m PROVE f[k] = k
  <2>1. k \in Nat /\ f[k] >= k
    BY <1>1
  <2>2. m - k \in Nat /\ m - k < m /\ m - (m - k) = k
    OBVIOUS
  <2>3. f[k] <= k
    BY <1>2, <2>2
  <2>4. f[k] \in 1 .. m
    OBVIOUS
  <2> QED
    BY <2>1, <2>3, <2>4
<1> QED
  BY <1>3

-----------------------------------------------------------------------------
(***************************************************************************)
(* Sums.  SumFunction adds up the values of a function in the order in     *)
(* which CHOOSE takes the arguments; any other order gives the same.       *)
(***************************************************************************)
Picked(s) == CHOOSE x \in s : TRUE

\* One more argument, picked as SumFunction picks it, is added to g.
Adds(g, fun, s) == IF s = {} THEN 0 ELSE fun[Picked(s)] + g[s \ {Picked(s)}]

\* The partial sums of fun: each is any one of its terms and the sum of the rest.
PartialSums(g, fun, D) ==
  /\ g \in [SUBSET D -> Int] /\ g[{}] = 0
  /\ \A s \in SUBSET D : \A x \in s : g[s] = fun[x] + g[s \ {x}]

IsSumOf(g, fun, D) == g = [s \in SUBSET D |-> Adds(g, fun, s)]

\* The recursive function of the fold exists.
LEMMA PartialSumsExist ==
  ASSUME NEW D, IsFiniteSet(D), NEW fun \in [D -> Int]
  PROVE  \E g \in [SUBSET D -> Int] : \A s \in SUBSET D : g[s] = Adds(g, fun, s)
<1> DEFINE P == {n \in Nat : \E g \in [SUBSET D -> Int] :
                   \A s \in SUBSET D : Cardinality(s) <= n => g[s] = Adds(g, fun, s)}
<1>1. ASSUME NEW s \in SUBSET D, s # {}
      PROVE  /\ Picked(s) \in s /\ fun[Picked(s)] \in Int /\ s \ {Picked(s)} \in SUBSET D
             /\ Cardinality(s) \in Nat /\ Cardinality(s \ {Picked(s)}) = Cardinality(s) - 1
  <2>1. Picked(s) \in s
    BY <1>1 DEF Picked
  <2>2. IsFiniteSet(s) /\ Cardinality(s) \in Nat
    BY FS_Subset, FS_CardinalityType
  <2>3. Cardinality(s \ {Picked(s)}) = Cardinality(s) - 1
    BY <2>1, <2>2, FS_RemoveElement
  <2> QED
    BY <2>1, <2>2, <2>3
<1>2. ASSUME NEW g \in [SUBSET D -> Int], NEW s \in SUBSET D PROVE Adds(g, fun, s) \in Int
  <2>1. CASE s = {}
    BY <2>1 DEF Adds
  <2>2. CASE s # {}
    <3>1. fun[Picked(s)] \in Int /\ g[s \ {Picked(s)}] \in Int
      BY <1>1, <2>2
    <3> QED
      BY <2>2, <3>1 DEF Adds
  <2> QED
    BY <2>1, <2>2
<1>3. 0 \in P
  <2> DEFINE g == [s \in SUBSET D |-> 0]
  <2>1. g \in [SUBSET D -> Int]
    OBVIOUS
  <2>2. ASSUME NEW s \in SUBSET D, Cardinality(s) <= 0 PROVE g[s] = Adds(g, fun, s)
    <3>1. s = {}
      <4>1. IsFiniteSet(s) /\ Cardinality(s) \in Nat
        BY FS_Subset, FS_CardinalityType
      <4>2. Cardinality(s) = 0
        BY <2>2, <4>1
      <4> QED
        BY <4>1, <4>2, FS_EmptySet
    <3> QED
      BY <3>1 DEF Adds
  <2> HIDE DEF g
  <2> QED
    BY <2>1, <2>2
<1>4. ASSUME NEW n \in P PROVE n + 1 \in P
  <2>1. PICK g \in [SUBSET D -> Int] :
          \A s \in SUBSET D : Cardinality(s) <= n => g[s] = Adds(g, fun, s)
    OBVIOUS
  <2> DEFINE h == [s \in SUBSET D |-> Adds(g, fun, s)]
  <2>2. h \in [SUBSET D -> Int]
    BY <1>2
  <2>3. ASSUME NEW s \in SUBSET D, Cardinality(s) <= n + 1 PROVE h[s] = Adds(h, fun, s)
    <3>1. CASE s = {}
      BY <3>1 DEF Adds
    <3>2. CASE s # {}
      <4> DEFINE t == s \ {Picked(s)}
      <4>1. t \in SUBSET D /\ Cardinality(t) <= n
        BY <1>1, <2>3, <3>2
      <4>2. h[t] = g[t]
        BY <2>1, <4>1
      <4> QED
        BY <3>2, <4>2 DEF Adds
    <3> QED
      BY <3>1, <3>2
  <2> HIDE DEF h
  <2>4. \E f \in [SUBSET D -> Int] :
          \A s \in SUBSET D : Cardinality(s) <= n + 1 => f[s] = Adds(f, fun, s)
    BY <2>2, <2>3
  <2> QED
    BY <2>4
<1>5. \A n \in Nat : n \in P
  <2>1. P \in SUBSET Nat
    OBVIOUS
  <2> HIDE DEF P
  <2> QED
    BY <1>3, <1>4, <2>1, Induction
<1>6. Cardinality(D) \in Nat
  BY FS_CardinalityType
<1>7. PICK g \in [SUBSET D -> Int] :
        \A s \in SUBSET D : Cardinality(s) <= Cardinality(D) => g[s] = Adds(g, fun, s)
  BY <1>5, <1>6
<1>8. \A s \in SUBSET D : Cardinality(s) <= Cardinality(D)
  BY FS_Subset
<1> QED
  BY <1>7, <1>8

\* The order does not matter: a partial sum is any one term and the rest.
LEMMA AnyTermFirst ==
  ASSUME NEW D, IsFiniteSet(D), NEW fun \in [D -> Int], NEW g \in [SUBSET D -> Int],
         \A s \in SUBSET D : g[s] = Adds(g, fun, s)
  PROVE  PartialSums(g, fun, D)
<1> DEFINE Fine(s) == \A x \in s : g[s] = fun[x] + g[s \ {x}]
           P == {n \in Nat : \A s \in SUBSET D : Cardinality(s) = n => Fine(s)}
<1>1. 0 \in P
  <2> SUFFICES ASSUME NEW s \in SUBSET D, Cardinality(s) = 0 PROVE Fine(s)
    OBVIOUS
  <2>1. s = {}
    BY FS_Subset, FS_EmptySet
  <2> QED
    BY <2>1
<1>2. ASSUME NEW n \in P PROVE n + 1 \in P
  <2> SUFFICES ASSUME NEW s \in SUBSET D, Cardinality(s) = n + 1, NEW x \in s
               PROVE  g[s] = fun[x] + g[s \ {x}]
    OBVIOUS
  <2> DEFINE c == Picked(s)
  <2>1. c \in s
    BY DEF Picked
  <2>2. g[s] = fun[c] + g[s \ {c}]
    BY <2>1 DEF Adds
  <2> HIDE DEF c
  <2>3. CASE c = x
    BY <2>2, <2>3
  <2>4. CASE c # x
    <3>1. IsFiniteSet(s) /\ n \in Nat
      BY FS_Subset
    <3>2. \A y \in s : Cardinality(s \ {y}) = n
      <4> SUFFICES ASSUME NEW y \in s PROVE Cardinality(s \ {y}) = n
        OBVIOUS
      <4>1. Cardinality(s \ {y}) = Cardinality(s) - 1
        BY <3>1, FS_RemoveElement
      <4> QED
        BY <3>1, <4>1
    <3>3. Fine(s \ {c}) /\ Fine(s \ {x})
      <4> HIDE DEF Fine
      <4> QED
        BY <2>1, <3>2
    <3>4. g[s \ {c}] = fun[x] + g[(s \ {c}) \ {x}]
      BY <2>4, <3>3
    <3>5. g[s \ {x}] = fun[c] + g[(s \ {x}) \ {c}]
      BY <2>1, <2>4, <3>3
    <3>6. (s \ {c}) \ {x} = (s \ {x}) \ {c}
      OBVIOUS
    <3> DEFINE rest == g[(s \ {x}) \ {c}]
    <3>7. fun[c] \in Int /\ fun[x] \in Int /\ rest \in Int
      BY <2>1
    <3>8. g[s] = fun[c] + (fun[x] + rest) /\ g[s \ {x}] = fun[c] + rest
      BY <2>2, <3>4, <3>5, <3>6
    <3> HIDE DEF rest
    <3> QED
      BY <3>7, <3>8
  <2> QED
    BY <2>3, <2>4
<1>3. \A n \in Nat : n \in P
  <2>1. P \in SUBSET Nat
    OBVIOUS
  <2> HIDE DEF P
  <2> QED
    BY <1>1, <1>2, <2>1, Induction
<1>4. \A s \in SUBSET D : Cardinality(s) \in Nat
  BY FS_Subset, FS_CardinalityType
<1>5. g[{}] = 0
  BY DEF Adds
<1> QED
  BY <1>3, <1>4, <1>5 DEF PartialSums

\* What there is to know of a sum: its partial sums, term by term.
LEMMA SumProperties ==
  ASSUME NEW D, IsFiniteSet(D), NEW fun \in [D -> Int]
  PROVE  \E g : PartialSums(g, fun, D) /\ SumFunction(fun) = g[D]
<1> DEFINE g == CHOOSE h : IsSumOf(h, fun, D)
<1>1. PICK h \in [SUBSET D -> Int] : \A s \in SUBSET D : h[s] = Adds(h, fun, s)
  BY PartialSumsExist
<1>2. IsSumOf(h, fun, D)
  BY <1>1 DEF IsSumOf
<1>3. IsSumOf(g, fun, D)
  <2> HIDE DEF IsSumOf
  <2> QED
    BY <1>2
<1>4. SumFunction(fun) = g[D]
  <2>1. DOMAIN fun = D
    OBVIOUS
  <2> QED
    BY <2>1 DEF SumFunction, SumFunctionOnSet, FoldFunctionOnSet, MapThenFoldSet, IsSumOf, Adds, Picked
<1> HIDE DEF g
<1>5. \A s \in SUBSET D : g[s] = Adds(g, fun, s)
  BY <1>3 DEF IsSumOf
<1>6. g \in [SUBSET D -> Int]
  <2> DEFINE P == {n \in Nat : \A s \in SUBSET D : Cardinality(s) = n => g[s] \in Int}
  <2>1. 0 \in P
    <3> SUFFICES ASSUME NEW s \in SUBSET D, Cardinality(s) = 0 PROVE g[s] \in Int
      OBVIOUS
    <3>1. s = {}
      BY FS_Subset, FS_EmptySet
    <3> QED
      BY <1>5, <3>1 DEF Adds
  <2>2. ASSUME NEW n \in P PROVE n + 1 \in P
    <3> SUFFICES ASSUME NEW s \in SUBSET D, Cardinality(s) = n + 1 PROVE g[s] \in Int
      OBVIOUS
    <3> DEFINE c == Picked(s)
               t == s \ {c}
    <3>1. IsFiniteSet(s) /\ n \in Nat
      BY FS_Subset
    <3>2. s # {}
      BY <3>1, FS_EmptySet
    <3>3. c \in s
      BY <3>2 DEF Picked
    <3>4. t \in SUBSET D /\ Cardinality(t) = n
      <4>1. Cardinality(s \ {c}) = Cardinality(s) - 1
        BY <3>1, <3>3, FS_RemoveElement
      <4> QED
        BY <3>1, <4>1
    <3>5. g[t] \in Int /\ fun[c] \in Int
      <4> HIDE DEF t
      <4> QED
        BY <3>3, <3>4
    <3>6. g[s] = fun[c] + g[t]
      BY <1>5, <3>2 DEF Adds
    <3> QED
      BY <3>5, <3>6
  <2>3. \A n \in Nat : n \in P
    <3>1. P \in SUBSET Nat
      OBVIOUS
    <3> HIDE DEF P
    <3> QED
      BY <2>1, <2>2, <3>1, Induction
  <2>4. \A s \in SUBSET D : Cardinality(s) \in Nat
    BY FS_Subset, FS_CardinalityType
  <2>5. \A s \in SUBSET D : g[s] \in Int
    BY <2>3, <2>4
  <2>6. g = [s \in SUBSET D |-> g[s]]
    BY <1>3 DEF IsSumOf
  <2> QED
    BY <2>5, <2>6
<1>7. PartialSums(g, fun, D)
  BY <1>5, <1>6, AnyTermFirst
<1> QED
  BY <1>4, <1>7

\* fun with new at b, whether or not b was in its domain D.
Updated(fun, D, b, new) == [x \in D \cup {b} |-> IF x = b THEN new ELSE fun[x]]
TermAt(fun, D, b) == IF b \in D THEN fun[b] ELSE 0

\* The sum of a table after one entry has changed, or has been added.
LEMMA SumUpdate ==
  ASSUME NEW D, IsFiniteSet(D), NEW fun \in [D -> Int], NEW b, NEW new \in Int
  PROVE  /\ SumFunction(fun) \in Int
         /\ SumFunction(Updated(fun, D, b, new))
              = (SumFunction(fun) - TermAt(fun, D, b)) + new
<1> DEFINE E == D \cup {b}
           R == D \ {b}
           after == [x \in E |-> IF x = b THEN new ELSE fun[x]]
<1>1. IsFiniteSet(E) /\ IsFiniteSet(R) /\ after \in [E -> Int]
  BY FS_AddElement, FS_RemoveElement
<1>2. PICK g : PartialSums(g, fun, D) /\ SumFunction(fun) = g[D]
  BY SumProperties
<1>3. after[b] = new /\ \A x \in R : after[x] = fun[x]
  OBVIOUS
<1>4. R \subseteq D /\ R \subseteq E /\ E \ {b} = R /\ b \in E /\ b \notin R
  OBVIOUS
<1> HIDE DEF E, R, after
<1>5. PICK h : PartialSums(h, after, E) /\ SumFunction(after) = h[E]
  BY <1>1, SumProperties
<1>6. g[R] = h[R]
  <2> DEFINE P == {s \in SUBSET R : g[s] = h[s]}
  <2>1. {} \in P
    BY <1>2, <1>5 DEF PartialSums
  <2>2. ASSUME NEW s \in P, NEW x \in R \ s PROVE s \cup {x} \in P
    <3> DEFINE t == s \cup {x}
    <3>1. t \in SUBSET R /\ t \in SUBSET D /\ t \in SUBSET E /\ t \ {x} = s /\ x \in t
      BY <1>4
    <3> HIDE DEF t
    <3>2. g[t] = fun[x] + g[s] /\ h[t] = after[x] + h[s]
      BY <1>2, <1>5, <3>1 DEF PartialSums
    <3> QED
      BY <1>3, <3>1, <3>2 DEF t
  <2>3. P \in SUBSET (SUBSET R)
    OBVIOUS
  <2> HIDE DEF P
  <2>4. R \in P
    BY <1>1, <2>1, <2>2, <2>3, SetInduction
  <2> QED
    BY <2>4 DEF P
<1>7. h[E] = new + h[R] /\ h[R] \in Int
  BY <1>3, <1>4, <1>5 DEF PartialSums
<1>8. g[D] \in Int /\ g[D] = (IF b \in D THEN fun[b] ELSE 0) + g[R]
  <2>1. CASE b \in D
    BY <1>2, <2>1 DEF R, PartialSums
  <2>2. CASE b \notin D
    <3>1. R = D
      BY <2>2 DEF R
    <3> QED
      BY <1>2, <2>2, <3>1 DEF PartialSums
  <2> QED
    BY <2>1, <2>2
<1>9. (IF b \in D THEN fun[b] ELSE 0) \in Int
  OBVIOUS
<1>10. SumFunction(fun) \in Int
       /\ SumFunction(after) = (SumFunction(fun) - (IF b \in D THEN fun[b] ELSE 0)) + new
  BY <1>2, <1>5, <1>6, <1>7, <1>8, <1>9
<1> QED
  BY <1>10 DEF after, E, Updated, TermAt

=============================================================================
