---------------------------- MODULE WeightedProofs --------------------------
(***************************************************************************)
(* Theorems about Weighted, for any backends, weights and number of        *)
(* refills.                                                                *)
(***************************************************************************)
EXTENDS Weighted, TLAPS

(***************************************************************************)
(* The account of one backend: what it was given in the epochs begun is    *)
(* what it was picked plus what it has left; at most that, if it was away  *)
(* during a refill or came late, and exactly that, if it never was.        *)
(***************************************************************************)
Account(u) ==
  /\ remaining[u] \in 0 .. Original(u)
  /\ u \notin registered => remaining[u] = 0 /\ picked[u] = 0
  /\ u \in registered => picked[u] + remaining[u] <= (epochs + 1) * Original(u)
  /\ u \in registered /\ u \in constant =>
       picked[u] + remaining[u] = (epochs + 1) * Original(u)

\* A backend that was healthy at every call is registered by the first one.
FirstCall ==
  IF registered = {} THEN epochs = 0 ELSE constant \subseteq registered

WInv == WeightedTypeOK /\ FirstCall /\ \A u \in URLs : Account(u)

\* The two products that the account of a backend is kept in.
LEMMA Shares ==
  ASSUME NEW e \in Nat, NEW o \in Nat
  PROVE  /\ e * o \in Nat
         /\ (e + 1) * o = e * o + o
         /\ (e + 1 + 1) * o = e * o + o + o
         /\ (0 + 1) * o = o
OBVIOUS

LEMMA OriginalPositive == \A u \in URLs : Original(u) \in Nat \ {0}
BY WeightAssumption DEF Original

LEMMA WInvInit == WeightedInit => WInv
<1> SUFFICES ASSUME WeightedInit PROVE WInv
  OBVIOUS
<1>1. WeightedTypeOK /\ FirstCall
  BY MaxEpochsAssumption DEF WeightedInit, WeightedTypeOK, FirstCall
<1>2. ASSUME NEW u \in URLs
      PROVE  Account(u)
  BY OriginalPositive DEF WeightedInit, Account
<1> QED
  BY <1>1, <1>2 DEF WInv

\* What a call of GetTarget does to the account of each backend.
LEMMA GetTargetAccount ==
  ASSUME WInv, NEW H \in SUBSET URLs, NEW w \in URLs, GetTarget(H, w), NEW u \in URLs
  PROVE  /\ Account(u)'
         /\ remaining'[u] \in Nat /\ picked'[u] \in Nat
<1> DEFINE stock == Registered(H)
           o == Original(u)
<1>1. o \in Nat /\ o > 0
  BY OriginalPositive
<1>2. /\ epochs \in Nat /\ remaining[u] \in Nat /\ picked[u] \in Nat
      /\ remaining \in [URLs -> Nat] /\ picked \in [URLs -> Nat]
  BY DEF WInv, WeightedTypeOK
<1>3. Account(u)
  BY DEF WInv
<1>4. H # {} /\ registered' = registered \cup H /\ constant' = constant \cap H
  BY DEF GetTarget
<1>5. stock \in [URLs -> Nat] /\ stock[u] = IF u \in H \ registered THEN o ELSE remaining[u]
  BY <1>2, OriginalPositive DEF Registered
<1>6. /\ epochs * o \in Nat /\ (epochs + 1) * o = epochs * o + o
      /\ (epochs + 1 + 1) * o = epochs * o + o + o
  BY <1>1, <1>2, Shares
\* After the registration, before the pick.
<1>7. /\ stock[u] \in 0 .. o
      /\ u \notin registered' => stock[u] = 0 /\ picked[u] = 0
      /\ u \in registered' => picked[u] + stock[u] <= epochs * o + o
      /\ u \in registered' /\ u \in constant' => picked[u] + stock[u] = epochs * o + o
  <2>1. CASE u \in H \ registered
    <3>1. picked[u] = 0 /\ stock[u] = o
      BY <1>3, <1>5, <2>1 DEF Account
    <3>2. u \in constant => epochs * o = 0
      <4>1. u \in constant => epochs = 0
        BY <2>1 DEF WInv, FirstCall
      <4> QED
        BY <1>1, <4>1
    <3> HIDE DEF stock, o
    <3> QED
      BY <1>1, <1>4, <1>6, <2>1, <3>1, <3>2
  <2>2. CASE u \notin H \ registered
    BY <1>3, <1>4, <1>5, <1>6, <2>2 DEF Account
  <2> QED
    BY <2>1, <2>2
<1> HIDE DEF stock, o
<1>8. CASE UNCHANGED epochs /\ w \in InStock(stock, H) /\ Take(stock, w)
  <2>1. Take(stock, w)
    BY <1>8
  <2>2. w \in H /\ stock[w] > 0
    BY <1>8 DEF InStock
  <2>3. /\ remaining'[u] = IF u = w THEN stock[u] - 1 ELSE stock[u]
        /\ picked'[u] = IF u = w THEN picked[u] + 1 ELSE picked[u]
    BY <1>2, <1>5, <2>1 DEF Take
  <2>4. /\ remaining'[u] \in 0 .. o /\ picked'[u] \in Nat
        /\ u \notin registered' => remaining'[u] = 0 /\ picked'[u] = 0
        /\ u \in registered' => picked'[u] + remaining'[u] <= epochs * o + o
        /\ u \in registered' /\ u \in constant' => picked'[u] + remaining'[u] = epochs * o + o
    <3>1. CASE u = w
      BY <1>1, <1>2, <1>4, <1>6, <1>7, <2>2, <2>3, <3>1
    <3>2. CASE u # w
      BY <1>2, <1>7, <2>3, <3>2
    <3> QED
      BY <3>1, <3>2
  <2> QED
    BY <1>6, <1>8, <2>4 DEF Account, o, Original
<1>9. CASE /\ epochs' = epochs + 1 /\ InStock(stock, H) = {} /\ w \in H
           /\ Take(Refilled(stock, registered \cup H), w)
  <2> DEFINE full == Refilled(stock, registered \cup H)
  <2>1. Take(full, w)
    BY <1>9
  <2>2. full \in [URLs -> Nat] /\ full[u] = IF u \in registered' /\ stock[u] = 0 THEN o ELSE stock[u]
    BY <1>4, <1>5, OriginalPositive DEF Refilled, o
  <2>3. stock[w] = 0 /\ full[w] > 0 /\ w \in URLs
    <3>1. stock[w] \in Nat /\ ~(stock[w] > 0)
      BY <1>5, <1>9 DEF InStock
    <3> QED
      BY <1>5, <1>9, <3>1, OriginalPositive DEF Refilled
  <2>4. u \in H => stock[u] = 0
    BY <1>5, <1>9 DEF InStock
  <2> HIDE DEF full
  <2>5. /\ remaining'[u] = IF u = w THEN full[u] - 1 ELSE full[u]
        /\ picked'[u] = IF u = w THEN picked[u] + 1 ELSE picked[u]
    BY <1>2, <2>1, <2>2 DEF Take
  <2>6. /\ full[u] \in 0 .. o
        /\ u \notin registered' => full[u] = 0 /\ picked[u] = 0
        /\ u \in registered' => picked[u] + full[u] <= epochs * o + o + o
        /\ u \in registered' /\ u \in constant' => picked[u] + full[u] = epochs * o + o + o
    BY <1>1, <1>2, <1>4, <1>6, <1>7, <2>2, <2>4
  <2>7. /\ remaining'[u] \in 0 .. o /\ picked'[u] \in Nat
        /\ u \notin registered' => remaining'[u] = 0 /\ picked'[u] = 0
        /\ u \in registered' => picked'[u] + remaining'[u] <= epochs * o + o + o
        /\ u \in registered' /\ u \in constant' => picked'[u] + remaining'[u] = epochs * o + o + o
    <3>1. CASE u = w
      BY <1>1, <1>2, <1>4, <1>6, <2>1, <2>3, <2>5, <2>6, <3>1
    <3>2. CASE u # w
      BY <1>2, <2>5, <2>6, <3>2
    <3> QED
      BY <3>1, <3>2
  <2> QED
    BY <1>6, <1>9, <2>7 DEF Account, o, Original
<1> QED
  BY <1>8, <1>9 DEF GetTarget, stock

LEMMA WInvNext == WInv /\ [WeightedNext]_weightedVars => WInv'
<1> SUFFICES ASSUME WInv, [WeightedNext]_weightedVars PROVE WInv'
  OBVIOUS
<1>1. ASSUME NEW H \in SUBSET URLs, NEW w \in URLs, GetTarget(H, w)
      PROVE  WInv'
  <2>1. \A u \in URLs : Account(u)' /\ remaining'[u] \in Nat /\ picked'[u] \in Nat
    BY <1>1, GetTargetAccount
  <2>2. WeightedTypeOK'
    <3>1. remaining' \in [URLs -> Nat] /\ picked' \in [URLs -> Nat]
      BY <1>1, <2>1 DEF GetTarget, Take, Registered, Refilled, WInv, WeightedTypeOK
    <3>2. epochs' \in 0 .. MaxEpochs
      BY <1>1, MaxEpochsAssumption DEF GetTarget, WInv, WeightedTypeOK
    <3> QED
      BY <1>1, <3>1, <3>2 DEF GetTarget, WInv, WeightedTypeOK
  <2>3. FirstCall'
    BY <1>1 DEF GetTarget, FirstCall
  <2> QED
    BY <2>1, <2>2, <2>3 DEF WInv
<1>2. CASE UNCHANGED weightedVars
  BY <1>2 DEF WInv, WeightedTypeOK, FirstCall, Account, Original, weightedVars
<1> QED
  BY <1>1, <1>2 DEF WeightedNext

-----------------------------------------------------------------------------
\* The table and the history counters stay well formed.
THEOREM WeightedTypeCorrect == WeightedSpec => []WeightedTypeOK
<1>1. WInv => WeightedTypeOK
  BY DEF WInv
<1> QED
  BY WInvInit, WInvNext, <1>1, PTL DEF WeightedSpec

(***************************************************************************)
(* No stock ever goes below 0 or above the weight.                         *)
(***************************************************************************)
THEOREM StockInRange == WeightedSpec => []RemainingInRange
<1>1. WInv => RemainingInRange
  BY DEF WInv, Account, RemainingInRange
<1> QED
  BY WInvInit, WInvNext, <1>1, PTL DEF WeightedSpec

(***************************************************************************)
(* The share of a backend in the picks follows its weight, whatever        *)
(* backends come and go between the calls.                                 *)
(***************************************************************************)
THEOREM SharesAreProportional == WeightedSpec => []ProportionalShare
<1>1. WInv => ProportionalShare
  <2> SUFFICES ASSUME WInv, NEW u \in URLs
               PROVE  /\ u \in constant => epochs * Original(u) <= picked[u]
                      /\ picked[u] <= (epochs + 1) * Original(u)
    BY DEF ProportionalShare
  <2> DEFINE o == Original(u)
  <2>1. o \in Nat /\ Account(u) /\ epochs \in Nat /\ picked[u] \in Nat /\ FirstCall
    BY OriginalPositive DEF WInv, WeightedTypeOK
  <2>2. epochs * o \in Nat /\ (epochs + 1) * o = epochs * o + o
    BY <2>1, Shares
  <2>3. u \notin registered /\ u \in constant => epochs * o = 0
    <3>1. u \notin registered /\ u \in constant => epochs = 0
      BY <2>1 DEF FirstCall
    <3> QED
      BY <2>1, <3>1
  <2>4. /\ remaining[u] \in 0 .. o
        /\ u \notin registered => picked[u] = 0
        /\ u \in registered => picked[u] + remaining[u] <= (epochs + 1) * o
        /\ u \in registered /\ u \in constant => picked[u] + remaining[u] = (epochs + 1) * o
    BY <2>1 DEF Account
  <2> HIDE DEF o
  <2>5. (u \in constant => epochs * o <= picked[u]) /\ picked[u] <= (epochs + 1) * o
    <3>1. CASE u \in registered
      BY <2>1, <2>2, <2>4, <3>1
    <3>2. CASE u \notin registered
      BY <2>1, <2>2, <2>3, <2>4, <3>2
    <3> QED
      BY <3>1, <3>2
  <2> QED
    BY <2>5 DEF o
<1> QED
  BY WInvInit, WInvNext, <1>1, PTL DEF WeightedSpec

=============================================================================
