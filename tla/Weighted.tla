------------------------------ MODULE Weighted ------------------------------
(***************************************************************************)
(* internal/algorithms/Weighted.go: each backend has a stock of picks, its *)
(* weight; a healthy backend with stock left is picked at random, and the  *)
(* stocks are refilled when no healthy backend has any left.  This module  *)
(* is the table of stocks; GetTarget(H, u) is what a call that found the   *)
(* healthy backends H and returns u does to it, all under the mutex.       *)
(* Routing has the rest of the call: the lookup, and who gets u.           *)
(*                                                                         *)
(* Which backends are healthy may change from call to call in any way.     *)
(* The random order in which exhausted candidates are removed is left out: *)
(* it ends at some candidate with stock, or has removed them all.          *)
(***************************************************************************)
EXTENDS Integers

CONSTANTS
  URLs,
  Weight,     \* ServerState.Weight of each backend
  MaxEpochs   \* bound on the refills

ASSUME WeightAssumption == Weight \in [URLs -> Int]
ASSUME MaxEpochsAssumption == MaxEpochs \in Nat

VARIABLES
  registered,   \* DOMAIN of Weighted.Weights
  remaining,    \* Weights[u][1]; 0 while u is not registered
  picked,       \* history: how often each backend was returned
  epochs,       \* history: how often the stocks were refilled
  constant      \* history: the backends that every call that got one had to choose from

weightedVars == <<registered, remaining, picked, epochs, constant>>

WeightedTypeOK ==
  /\ registered \subseteq URLs
  /\ remaining \in [URLs -> Nat]
  /\ picked \in [URLs -> Nat]
  /\ epochs \in 0 .. MaxEpochs
  /\ constant \subseteq URLs

WeightedInit ==
  /\ registered = {}
  /\ remaining = [u \in URLs |-> 0]
  /\ picked = [u \in URLs |-> 0]
  /\ epochs = 0
  /\ constant = URLs

\* Weights[u][0]: an invalid weight counts as 1.
Original(u) == IF Weight[u] <= 0 THEN 1 ELSE Weight[u]

\* Mutant of Registered: an entry without stock is taken for a missing one.
Registered_Again(H) ==
  [u \in URLs |-> IF u \in H /\ remaining[u] = 0 THEN Original(u) ELSE remaining[u]]

\* The stocks once every healthy backend is registered.
Registered(H) ==
  [u \in URLs |-> IF u \in H \ registered THEN Original(u) ELSE remaining[u]]

\* Mutants of Refilled: the stocks stay empty; left-over stock is carried forward.
Refilled_None(stock, known) == stock
Refilled_Carry(stock, known) ==
  [u \in URLs |-> IF u \in known THEN stock[u] + Original(u) ELSE stock[u]]

\* All registered entries whose stock is used up, healthy or not.
Refilled(stock, known) ==
  [u \in URLs |-> IF u \in known /\ stock[u] = 0 THEN Original(u) ELSE stock[u]]

Take(stock, u) ==
  /\ remaining' = [stock EXCEPT ![u] = @ - 1]
  /\ picked' = [picked EXCEPT ![u] = @ + 1]

\* Mutant of InStock: any backend that is registered is a candidate.
InStock_Registered(stock, H) == {u \in URLs : stock[u] > 0}

\* The candidates that the random removal can end at.
InStock(stock, H) == {u \in H : stock[u] > 0}

GetTarget(H, u) ==
  LET stock == Registered(H)
  IN  /\ H # {}
      /\ registered' = registered \cup H
      /\ constant' = constant \cap H
      /\ \/ /\ u \in InStock(stock, H)
            /\ Take(stock, u)
            /\ UNCHANGED epochs
         \/ /\ InStock(stock, H) = {} /\ u \in H
            /\ Take(Refilled(stock, registered \cup H), u)
            /\ epochs < MaxEpochs
            /\ epochs' = epochs + 1

\* A call that finds no healthy backend returns before it touches the table.
WeightedNext == \E H \in SUBSET URLs, u \in URLs : GetTarget(H, u)

WeightedSpec == WeightedInit /\ [][WeightedNext]_weightedVars

-----------------------------------------------------------------------------
(***************************************************************************)
(* A stock stays within 0 and the weight: the entry that is decremented    *)
(* had picks left, and a refill never adds to what is still there,         *)
(* whatever backends come and go between two refills.                      *)
(***************************************************************************)
RemainingInRange ==
  \A u \in URLs : remaining[u] \in 0 .. Original(u)

(***************************************************************************)
(* Requests are shared out in proportion to the weights: a backend that is *)
(* healthy all along has had its whole weight in every completed epoch,    *)
(* and no backend ever gets more than its weight per epoch begun, even one *)
(* that leaves with stock in hand and comes back.                          *)
(***************************************************************************)
ProportionalShare ==
  \A u \in URLs :
    /\ u \in constant => epochs * Original(u) <= picked[u]
    /\ picked[u] <= (epochs + 1) * Original(u)

=============================================================================
