---------------------------- MODULE RoutingProofs ---------------------------
(***************************************************************************)
(* Theorems about Routing, for any number of callers and backends, any     *)
(* lists and any width of the ticket counter: the policies keep the        *)
(* contract of the Rule interface, least connections spares the busiest    *)
(* backend, round robin gives its turns evenly, and the calls of the       *)
(* weighted policy keep to the table that WeightedProofs is about.         *)
(***************************************************************************)
EXTENDS Routing, WeightedProofs

\* A caller in the middle of least connections holds two different entries of
\* its list, and the counter of the first as long as no counter has changed.
Holds(c) ==
  \E x \in Range(servers[c]), y \in Range(servers[c]) :
    /\ x # y
    /\ choice[c].first = {x} /\ choice[c].second = {y}
    /\ c \in steady => choice[c].load = conns[x]

CallInv(c) ==
  /\ stage[c] = "returned" => servers[c] = <<>>
  /\ stage[c] = "picked" => Holds(c)

RInv == RoutingTypeOK /\ \A c \in Callers : CallInv(c)

-----------------------------------------------------------------------------
\* The elements of a list are backends, and only the empty list has none.
LEMMA RangeOfList ==
  ASSUME NEW l \in Lists
  PROVE  /\ l \in Seq(URLs) /\ Len(l) \in Nat /\ DOMAIN l = 1 .. Len(l)
         /\ Range(l) \subseteq URLs
         /\ \A k \in 1 .. Len(l) : l[k] \in Range(l)
         /\ l = <<>> <=> Range(l) = {}
         /\ \A j, k \in 1 .. Len(l) : l[j] = l[k] => j = k
<1>1. l \in Seq(URLs) /\ IsInjective(l)
  BY ListsAssumption
<1>2. Len(l) \in Nat /\ DOMAIN l = 1 .. Len(l) /\ \A k \in 1 .. Len(l) : l[k] \in URLs
  BY <1>1
<1>3. \A k \in 1 .. Len(l) : l[k] \in Range(l)
  BY <1>2 DEF Range
<1>4. Range(l) \subseteq URLs
  BY <1>2 DEF Range
<1>5. l = <<>> => Range(l) = {}
  BY DEF Range
<1>6. ASSUME l # <<>> PROVE Range(l) # {}
  <2>1. Len(l) # 0
    BY <1>1, <1>6
  <2>2. 1 \in 1 .. Len(l)
    BY <2>1, <1>2
  <2> QED
    BY <2>2, <1>3
<1>7. \A j, k \in 1 .. Len(l) : l[j] = l[k] => j = k
  BY <1>1, <1>2 DEF IsInjective
<1> QED
  BY <1>1, <1>2, <1>3, <1>4, <1>5, <1>6, <1>7

\* The ticket always names a position of the caller's list.
LEMMA PositionInList ==
  ASSUME NEW n \in Nat, n # 0, next \in Nat
  PROVE  Position(n) \in 1 .. n
<1>1. next % n \in 0 .. n - 1
  OBVIOUS
<1> QED
  BY <1>1 DEF Position

\* The second index differs from the first and is in range.
LEMMA OtherIndex ==
  ASSUME NEW n \in Nat, NEW i \in 1 .. n, NEW j \in 1 .. n - 1
  PROVE  Other(i, j) \in 1 .. n /\ Other(i, j) # i
BY DEF Other

-----------------------------------------------------------------------------
LEMMA RInvInit == Init => RInv
<1> SUFFICES ASSUME Init PROVE RInv
  OBVIOUS
<1> USE DEF Init, SelectionInit, RoundRobinInit, NoTurns, NoChoice
<1>1. RoutingTypeOK
  BY ListsAssumption, LoadsAssumption, ModulusAssumption, MaxTurnsAssumption DEF RoutingTypeOK
<1>2. \A c \in Callers : CallInv(c)
  BY DEF CallInv
<1> QED
  BY <1>1, <1>2 DEF RInv

(***************************************************************************)
(* Each action keeps the invariant.  A call moves its own caller only, so  *)
(* the others' parts follow from what stays the same for them.             *)
(***************************************************************************)
Same(c) ==
  /\ stage'[c] = stage[c] /\ servers'[c] = servers[c] /\ choice'[c] = choice[c]
  /\ c \in steady' => c \in steady
  /\ c \in steady' => conns' = conns

LEMMA SameKeepsCall ==
  ASSUME NEW c, Same(c), CallInv(c)
  PROVE  CallInv(c)'
BY DEF Same, CallInv, Holds

LEMMA StartCallStep ==
  ASSUME RInv, NEW c \in Callers, StartCall(c), UNCHANGED policy
  PROVE  RInv'
<1> USE DEF StartCall, GetHealthy, roundRobinVars
<1>1. RoutingTypeOK'
  BY DEF RInv, RoutingTypeOK
<1>2. CallInv(c)'
  BY DEF RInv, RoutingTypeOK, CallInv
<1>3. ASSUME NEW d \in Callers, d # c PROVE CallInv(d)'
  <2>1. Same(d)
    BY <1>3 DEF RInv, RoutingTypeOK, Same
  <2> QED
    BY <2>1, SameKeepsCall DEF RInv
<1> QED
  BY <1>1, <1>2, <1>3 DEF RInv

\* A call that returns leaves nothing behind but its answer.
LEMMA ReturnStep ==
  ASSUME RInv, NEW c \in Callers, NEW a \in SUBSET URLs, Return(c, a),
         steady' \subseteq steady, conns' = conns,
         \/ choice' = choice
         \/ choice' = [choice EXCEPT ![c] = NoChoice],
         next' \in 0 .. Modulus - 1,
         turns' \in [1 .. Len(list) -> 0 .. MaxTurns], irregular' \in 0 .. MaxTurns,
         UNCHANGED policy
  PROVE  RInv'
<1> USE DEF Return
<1>1. RoutingTypeOK'
  <2>1. <<>> \in Lists /\ NoChoice \in [first : SUBSET URLs, second : SUBSET URLs, load : Loads]
    BY ListsAssumption, LoadsAssumption DEF NoChoice
  <2>2. choice' \in [Callers -> [first : SUBSET URLs, second : SUBSET URLs, load : Loads]]
    BY <2>1 DEF RInv, RoutingTypeOK
  <2>3. /\ stage' \in [Callers -> {"returned", "listed", "picked"}]
        /\ servers' \in [Callers -> Lists] /\ answer' \in SUBSET URLs
    BY <2>1 DEF RInv, RoutingTypeOK
  <2> QED
    BY <2>2, <2>3 DEF RInv, RoutingTypeOK
<1>2. CallInv(c)'
  BY DEF RInv, RoutingTypeOK, CallInv
<1>3. ASSUME NEW d \in Callers, d # c PROVE CallInv(d)'
  <2>1. Same(d)
    BY <1>3 DEF RInv, RoutingTypeOK, Same
  <2> QED
    BY <2>1, SameKeepsCall DEF RInv
<1> QED
  BY <1>1, <1>2, <1>3 DEF RInv

LEMMA FailCallStep ==
  ASSUME RInv, NEW c \in Callers, FailCall(c), UNCHANGED policy
  PROVE  RInv'
<1>1. /\ Return(c, {}) /\ steady' \subseteq steady /\ UNCHANGED <<roundRobinVars, conns, choice, list>>
  BY DEF FailCall, NoneHealthy, Return
<1>2. next' \in 0 .. Modulus - 1 /\ turns' \in [1 .. Len(list) -> 0 .. MaxTurns]
      /\ irregular' \in 0 .. MaxTurns
  BY <1>1 DEF RInv, RoutingTypeOK, roundRobinVars
<1> QED
  BY <1>1, <1>2, ReturnStep

LEMMA RoundRobinStep ==
  ASSUME RInv, NEW c \in Callers, RoundRobinCall(c), UNCHANGED policy
  PROVE  RInv'
<1> DEFINE n == Len(servers[c])
           position == Position(n)
<1> USE DEF RInv, RoutingTypeOK
<1>1. servers[c] \in Lists /\ servers[c] # <<>> /\ next \in Nat
  BY DEF RoundRobinCall, RoundRobinTarget
<1>2. n \in Nat /\ n # 0
  BY <1>1, RangeOfList
<1>3. position \in 1 .. n
  BY <1>1, <1>2, PositionInList
<1>4. {servers[c][position]} \in SUBSET URLs
  BY <1>1, <1>3, RangeOfList
<1>5. Return(c, {servers[c][position]}) /\ UNCHANGED leastConnectionsVars
  BY DEF RoundRobinCall, RoundRobinTarget
<1>6. next' \in 0 .. Modulus - 1
  <2>1. next' = (next + 1) % Modulus
    BY DEF RoundRobinCall, RoundRobinTarget, AddUint64
  <2>2. next + 1 \in Nat /\ Modulus \in Nat /\ Modulus > 0
    BY ModulusAssumption
  <2> QED
    BY <2>1, <2>2
<1>7. irregular' \in 0 .. MaxTurns
  BY MaxTurnsAssumption DEF RoundRobinCall, RoundRobinTarget
<1>8. turns' \in [1 .. Len(list) -> 0 .. MaxTurns]
  <2>1. CASE servers[c] # list
    BY <2>1 DEF RoundRobinCall, RoundRobinTarget
  <2>2. CASE servers[c] = list
    <3>1. turns' = [turns EXCEPT ![position] = @ + 1] /\ \A k \in DOMAIN turns : turns'[k] <= MaxTurns
      BY <2>2 DEF RoundRobinCall, RoundRobinTarget
    <3>2. turns \in [1 .. Len(list) -> 0 .. MaxTurns] /\ position \in 1 .. Len(list)
      BY <2>2, <1>3
    <3>3. \A k \in 1 .. Len(list) : turns'[k] \in 0 .. MaxTurns
      BY <3>1, <3>2, MaxTurnsAssumption
    <3> QED
      BY <3>1, <3>2, <3>3
  <2> QED
    BY <2>1, <2>2
<1> HIDE DEF position, n, RInv, RoutingTypeOK
<1> QED
  BY <1>4, <1>5, <1>6, <1>7, <1>8, ReturnStep DEF leastConnectionsVars

LEMMA OnlyServerStep ==
  ASSUME RInv, NEW c \in Callers, OnlyServer(c), UNCHANGED <<roundRobinVars, policy>>
  PROVE  RInv'
<1>1. servers[c] \in Lists /\ Len(servers[c]) = 1
  BY DEF RInv, RoutingTypeOK, OnlyServer
<1>2. {servers[c][1]} \in SUBSET URLs
  BY <1>1, RangeOfList
<1>3. next' \in 0 .. Modulus - 1 /\ turns' \in [1 .. Len(list) -> 0 .. MaxTurns]
      /\ irregular' \in 0 .. MaxTurns
  BY DEF RInv, RoutingTypeOK, roundRobinVars
<1> QED
  BY <1>2, <1>3, ReturnStep DEF OnlyServer

LEMMA PickTwoStep ==
  ASSUME RInv, NEW c \in Callers, PickTwo(c), UNCHANGED <<roundRobinVars, policy>>
  PROVE  RInv'
<1> DEFINE s == servers[c]
<1>1. s \in Lists /\ Len(s) > 1
  BY DEF RInv, RoutingTypeOK, PickTwo
<1>2. PICK i \in 1 .. Len(s), j \in 1 .. Len(s) - 1 :
        choice' = [choice EXCEPT ![c] =
          [first |-> {s[i]}, second |-> {s[Other(i, j)]}, load |-> conns[s[i]]]]
  BY DEF PickTwo
<1> DEFINE x == s[i]
           y == s[Other(i, j)]
<1>3. x \in Range(s) /\ y \in Range(s) /\ x # y /\ x \in URLs /\ y \in URLs
  <2>1. Len(s) \in Nat
    BY <1>1, RangeOfList
  <2>2. Other(i, j) \in 1 .. Len(s) /\ Other(i, j) # i
    BY <2>1, OtherIndex
  <2> QED
    BY <1>1, <2>2, RangeOfList
<1>4. choice' = [choice EXCEPT ![c] = [first |-> {x}, second |-> {y}, load |-> conns[x]]]
  BY <1>2
<1>5. /\ stage' = [stage EXCEPT ![c] = "picked"]
      /\ UNCHANGED <<list, servers, answer, conns, steady, roundRobinVars, policy>>
  BY DEF PickTwo
<1> HIDE DEF x, y, s
<1>6. RoutingTypeOK'
  BY <1>3, <1>4, <1>5 DEF RInv, RoutingTypeOK, roundRobinVars
<1>7. CallInv(c)'
  BY <1>3, <1>4, <1>5 DEF RInv, RoutingTypeOK, CallInv, Holds, s
<1>8. ASSUME NEW d \in Callers, d # c PROVE CallInv(d)'
  <2>1. Same(d)
    BY <1>4, <1>5, <1>8 DEF RInv, RoutingTypeOK, Same
  <2> QED
    BY <2>1, SameKeepsCall DEF RInv
<1> QED
  BY <1>6, <1>7, <1>8 DEF RInv

\* What Compare returns, out of the two entries held.
LEMMA Compared ==
  ASSUME RInv, NEW c \in Callers, Compare(c)
  PROVE  \E x \in Range(servers[c]), y \in Range(servers[c]) :
           /\ x # y /\ x \in URLs /\ y \in URLs
           /\ c \in steady => choice[c].load = conns[x]
           /\ Return(c, {IF choice[c].load <= conns[y] THEN x ELSE y})
<1>1. PICK x \in Range(servers[c]), y \in Range(servers[c]) :
        /\ x # y
        /\ choice[c].first = {x} /\ choice[c].second = {y}
        /\ c \in steady => choice[c].load = conns[x]
  BY DEF RInv, CallInv, Holds, Compare
<1>2. Return(c, IF choice[c].load <= conns[y] THEN choice[c].first ELSE choice[c].second)
  BY <1>1 DEF Compare
<1>3. servers[c] \in Lists
  BY DEF RInv, RoutingTypeOK
<1>4. x \in URLs /\ y \in URLs
  BY <1>3, RangeOfList
<1>5. Return(c, {IF choice[c].load <= conns[y] THEN x ELSE y})
  <2>1. CASE choice[c].load <= conns[y]
    BY <1>1, <1>2, <2>1
  <2>2. CASE ~(choice[c].load <= conns[y])
    BY <1>1, <1>2, <2>2
  <2> QED
    BY <2>1, <2>2
<1> QED
  BY <1>1, <1>4, <1>5

LEMMA CompareStep ==
  ASSUME RInv, NEW c \in Callers, Compare(c), UNCHANGED <<roundRobinVars, policy>>
  PROVE  RInv'
<1>1. PICK a \in SUBSET URLs : Return(c, a)
  BY Compared
<1>2. next' \in 0 .. Modulus - 1 /\ turns' \in [1 .. Len(list) -> 0 .. MaxTurns]
      /\ irregular' \in 0 .. MaxTurns
  BY DEF RInv, RoutingTypeOK, roundRobinVars
<1> QED
  BY <1>1, <1>2, ReturnStep DEF Compare

\* What a call of the weighted policy returns comes from its list.
LEMMA WeightedReturns ==
  ASSUME RInv, NEW c \in Callers, WeightedCall(c)
  PROVE  \E u \in Range(servers[c]) : u \in URLs /\ Return(c, {u})
<1>1. PICK u \in URLs : GetTarget(Range(servers[c]), u) /\ Return(c, {u})
  BY DEF WeightedCall
<1>2. u \in Range(servers[c])
  BY <1>1 DEF GetTarget, InStock
<1> QED
  BY <1>1, <1>2

LEMMA WeightedStep ==
  ASSUME RInv, NEW c \in Callers, WeightedCall(c), UNCHANGED policy
  PROVE  RInv'
<1>1. PICK a \in SUBSET URLs : Return(c, a)
  BY WeightedReturns
<1>2. /\ next' \in 0 .. Modulus - 1 /\ turns' \in [1 .. Len(list) -> 0 .. MaxTurns]
      /\ irregular' \in 0 .. MaxTurns
  BY DEF RInv, RoutingTypeOK, WeightedCall, roundRobinVars
<1>3. steady' \subseteq steady /\ conns' = conns /\ choice' = choice
  BY DEF WeightedCall
<1> QED
  BY <1>1, <1>2, <1>3, ReturnStep

\* The environment: the pool's list and the counters.
LEMMA EnvironmentStep ==
  ASSUME RInv, UNCHANGED policy,
         \/ ListChanges
         \/ \E u \in URLs : ConnectionsChange(u) /\ UNCHANGED roundRobinVars
  PROVE  RInv'
<1>1. CASE ListChanges
  <2>1. list' \in Lists
    BY <1>1 DEF ListChanges
  <2>2. turns' \in [1 .. Len(list') -> 0 .. MaxTurns] /\ irregular' \in 0 .. MaxTurns
    BY <1>1, MaxTurnsAssumption DEF ListChanges, NoTurns
  <2>3. UNCHANGED <<stage, servers, answer, next, conns, choice, steady>>
    BY <1>1 DEF ListChanges, leastConnectionsVars
  <2>4. RoutingTypeOK'
    BY <2>1, <2>2, <2>3 DEF RInv, RoutingTypeOK
  <2>5. \A d \in Callers : CallInv(d)'
    BY <2>3, SameKeepsCall DEF RInv, Same
  <2> QED
    BY <2>4, <2>5 DEF RInv
<1>2. ASSUME NEW u \in URLs, ConnectionsChange(u), UNCHANGED roundRobinVars PROVE RInv'
  <2>1. steady' = {} /\ UNCHANGED <<list, stage, servers, answer, choice, roundRobinVars>>
    BY <1>2 DEF ConnectionsChange
  <2>2. conns' \in [URLs -> Loads]
    BY <1>2 DEF ConnectionsChange, RInv, RoutingTypeOK
  <2>3. RoutingTypeOK'
    BY <2>1, <2>2 DEF RInv, RoutingTypeOK, roundRobinVars
  <2>4. \A d \in Callers : CallInv(d)'
    BY <2>1, SameKeepsCall DEF RInv, Same
  <2> QED
    BY <2>3, <2>4 DEF RInv
<1> QED
  BY <1>1, <1>2

LEMMA RInvStep == RInv /\ [Next]_vars => RInv'
<1> SUFFICES ASSUME RInv, [Next]_vars PROVE RInv'
  OBVIOUS
<1>1. CASE UNCHANGED vars
  BY <1>1 DEF vars, selectionVars, roundRobinVars, leastConnectionsVars, RInv, RoutingTypeOK,
              CallInv, Holds
<1>2. CASE Next
  <2> USE <1>2 DEF Next
  <2>1. UNCHANGED policy
    OBVIOUS
  <2>2. ASSUME NEW c \in Callers, StartCall(c) PROVE RInv'
    BY <2>1, <2>2, StartCallStep
  <2>3. ASSUME NEW c \in Callers, FailCall(c) PROVE RInv'
    BY <2>1, <2>3, FailCallStep
  <2>4. ASSUME NEW c \in Callers, RoundRobinCall(c) PROVE RInv'
    BY <2>1, <2>4, RoundRobinStep
  <2>5. ASSUME NEW c \in Callers, LeastConnectionsCall(c) PROVE RInv'
    BY <2>1, <2>5, OnlyServerStep, PickTwoStep, CompareStep DEF LeastConnectionsCall
  <2>6. ASSUME ListChanges PROVE RInv'
    BY <2>1, <2>6, EnvironmentStep
  <2>7. ASSUME NEW u \in URLs, ConnectionsChange(u) /\ UNCHANGED roundRobinVars PROVE RInv'
    BY <2>1, <2>7, EnvironmentStep
  <2>8. ASSUME NEW c \in Callers, WeightedCall(c) PROVE RInv'
    BY <2>1, <2>8, WeightedStep
  <2> QED
    BY <2>2, <2>3, <2>4, <2>5, <2>6, <2>7, <2>8
<1> QED
  BY <1>1, <1>2

LEMMA RInvAlways == Spec => []RInv
BY RInvInit, RInvStep, PTL DEF Spec

(***************************************************************************)
(* Every list that a caller holds is one that GetHealthy returned, every   *)
(* answer is a backend, and the ticket counter stays within its width,     *)
(* whatever the pool does between the steps of a call.                     *)
(***************************************************************************)
THEOREM RoutingTypeCorrect == Spec => []RoutingTypeOK
BY RInvAlways, PTL DEF RInv

(***************************************************************************)
(* GetTarget of least connections never returns the busiest backend of its *)
(* list when the counters stood still during the call.                     *)
(***************************************************************************)
LEMMA BusiestSparedStep ==
  ASSUME RInv, [Next]_vars, NEW c \in Callers,
         stage[c] = "picked", stage'[c] = "returned", c \in steady,
         NEW a \in answer'
  PROVE  \E u \in Range(servers[c]) \ {a} : conns[a] <= conns[u]
<1> USE DEF RInv, RoutingTypeOK
<1>1. Compare(c)
  <2>1. stage'[c] # stage[c] /\ c \in DOMAIN stage
    OBVIOUS
  <2>2. \A d \in Callers : ~StartCall(c) /\ ~FailCall(c) /\ ~RoundRobinCall(c)
    BY DEF StartCall, GetHealthy, FailCall, NoneHealthy, RoundRobinCall, RoundRobinTarget
  <2>3. ~OnlyServer(c) /\ ~PickTwo(c)
    BY DEF OnlyServer, PickTwo
  <2>4. ASSUME NEW d \in Callers, d # c,
               StartCall(d) \/ FailCall(d) \/ RoundRobinCall(d) \/ LeastConnectionsCall(d)
        PROVE  FALSE
    <3>1. ~StartCall(d) /\ ~FailCall(d)
      BY <2>1, <2>4 DEF StartCall, GetHealthy, FailCall, NoneHealthy, Return
    <3>2. ~RoundRobinCall(d)
      BY <2>1, <2>4 DEF RoundRobinCall, RoundRobinTarget, Return
    <3>3. ~OnlyServer(d) /\ ~PickTwo(d)
      BY <2>1, <2>4 DEF OnlyServer, PickTwo, Return
    <3>4. ASSUME Compare(d) PROVE FALSE
      <4>1. PICK b : Return(d, b)
        BY <3>4, Compared
      <4> QED
        BY <4>1, <2>1, <2>4 DEF Return
    <3> QED
      BY <3>1, <3>2, <3>3, <3>4, <2>4 DEF LeastConnectionsCall
  <2>5. ~ListChanges /\ \A u \in URLs : ~ConnectionsChange(u)
    BY <2>1 DEF ListChanges, ConnectionsChange
  <2>6. ~UNCHANGED selectionVars
    BY <2>1 DEF selectionVars
  <2>7. ASSUME NEW d \in Callers, WeightedCall(d) PROVE FALSE
    <3>1. stage[d] = "listed" /\ stage' = [stage EXCEPT ![d] = "returned"]
      BY <2>7 DEF WeightedCall, Return
    <3> QED
      BY <2>1, <3>1
  <2> QED
    BY <2>2, <2>3, <2>4, <2>5, <2>6, <2>7 DEF Next, vars, LeastConnectionsCall
<1>2. PICK x \in Range(servers[c]), y \in Range(servers[c]) :
        /\ x # y /\ x \in URLs /\ y \in URLs
        /\ choice[c].load = conns[x]
        /\ Return(c, {IF choice[c].load <= conns[y] THEN x ELSE y})
  BY <1>1, Compared
<1>3. a = IF conns[x] <= conns[y] THEN x ELSE y
  BY <1>2 DEF Return
<1>4. conns[x] \in Int /\ conns[y] \in Int
  BY <1>2, LoadsAssumption
<1> QED
  BY <1>2, <1>3, <1>4

THEOREM BusiestIsSpared == Spec => BusiestSpared
<1>1. RInv /\ [Next]_vars =>
        [\A c \in Callers :
           (stage[c] = "picked" /\ stage'[c] = "returned" /\ c \in steady) =>
             \A a \in answer' : \E u \in Range(servers[c]) \ {a} : conns[a] <= conns[u]]_vars
  BY BusiestSparedStep
<1> QED
  BY <1>1, RInvAlways, PTL DEF Spec, BusiestSpared

-----------------------------------------------------------------------------
LEMMA ContractInit == Init => Contract!Init
BY RangeOfList, ListsAssumption DEF Init, SelectionInit, Contract!Init

\* A return from a caller's list is one of the contract.
LEMMA ContractReturn ==
  ASSUME RInv, NEW c \in Callers, NEW a, Return(c, a), stage[c] # "returned"
  PROVE  Contract!Return(c, a)
<1> USE DEF Return, RInv, RoutingTypeOK
<1>1. {d \in Callers : stage'[d] # "returned"} = {d \in Callers : stage[d] # "returned"} \ {c}
  OBVIOUS
<1>2. [d \in Callers |-> Range(servers'[d])]
        = [[d \in Callers |-> Range(servers[d])] EXCEPT ![c] = {}]
  BY RangeOfList, ListsAssumption
<1>3. Range(list') = Range(list) /\ answer' = a
  OBVIOUS
<1> QED
  BY <1>1, <1>2, <1>3 DEF Contract!Return

LEMMA ContractAnswer ==
  ASSUME RInv, NEW c \in Callers, NEW u \in Range(servers[c]), Return(c, {u}),
         stage[c] # "returned"
  PROVE  Contract!Next
<1>1. Contract!Return(c, {u})
  BY ContractReturn
<1>2. Contract!Answer(c)
  BY <1>1 DEF Contract!Answer
<1> QED
  BY <1>2 DEF Contract!Next

LEMMA ContractStep ==
  ASSUME RInv, [Next]_vars
  PROVE  [Contract!Next]_<<Range(list), [c \in Callers |-> Range(servers[c])],
                           {c \in Callers : stage[c] # "returned"}, answer>>
<1> DEFINE cvars == <<Range(list), [c \in Callers |-> Range(servers[c])],
                      {c \in Callers : stage[c] # "returned"}, answer>>
<1>1. \A c \in Callers : servers[c] \in Lists /\ stage[c] \in {"returned", "listed", "picked"}
  BY DEF RInv, RoutingTypeOK
<1>2. ASSUME UNCHANGED <<list, servers, stage, answer>> PROVE UNCHANGED cvars
  BY <1>2
<1>3. ASSUME NEW c \in Callers, StartCall(c) PROVE Contract!Next
  <2> USE <1>3 DEF StartCall, GetHealthy, RInv, RoutingTypeOK
  <2>1. /\ c \notin {d \in Callers : stage[d] # "returned"}
        /\ {d \in Callers : stage'[d] # "returned"} = {d \in Callers : stage[d] # "returned"} \cup {c}
    OBVIOUS
  <2>2. [d \in Callers |-> Range(servers'[d])]
          = [[d \in Callers |-> Range(servers[d])] EXCEPT ![c] = Range(list)]
    OBVIOUS
  <2>3. Contract!Ask(c)
    BY <2>1, <2>2 DEF Contract!Ask
  <2> QED
    BY <2>3 DEF Contract!Next
<1>4. ASSUME NEW c \in Callers, FailCall(c) PROVE Contract!Next
  <2>1. Return(c, {}) /\ stage[c] # "returned" /\ Range(servers[c]) = {}
    BY <1>1, <1>4, RangeOfList DEF FailCall, NoneHealthy
  <2>2. Contract!Error(c)
    BY <2>1, ContractReturn DEF Contract!Error
  <2> QED
    BY <2>2 DEF Contract!Next
<1>5. ASSUME NEW c \in Callers, RoundRobinCall(c) PROVE Contract!Next
  <2>1. /\ Return(c, {servers[c][Position(Len(servers[c]))]}) /\ stage[c] # "returned"
        /\ servers[c] # <<>>
    BY <1>5 DEF RoundRobinCall, RoundRobinTarget
  <2>2. Len(servers[c]) \in Nat /\ Len(servers[c]) # 0
    BY <1>1, <2>1, RangeOfList
  <2>3. Position(Len(servers[c])) \in 1 .. Len(servers[c])
    BY <2>2, PositionInList DEF RInv, RoutingTypeOK
  <2>4. servers[c][Position(Len(servers[c]))] \in Range(servers[c])
    BY <1>1, <2>3, RangeOfList
  <2> QED
    BY <2>1, <2>4, ContractAnswer
<1>6. ASSUME NEW c \in Callers, OnlyServer(c) PROVE Contract!Next
  <2>1. servers[c][1] \in Range(servers[c])
    BY <1>1, <1>6, RangeOfList DEF OnlyServer
  <2> QED
    BY <1>6, <2>1, ContractAnswer DEF OnlyServer
<1>7. ASSUME NEW c \in Callers, PickTwo(c) PROVE UNCHANGED cvars
  <2>1. UNCHANGED <<list, servers, answer>>
    BY <1>7 DEF PickTwo
  <2>2. {d \in Callers : stage'[d] # "returned"} = {d \in Callers : stage[d] # "returned"}
    BY <1>7 DEF PickTwo, RInv, RoutingTypeOK
  <2> QED
    BY <2>1, <2>2
<1>8. ASSUME NEW c \in Callers, Compare(c) PROVE Contract!Next
  <2>1. PICK u \in Range(servers[c]) : Return(c, {u})
    BY <1>8, Compared
  <2> QED
    BY <1>8, <2>1, ContractAnswer DEF Compare
<1>9. ASSUME ListChanges PROVE Contract!Next
  <2>1. Range(list') \in SUBSET URLs
    BY <1>9, RangeOfList DEF ListChanges
  <2>2. UNCHANGED <<stage, servers, answer>>
    BY <1>9 DEF ListChanges
  <2>3. Contract!HealthChanges
    BY <2>1, <2>2 DEF Contract!HealthChanges
  <2> QED
    BY <2>3 DEF Contract!Next
<1>10. ASSUME NEW u \in URLs, ConnectionsChange(u) PROVE UNCHANGED cvars
  BY <1>10, <1>2 DEF ConnectionsChange
<1>11. ASSUME NEW c \in Callers, WeightedCall(c) PROVE Contract!Next
  <2>1. PICK u \in Range(servers[c]) : Return(c, {u})
    BY <1>11, WeightedReturns
  <2> QED
    BY <1>11, <2>1, ContractAnswer DEF WeightedCall
<1>12. ASSUME UNCHANGED selectionVars PROVE UNCHANGED cvars
  BY <1>12, <1>2 DEF selectionVars
<1> HIDE DEF cvars
<1>13. Contract!Next \/ UNCHANGED cvars
  BY <1>3, <1>4, <1>5, <1>6, <1>7, <1>8, <1>9, <1>10, <1>11, <1>12
     DEF Next, vars, LeastConnectionsCall
<1> QED
  BY <1>13 DEF cvars

(***************************************************************************)
(* The three policies implement the Rule interface, each step of theirs a  *)
(* step of the contract or none: every call returns a backend that was     *)
(* healthy when it looked, or an error if there was none, for any number   *)
(* of callers and any changes of the pool meanwhile.  The weighted policy  *)
(* keeps stocks of backends that are no longer healthy, and returns none   *)
(* of these, with a refill or without.                                     *)
(***************************************************************************)
THEOREM ContractIsMet == Spec => MeetsContract
BY RInvAlways, ContractInit, ContractStep, PTL DEF Spec, MeetsContract, Contract!Spec

-----------------------------------------------------------------------------
(***************************************************************************)
(* Round robin is even.  EvenTurns alone does not survive a step: one has  *)
(* to know which positions are ahead.  Until(k) is the number of tickets   *)
(* until position k has its turn; a position that has just had one waits   *)
(* longest.  Who waits longer may be one turn ahead, nobody else may, up   *)
(* to what the irregular tickets shift.                                    *)
(***************************************************************************)
Ahead(k, first, n) == IF k > first THEN k - 1 - first ELSE k - 1 - first + n

Until(k) == Ahead(k, next % Len(list), Len(list))

Balanced ==
  \A j, k \in DOMAIN turns :
    turns[j] <= turns[k] + irregular + (IF Until(j) > Until(k) THEN 1 ELSE 0)

\* The next ticket reduces to the next position, and to the first after the last.
LEMMA NextPosition ==
  ASSUME NEW n \in Nat, n # 0, NEW t \in Nat
  PROVE  /\ t % n \in 0 .. n - 1
         /\ (t + 1) % n = IF (t % n) + 1 = n THEN 0 ELSE (t % n) + 1
<1> DEFINE q == t \div n
           r == t % n
           q1 == (t + 1) \div n
           r1 == (t + 1) % n
<1>1. t = n * q + r /\ r \in 0 .. n - 1 /\ q \in Nat
  OBVIOUS
<1>2. t + 1 = n * q1 + r1 /\ r1 \in 0 .. n - 1 /\ q1 \in Nat
  OBVIOUS
<1> HIDE DEF q, r, q1, r1
<1>3. n * (q1 - q) = r + 1 - r1
  BY <1>1, <1>2
<1>4. q1 - q = 0 \/ q1 - q = 1
  BY <1>1, <1>2, <1>3
<1>5. r1 = IF r + 1 = n THEN 0 ELSE r + 1
  BY <1>1, <1>2, <1>3, <1>4
<1> QED
  BY <1>1, <1>5 DEF r, r1

\* A ticket brings everybody's turn nearer by one, but for the one whose turn it was.
LEMMA AheadMoves ==
  ASSUME NEW n \in Nat, n # 0, NEW first \in 0 .. n - 1, NEW k \in 1 .. n
  PROVE  /\ Ahead(k, first, n) \in 0 .. n - 1
         /\ Ahead(k, first, n) = 0 <=> k = first + 1
         /\ Ahead(k, IF first + 1 = n THEN 0 ELSE first + 1, n) =
              IF k = first + 1 THEN n - 1 ELSE Ahead(k, first, n) - 1
BY DEF Ahead

\* One pair of positions, before and after a ticket: t the turns, u the waits, i
\* the irregular tickets, m whether this one counts as irregular.
LEMMA PairStaysBalanced ==
  ASSUME NEW n \in Nat, NEW i \in Nat, NEW m \in Nat,
         NEW tj \in Nat, NEW tk \in Nat, NEW uj \in 0 .. n - 1, NEW uk \in 0 .. n - 1,
         NEW tj1 \in Nat, NEW tk1 \in Nat, NEW uj1 \in Int, NEW uk1 \in Int,
         tj <= tk + i + (IF uj > uk THEN 1 ELSE 0),
         \/ /\ m = 0
            /\ tj1 = tj + (IF uj = 0 THEN 1 ELSE 0) /\ tk1 = tk + (IF uk = 0 THEN 1 ELSE 0)
         \/ m = 1 /\ tj1 = tj /\ tk1 = tk,
         uj1 = IF uj = 0 THEN n - 1 ELSE uj - 1, uk1 = IF uk = 0 THEN n - 1 ELSE uk - 1
  PROVE  tj1 <= tk1 + (i + m) + (IF uj1 > uk1 THEN 1 ELSE 0)
OBVIOUS

\* Below the modulus the counter just counts.
LEMMA NoWrap ==
  ASSUME NEW n \in Nat, NEW t \in Nat, t < n
  PROVE  t % n = t
<1> DEFINE q == t \div n
           r == t % n
<1>1. t = n * q + r /\ r \in 0 .. n - 1 /\ q \in Nat
  OBVIOUS
<1> HIDE DEF q, r
<1>2. q = 0
  <2>1. n * q < n
    BY <1>1
  <2> QED
    BY <1>1, <2>1
<1>3. r = t
  BY <1>1, <1>2
<1> QED
  BY <1>3 DEF r

LEMMA BalancedTicket ==
  ASSUME RInv, Balanced, NEW c \in Callers, RoundRobinTarget(c)
  PROVE  Balanced'
<1> DEFINE n == Len(list)
           first == next % n
           inTurn == servers[c] = list
           wrap == next + 1 = Modulus
<1>1. /\ list' = list /\ n \in Nat /\ next \in Nat /\ next < Modulus /\ Modulus \in Nat
      /\ turns \in [1 .. n -> Nat] /\ irregular \in Nat
  <2>1. list \in Lists /\ next \in 0 .. Modulus - 1 /\ irregular \in Nat
        /\ turns \in [1 .. Len(list) -> 0 .. MaxTurns] /\ Modulus \in Nat
    BY ModulusAssumption, MaxTurnsAssumption DEF RInv, RoutingTypeOK
  <2>2. turns \in [1 .. n -> Nat]
    BY <2>1, MaxTurnsAssumption
  <2> QED
    BY <2>1, <2>2, RangeOfList DEF RoundRobinTarget, Return
<1>2. DOMAIN turns' = 1 .. n
  BY <1>1 DEF RoundRobinTarget
<1> SUFFICES ASSUME NEW j \in 1 .. n, NEW k \in 1 .. n
             PROVE  turns'[j] <= turns'[k] + irregular'
                                   + (IF Until(j)' > Until(k)' THEN 1 ELSE 0)
  BY <1>2 DEF Balanced
<1>3. n # 0 /\ first \in 0 .. n - 1
  <2>1. n # 0
    BY <1>1
  <2> QED
    BY <1>1, <2>1, NextPosition
<1>4. irregular' = irregular + (IF inTurn THEN 0 ELSE 1) + (IF wrap THEN 1 ELSE 0)
  BY DEF RoundRobinTarget
<1>5. ASSUME inTurn
      PROVE  /\ turns'[j] = IF j = first + 1 THEN turns[j] + 1 ELSE turns[j]
             /\ turns'[k] = IF k = first + 1 THEN turns[k] + 1 ELSE turns[k]
  <2>1. turns' = [turns EXCEPT ![first + 1] = @ + 1]
    BY <1>5 DEF RoundRobinTarget, Position
  <2> QED
    BY <2>1, <1>1
<1>6. ASSUME ~inTurn PROVE turns'[j] = turns[j] /\ turns'[k] = turns[k]
  BY <1>6 DEF RoundRobinTarget
<1>7. /\ turns[j] <= turns[k] + irregular + (IF Until(j) > Until(k) THEN 1 ELSE 0)
      /\ turns[j] \in Nat /\ turns[k] \in Nat
  BY <1>1 DEF Balanced
<1>8. /\ Until(j) \in 0 .. n - 1 /\ (Until(j) = 0 <=> j = first + 1)
      /\ Until(k) \in 0 .. n - 1 /\ (Until(k) = 0 <=> k = first + 1)
  BY <1>1, <1>3, AheadMoves DEF Until
<1>9. ASSUME ~wrap
      PROVE  /\ Until(j)' = IF j = first + 1 THEN n - 1 ELSE Until(j) - 1
             /\ Until(k)' = IF k = first + 1 THEN n - 1 ELSE Until(k) - 1
  <2>1. next' = next + 1
    <3>1. next + 1 \in Nat /\ next + 1 < Modulus
      BY <1>1, <1>9
    <3>2. next' = (next + 1) % Modulus
      BY DEF RoundRobinTarget, AddUint64
    <3> QED
      BY <1>1, <3>1, <3>2, NoWrap
  <2>2. next' % n = IF first + 1 = n THEN 0 ELSE first + 1
    BY <1>1, <1>3, <2>1, NextPosition
  <2>3. /\ Until(j)' = Ahead(j, next' % n, n) /\ Until(j) = Ahead(j, first, n)
        /\ Until(k)' = Ahead(k, next' % n, n) /\ Until(k) = Ahead(k, first, n)
    BY <1>1 DEF Until
  <2> HIDE DEF n, first
  <2> QED
    BY <1>1, <1>3, <2>2, <2>3, AheadMoves
<1> DEFINE uj == Until(j)
           uk == Until(k)
           uj1 == Until(j)'
           uk1 == Until(k)'
           late == IF inTurn THEN 0 ELSE 1
<1>10. /\ late \in {0, 1} /\ turns'[j] \in Nat /\ turns'[k] \in Nat
       /\ \/ /\ late = 0
             /\ turns'[j] = turns[j] + (IF uj = 0 THEN 1 ELSE 0)
             /\ turns'[k] = turns[k] + (IF uk = 0 THEN 1 ELSE 0)
          \/ late = 1 /\ turns'[j] = turns[j] /\ turns'[k] = turns[k]
  <2>1. CASE inTurn
    BY <1>5, <1>7, <1>8, <2>1
  <2>2. CASE ~inTurn
    BY <1>6, <1>7, <2>2
  <2> QED
    BY <2>1, <2>2
<1>11. irregular' = irregular + late + (IF wrap THEN 1 ELSE 0)
  BY <1>4
<1>12. turns[j] <= turns[k] + irregular + (IF uj > uk THEN 1 ELSE 0)
  BY <1>7
<1>13. turns[j] \in Nat /\ turns[k] \in Nat /\ uj \in 0 .. n - 1 /\ uk \in 0 .. n - 1
  BY <1>7, <1>8
<1>14. ~wrap => /\ uj1 = IF uj = 0 THEN n - 1 ELSE uj - 1
                /\ uk1 = IF uk = 0 THEN n - 1 ELSE uk - 1
  BY <1>8, <1>9
<1> HIDE DEF n, first, inTurn, wrap, uj, uk, uj1, uk1, late
<1>15. CASE wrap
  <2>1. turns'[j] <= turns'[k] + irregular'
    BY <1>1, <1>10, <1>11, <1>12, <1>13, <1>15
  <2>2. irregular' \in Nat
    BY <1>1, <1>10, <1>11
  <2> DEFINE extra == IF Until(j)' > Until(k)' THEN 1 ELSE 0
  <2>3. extra \in {0, 1}
    OBVIOUS
  <2> HIDE DEF extra
  <2>4. turns'[j] <= turns'[k] + irregular' + extra
    BY <1>10, <2>1, <2>2, <2>3
  <2> QED
    BY <2>4 DEF extra
<1>16. CASE ~wrap
  <2>1. irregular' = irregular + late
    BY <1>1, <1>10, <1>11, <1>16
  <2>2. uj1 \in Int /\ uk1 \in Int
    BY <1>1, <1>13, <1>14, <1>16
  <2>3. turns'[j] <= turns'[k] + irregular' + (IF uj1 > uk1 THEN 1 ELSE 0)
    <3>1. n \in Nat /\ irregular \in Nat /\ late \in Nat /\ turns'[j] \in Nat /\ turns'[k] \in Nat
      BY <1>1, <1>10
    <3>2. /\ uj1 = IF uj = 0 THEN n - 1 ELSE uj - 1
          /\ uk1 = IF uk = 0 THEN n - 1 ELSE uk - 1
      BY <1>14, <1>16
    <3>3. turns'[j] <= turns'[k] + (irregular + late) + (IF uj1 > uk1 THEN 1 ELSE 0)
      BY <1>10, <1>12, <1>13, <2>2, <3>1, <3>2, PairStaysBalanced
    <3> QED
      BY <2>1, <3>3
  <2> QED
    BY <2>3 DEF uj1, uk1
<1> QED
  BY <1>15, <1>16

LEMMA BalancedStep == RInv /\ Balanced /\ [Next]_vars => Balanced'
<1> SUFFICES ASSUME RInv, Balanced, [Next]_vars PROVE Balanced'
  OBVIOUS
<1>1. CASE UNCHANGED <<list, roundRobinVars>>
  BY <1>1 DEF roundRobinVars, Balanced, Until
<1>2. CASE ListChanges
  <2>1. DOMAIN turns' = 1 .. Len(list') /\ \A k \in DOMAIN turns' : turns'[k] = 0
    BY <1>2 DEF ListChanges, NoTurns
  <2>2. irregular' = 0
    BY <1>2 DEF ListChanges
  <2> QED
    BY <2>1, <2>2 DEF Balanced
<1>3. ASSUME NEW c \in Callers, RoundRobinCall(c) PROVE Balanced'
  BY <1>3, BalancedTicket DEF RoundRobinCall
<1>4. ASSUME NEW c \in Callers, StartCall(c) \/ FailCall(c) PROVE UNCHANGED <<list, roundRobinVars>>
  BY <1>4 DEF StartCall, FailCall, GetHealthy, NoneHealthy, Return
<1>5. ASSUME NEW c \in Callers, LeastConnectionsCall(c) PROVE UNCHANGED <<list, roundRobinVars>>
  <2>1. CASE Compare(c)
    BY <1>5, <2>1, Compared DEF LeastConnectionsCall, Return
  <2> QED
    BY <1>5, <2>1 DEF LeastConnectionsCall, OnlyServer, PickTwo, Return
<1>6. ASSUME NEW u \in URLs, ConnectionsChange(u) /\ UNCHANGED roundRobinVars
      PROVE  UNCHANGED <<list, roundRobinVars>>
  BY <1>6 DEF ConnectionsChange
<1>7. ASSUME NEW c \in Callers, WeightedCall(c) PROVE UNCHANGED <<list, roundRobinVars>>
  BY <1>7 DEF WeightedCall, Return
<1>8. UNCHANGED vars => UNCHANGED <<list, roundRobinVars>>
  BY DEF vars, selectionVars
<1> QED
  BY <1>1, <1>2, <1>3, <1>4, <1>5, <1>6, <1>7, <1>8 DEF Next

(***************************************************************************)
(* While the healthy list stays as it is, no backend gets more than one    *)
(* turn more than another, but for the tickets of callers with an older    *)
(* list and the wraps of the counter: for any number of callers, any list  *)
(* and any width of the counter.                                           *)
(***************************************************************************)
THEOREM TurnsAreEven == Spec => []EvenTurns
<1>1. Init => Balanced
  <2> SUFFICES ASSUME Init PROVE Balanced
    OBVIOUS
  <2>1. irregular = 0 /\ \A k \in DOMAIN turns : turns[k] = 0
    BY DEF Init, RoundRobinInit, NoTurns
  <2> QED
    BY <2>1 DEF Balanced
<1>2. RInv /\ Balanced => EvenTurns
  <2> SUFFICES ASSUME RInv, Balanced, NEW j \in DOMAIN turns, NEW k \in DOMAIN turns
               PROVE  turns[j] <= turns[k] + 1 + irregular
    BY DEF EvenTurns
  <2>1. turns[j] \in Int /\ turns[k] \in Int /\ irregular \in Int
    BY MaxTurnsAssumption DEF RInv, RoutingTypeOK
  <2>2. turns[j] <= turns[k] + irregular + (IF Until(j) > Until(k) THEN 1 ELSE 0)
    BY DEF Balanced
  <2> QED
    BY <2>1, <2>2
<1> QED
  BY <1>1, <1>2, RInvAlways, BalancedStep, PTL DEF Spec

-----------------------------------------------------------------------------
(***************************************************************************)
(* What the calls do to the table of stocks is what Weighted says: the     *)
(* callers, the lock and the lists that they get are one way to choose     *)
(* its healthy sets and its picks.                                         *)
(***************************************************************************)
THEOREM StocksAreWeighted == Spec => WeightedSpec
<1>1. Init => WeightedInit
  BY DEF Init
<1>2. RInv /\ [Next]_vars => [WeightedNext]_weightedVars
  <2> SUFFICES ASSUME RInv, [Next]_vars PROVE WeightedNext \/ UNCHANGED weightedVars
    OBVIOUS
  <2>1. ASSUME NEW c \in Callers, WeightedCall(c) PROVE WeightedNext
    <3>1. Range(servers[c]) \in SUBSET URLs
      <4>1. servers[c] \in Lists
        BY DEF RInv, RoutingTypeOK
      <4> QED
        BY <4>1, RangeOfList
    <3>2. PICK u \in URLs : GetTarget(Range(servers[c]), u)
      BY <2>1 DEF WeightedCall
    <3> QED
      BY <3>1, <3>2 DEF WeightedNext
  <2> QED
    BY <2>1 DEF Next, vars
<1> QED
  BY <1>1, <1>2, RInvAlways, PTL DEF Spec, WeightedSpec

(***************************************************************************)
(* So a load balancer with the weighted policy shares its requests out by  *)
(* the weights, with stocks that never leave their range.                  *)
(***************************************************************************)
THEOREM RoutingIsProportional ==
  Spec => [](WeightedTypeOK /\ RemainingInRange /\ ProportionalShare)
BY StocksAreWeighted, WeightedTypeCorrect, StockInRange, SharesAreProportional, PTL

=============================================================================
