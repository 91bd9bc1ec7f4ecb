------------------------------- MODULE Routing ------------------------------
(***************************************************************************)
(* The routing policy of a load balancer: cmd/lb takes one of the three by *)
(* the configuration.  Each works on the list that the caller got, while   *)
(* the pool changes.  Round robin and least connections make one access to *)
(* shared state at a time; a call of the weighted policy takes the mutex   *)
(* before it asks for the list and keeps it until it returns, so all that  *)
(* it does to the stocks is one step (see Weighted).                       *)
(***************************************************************************)
EXTENDS RoundRobin, LeastConnections, Weighted

CONSTANT Lists    \* the lists that GetHealthy returns: no backend is in one twice

ASSUME ListsAssumption ==
  /\ <<>> \in Lists
  /\ \A l \in Lists : l \in Seq(URLs) /\ IsInjective(l)

VARIABLE policy   \* config.AppConfig.Route.Policy

vars == <<policy, selectionVars, roundRobinVars, leastConnectionsVars, weightedVars>>

RoutingTypeOK ==
  /\ policy \in {"round-robin", "least-connections", "weighted"}
  /\ list \in Lists
  /\ stage \in [Callers -> {"returned", "listed", "picked"}]
  /\ servers \in [Callers -> Lists]
  /\ answer \in SUBSET URLs
  /\ next \in 0 .. Modulus - 1
  /\ turns \in [1 .. Len(list) -> 0 .. MaxTurns] /\ irregular \in 0 .. MaxTurns
  /\ conns \in [URLs -> Loads]
  /\ choice \in [Callers -> [first : SUBSET URLs, second : SUBSET URLs, load : Loads]]
  /\ steady \subseteq Callers

\* The pool is empty at first.
Init ==
  /\ policy \in {"round-robin", "least-connections", "weighted"}
  /\ list = <<>>
  /\ SelectionInit
  /\ RoundRobinInit
  /\ conns = [u \in URLs |-> 0]
  /\ choice = [c \in Callers |-> NoChoice]
  /\ steady = {}
  /\ WeightedInit

-----------------------------------------------------------------------------
\* The lookup, with the two histories that begin there.
StartCall(c) ==
  /\ GetHealthy(c)
  /\ steady' = steady \cup {c}
  /\ UNCHANGED <<roundRobinVars, conns, choice>>

FailCall(c) ==
  /\ NoneHealthy(c)
  /\ steady' = steady \ {c}
  /\ UNCHANGED <<roundRobinVars, conns, choice>>

\* A reconciliation or a health report: members and order may change.
ListChanges ==
  /\ list' \in Lists \ {list}
  /\ turns' = NoTurns(list')
  /\ irregular' = 0
  /\ UNCHANGED <<stage, servers, answer, next, leastConnectionsVars>>

RoundRobinCall(c) ==
  /\ RoundRobinTarget(c)
  /\ UNCHANGED leastConnectionsVars

LeastConnectionsCall(c) ==
  /\ OnlyServer(c) \/ PickTwo(c) \/ Compare(c)
  /\ UNCHANGED roundRobinVars

\* Weighted.mu is free: no call has looked up its list and not returned yet.
Unlocked == \A c \in Callers : stage[c] = "returned"

WeightedCall(c) ==
  /\ stage[c] = "listed" /\ servers[c] # <<>>
  /\ \E u \in URLs : GetTarget(Range(servers[c]), u) /\ Return(c, {u})
  /\ steady' = steady \ {c}
  /\ UNCHANGED <<roundRobinVars, conns, choice>>

Next ==
  /\ \/ /\ \/ \E c \in Callers : StartCall(c) /\ (policy = "weighted" => Unlocked)
           \/ \E c \in Callers : FailCall(c)
           \/ ListChanges
        /\ UNCHANGED weightedVars
     \/ /\ policy = "round-robin"
        /\ \E c \in Callers : RoundRobinCall(c)
        /\ UNCHANGED weightedVars
     \/ /\ policy = "least-connections"
        /\ \/ \E c \in Callers : LeastConnectionsCall(c)
           \/ \E u \in URLs : ConnectionsChange(u) /\ UNCHANGED roundRobinVars
        /\ UNCHANGED weightedVars
     \/ /\ policy = "weighted"
        /\ \E c \in Callers : WeightedCall(c)
  /\ UNCHANGED policy

Spec == Init /\ [][Next]_vars

-----------------------------------------------------------------------------
(***************************************************************************)
(* The contract of the Rule interface: whatever happens to the pool during *)
(* a call, it returns a backend that was healthy when it looked, and an    *)
(* error only if none was.                                                 *)
(***************************************************************************)
Contract == INSTANCE Rule WITH
  healthy <- Range(list),
  offered <- [c \in Callers |-> Range(servers[c])],
  calling <- {c \in Callers : stage[c] # "returned"}

MeetsContract == Contract!Spec

(***************************************************************************)
(* Least connections never returns the busiest of several backends, if no  *)
(* counter changed during the call: it compares two different ones.        *)
(***************************************************************************)
BusiestSpared ==
  [][\A c \in Callers :
       (stage[c] = "picked" /\ stage'[c] = "returned" /\ c \in steady) =>
         \A a \in answer' : \E u \in Range(servers[c]) \ {a} : conns[a] <= conns[u]]_vars

=============================================================================
