-------------------------- MODULE LeastConnections --------------------------
(***************************************************************************)
(* internal/algorithms/LeastConnections.go: power of two choices.  Two     *)
(* entries of the list are picked at random and their counters are read    *)
(* one after the other, while the requests of others change them.          *)
(***************************************************************************)
EXTENDS Selection

CONSTANT Loads    \* values that ActiveConnections takes

ASSUME LoadsAssumption == 0 \in Loads /\ Loads \subseteq Int

VARIABLES
  conns,    \* ActiveConnections of each backend
  choice,   \* per caller: the two that it picked and the counter of the first
  steady    \* history: the callers during whose call no counter has changed

leastConnectionsVars == <<conns, choice, steady>>

\* No backend is picked yet: both sets are empty.
NoChoice == [first |-> {}, second |-> {}, load |-> 0]

\* Mutant of Other: the second index is not shifted past the first.
Other_Same(i, j) == j

\* rand.Intn(len - 1) and j++: any index but i.
Other(i, j) == IF j >= i THEN j + 1 ELSE j

OnlyServer(c) ==
  /\ stage[c] = "listed" /\ Len(servers[c]) = 1
  /\ Return(c, {servers[c][1]})
  /\ steady' = steady \ {c}
  /\ UNCHANGED <<conns, choice>>

PickTwo(c) ==
  /\ stage[c] = "listed" /\ Len(servers[c]) > 1
  /\ \E i \in 1 .. Len(servers[c]), j \in 1 .. Len(servers[c]) - 1 :
       LET one == servers[c][i]
           two == servers[c][Other(i, j)]
       IN  choice' = [choice EXCEPT ![c] = [first |-> {one}, second |-> {two}, load |-> conns[one]]]
  /\ stage' = [stage EXCEPT ![c] = "picked"]
  /\ UNCHANGED <<list, servers, answer, conns, steady>>

Compare(c) ==
  /\ stage[c] = "picked"
  /\ \A b \in choice[c].second :
       Return(c, IF choice[c].load <= conns[b] THEN choice[c].first ELSE choice[c].second)
  /\ choice' = [choice EXCEPT ![c] = NoChoice]
  /\ steady' = steady \ {c}
  /\ UNCHANGED conns

\* The requests that were routed before begin and end.
ConnectionsChange(u) ==
  /\ \E n \in Loads \ {conns[u]} : conns' = [conns EXCEPT ![u] = n]
  /\ steady' = {}
  /\ UNCHANGED <<list, stage, servers, answer, choice>>

=============================================================================
