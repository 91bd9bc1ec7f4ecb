------------------------------ MODULE Selection -----------------------------
(***************************************************************************)
(* What the policies have in common: a call of GetTarget asks the pool for *)
(* its healthy entries and works on that list, while watchers and health   *)
(* reports change the pool's own.                                          *)
(***************************************************************************)
EXTENDS Integers, Sequences, Functions

CONSTANT Callers    \* the goroutines that call GetTarget, one call after the other

VARIABLES
  list,     \* the healthy entries of the pool, in its order
  stage,    \* per caller: no call; has its list; has read the first counter
  servers,  \* per running call, the list it got
  answer    \* what the call that returned last got: a backend, or nothing, an error

selectionVars == <<list, stage, servers, answer>>

SelectionInit ==
  /\ stage = [c \in Callers |-> "returned"]
  /\ servers = [c \in Callers |-> <<>>]
  /\ answer = {}

GetHealthy(c) ==
  /\ stage[c] = "returned"
  /\ stage' = [stage EXCEPT ![c] = "listed"]
  /\ servers' = [servers EXCEPT ![c] = list]
  /\ UNCHANGED <<list, answer>>

Return(c, a) ==
  /\ stage' = [stage EXCEPT ![c] = "returned"]
  /\ servers' = [servers EXCEPT ![c] = <<>>]
  /\ answer' = a
  /\ UNCHANGED list

\* Mutant of NoneHealthy: no choice is taken for no backend.
NoneHealthy_OrOne(c) ==
  stage[c] = "listed" /\ Len(servers[c]) <= 1 /\ Return(c, {})

NoneHealthy(c) ==
  stage[c] = "listed" /\ servers[c] = <<>> /\ Return(c, {})

=============================================================================
