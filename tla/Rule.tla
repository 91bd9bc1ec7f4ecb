-------------------------------- MODULE Rule --------------------------------
(***************************************************************************)
(* internal/algorithms/interface.go: what every policy promises.  A call   *)
(* of GetTarget sees, at some moment, which backends are healthy.  It      *)
(* returns one of those, and an error only if there was none.              *)
(***************************************************************************)
CONSTANTS URLs, Callers

VARIABLES
  healthy,  \* the backends that are healthy
  offered,  \* per running call, those that were when it looked
  calling,  \* the callers whose call has looked and not returned yet
  answer    \* what the call that returned last got: a backend, or nothing, an error

Ask(c) ==
  /\ c \notin calling
  /\ calling' = calling \cup {c}
  /\ offered' = [offered EXCEPT ![c] = healthy]
  /\ UNCHANGED <<healthy, answer>>

Return(c, a) ==
  /\ c \in calling
  /\ calling' = calling \ {c}
  /\ offered' = [offered EXCEPT ![c] = {}]
  /\ answer' = a
  /\ UNCHANGED healthy

Answer(c) == \E u \in offered[c] : Return(c, {u})

Error(c) == offered[c] = {} /\ Return(c, {})

HealthChanges ==
  /\ healthy' \in SUBSET URLs
  /\ UNCHANGED <<offered, calling, answer>>

Init ==
  /\ healthy \in SUBSET URLs
  /\ offered = [c \in Callers |-> {}]
  /\ calling = {}
  /\ answer = {}

Next ==
  \/ \E c \in Callers : Ask(c) \/ Answer(c) \/ Error(c)
  \/ HealthChanges

Spec == Init /\ [][Next]_<<healthy, offered, calling, answer>>

=============================================================================
