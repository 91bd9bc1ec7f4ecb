----------------------------- MODULE RoundRobin -----------------------------
(***************************************************************************)
(* internal/algorithms/RoundRobin.go: a ticket, drawn by an atomic add, is *)
(* reduced to a position in the caller's own list.  The counter is an      *)
(* unsigned integer that wraps.                                            *)
(***************************************************************************)
EXTENDS Selection

CONSTANTS
  Modulus,    \* the counter counts modulo this, 2^64 for a uint64
  MaxTurns    \* bound on the turns of one position, and on the irregular ones

ASSUME ModulusAssumption == Modulus \in Nat \ {0}
ASSUME MaxTurnsAssumption == MaxTurns \in Nat

VARIABLES
  next,       \* RoundRobin.next
  turns,      \* history: the tickets of each position since the list last changed
  irregular   \* history: the wraps and the tickets for older lists since then

roundRobinVars == <<next, turns, irregular>>

NoTurns(l) == [k \in 1 .. Len(l) |-> 0]

RoundRobinInit ==
  /\ next = 0
  /\ turns = NoTurns(list)
  /\ irregular = 0

\* (nextVal - 1) % len(servers), from 1.
Position(n) == (next % n) + 1

\* Mutants of AddUint64: the counter of a copy is incremented; it is a signed one.
AddUint64_OfCopy == UNCHANGED next
AddUint64_Signed == next' = IF next + 1 >= Modulus \div 2 THEN -(Modulus \div 2) ELSE next + 1

AddUint64 == next' = (next + 1) % Modulus

RoundRobinTarget(c) ==
  LET position == Position(Len(servers[c]))
      inTurn == servers[c] = list
  IN  /\ stage[c] = "listed" /\ servers[c] # <<>>
      /\ AddUint64
      /\ turns' = IF inTurn THEN [turns EXCEPT ![position] = @ + 1] ELSE turns
      /\ irregular' = irregular + (IF inTurn THEN 0 ELSE 1) + (IF next + 1 = Modulus THEN 1 ELSE 0)
      /\ irregular' <= MaxTurns /\ \A k \in DOMAIN turns : turns'[k] <= MaxTurns
      /\ Return(c, {servers[c][position]})

-----------------------------------------------------------------------------
(***************************************************************************)
(* While the healthy list stays as it is, no backend gets more than one    *)
(* turn more than another, for any number of concurrent callers, except by *)
(* the tickets that callers with an older list draw and by the jump when   *)
(* the counter wraps: each of these shifts the balance by at most one.     *)
(***************************************************************************)
EvenTurns ==
  \A j, k \in DOMAIN turns : turns[j] <= turns[k] + 1 + irregular

=============================================================================
