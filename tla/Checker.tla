------------------------------- MODULE Checker ------------------------------
(***************************************************************************)
(* internal/health/checker.go: every instance probes the entries of its    *)
(* pool in waves and reports changes.  The next wave starts when the last  *)
(* one has ended (one goroutine starts them, and checkAll waits).          *)
(*                                                                         *)
(* A probe keeps the pointer to the entry it was started for.  When the    *)
(* entry leaves the pool the flag behind that pointer stays what it was,   *)
(* also if the backend gets a new entry.                                   *)
(*                                                                         *)
(* The limit of ten probes at a time is MaxProbes.  A probe holds its      *)
(* slot until its call of the updater has returned.                        *)
(***************************************************************************)
EXTENDS RedisManager, FiniteSets

CONSTANT MaxProbes      \* capacity of the semaphore

ASSUME MaxProbesAssumption == MaxProbes \in Nat \ {0}

VARIABLES
  up,         \* external: the backends that answer 200 to GET /health in time
  hasUpdater, \* the instances whose checker and proxy have an updater (Redis)
  draining,   \* the entries of each instance's pool that are draining
  probe,      \* per instance and backend: how far the probe is, or its result
  pointee,    \* the flags behind the probe's pointer: "entry" if still in the pool
  slots       \* per instance, the slots of the semaphore that are taken

checkerVars == <<hasUpdater, draining, probe, pointee, slots>>

\* No probe; waiting for a slot; GET sent; answered; change to be passed on.
ProbeStages == {"idle", "waiting", "probing", "reporting"} \cup StatusValues

CheckerTypeOK ==
  /\ up \subseteq URLs
  /\ hasUpdater \subseteq Instances
  /\ draining \in [Instances -> SUBSET URLs]
  /\ \A i \in Instances : draining[i] \subseteq known[i]
  /\ probe \in [Instances -> [URLs -> ProbeStages]]
  /\ pointee \in [Instances -> [URLs -> {"entry", "drained"} \cup StatusValues]]
  /\ slots \in [Instances -> 0 .. MaxProbes]

NoProbe == [u \in URLs |-> "idle"]
NoPointer == [u \in URLs |-> "entry"]

CheckerInit ==
  /\ up = URLs
  /\ hasUpdater = Instances
  /\ draining = [i \in Instances |-> {}]
  /\ probe = [i \in Instances |-> NoProbe]
  /\ pointee = [i \in Instances |-> NoPointer]
  /\ slots = [i \in Instances |-> 0]

\* wg.Wait: a wave has ended when all its probes have.
Checking(i) == probe[i] # NoProbe

StartWave(i) ==
  /\ ~Checking(i)
  /\ probe' = [probe EXCEPT ![i] = [u \in URLs |-> IF u \in known[i] THEN "waiting" ELSE "idle"]]
  /\ UNCHANGED <<redisVars, up, hasUpdater, draining, pointee, slots>>

\* backend.IsDraining() and backend.IsHealthy(), through the pointer.
IsDraining(i, u) ==
  IF pointee[i][u] = "entry" THEN u \in draining[i] ELSE pointee[i][u] = "drained"

SeenStatus(i, u) ==
  IF pointee[i][u] # "entry" THEN pointee[i][u] ELSE IF healthy[i][u] THEN "UP" ELSE "DOWN"

\* What stays behind the pointer when the entry leaves the pool.
LeftBehind(i, u) ==
  IF probe[i][u] = "waiting" /\ IsDraining(i, u) THEN "drained" ELSE SeenStatus(i, u)

-----------------------------------------------------------------------------
\* Mutant of SkipDraining: the early return keeps the slot.
SkipDraining_KeepsSlot(i, u) ==
  /\ probe[i][u] = "waiting" /\ slots[i] < MaxProbes
  /\ IsDraining(i, u)
  /\ probe' = [probe EXCEPT ![i][u] = "idle"]
  /\ pointee' = [pointee EXCEPT ![i][u] = "entry"]
  /\ slots' = [slots EXCEPT ![i] = @ + 1]
  /\ UNCHANGED <<redisVars, up, hasUpdater, draining>>

\* The slot is given back at once.
SkipDraining(i, u) ==
  /\ probe[i][u] = "waiting" /\ slots[i] < MaxProbes
  /\ IsDraining(i, u)
  /\ probe' = [probe EXCEPT ![i][u] = "idle"]
  /\ pointee' = [pointee EXCEPT ![i][u] = "entry"]
  /\ UNCHANGED <<redisVars, up, hasUpdater, draining, slots>>

Launch(i, u) ==
  /\ probe[i][u] = "waiting" /\ slots[i] < MaxProbes
  /\ ~IsDraining(i, u)
  /\ probe' = [probe EXCEPT ![i][u] = "probing"]
  /\ slots' = [slots EXCEPT ![i] = @ + 1]
  /\ UNCHANGED <<redisVars, up, hasUpdater, draining, pointee>>

Probe(i, u) ==
  /\ probe[i][u] = "probing"
  /\ probe' = [probe EXCEPT ![i][u] = IF u \in up THEN "UP" ELSE "DOWN"]
  /\ UNCHANGED <<redisVars, up, hasUpdater, draining, pointee, slots>>

\* The deferred calls at the end of a probe's goroutine.
EndProbe(i, u) ==
  /\ probe' = [probe EXCEPT ![i][u] = "idle"]
  /\ pointee' = [pointee EXCEPT ![i][u] = "entry"]
  /\ slots' = [slots EXCEPT ![i] = @ - 1]

(***************************************************************************)
(* Compare and, on a change, MarkHealthy and the updater.  The flag is     *)
(* read just before MarkHealthy; a change of the flag between the two has  *)
(* the same effect as one before or after both.                            *)
(***************************************************************************)
Unchanged(i, u) ==
  /\ probe[i][u] \in StatusValues /\ SeenStatus(i, u) = probe[i][u]
  /\ EndProbe(i, u)
  /\ UNCHANGED <<redisVars, up, hasUpdater, draining>>

Report(i, u) ==
  /\ probe[i][u] \in StatusValues /\ SeenStatus(i, u) # probe[i][u]
  /\ MarkHealthy(i, u, probe[i][u])
  /\ \/ /\ i \in hasUpdater
        /\ UpdateBackendStatus(CheckerOf(i), u, probe[i][u])
        /\ probe' = [probe EXCEPT ![i][u] = "reporting"]
        /\ UNCHANGED <<pointee, slots>>
     \/ /\ i \notin hasUpdater
        /\ EndProbe(i, u)
        /\ UNCHANGED calls
  /\ UNCHANGED <<known, subscribed, inbox, key, todo, got, up, hasUpdater, draining>>

\* The call of the updater has returned.
Reported(i, u) ==
  /\ probe[i][u] = "reporting"
  /\ ~ \E c \in calls : c.by = CheckerOf(i) /\ c.url = u
  /\ EndProbe(i, u)
  /\ UNCHANGED <<redisVars, up, hasUpdater, draining>>

CheckBackend(i, u) ==
  \/ SkipDraining(i, u) \/ Launch(i, u) \/ Probe(i, u)
  \/ Unchanged(i, u) \/ Report(i, u) \/ Reported(i, u)

-----------------------------------------------------------------------------
(***************************************************************************)
(* The slots taken are those of the probes under way, whichever way probes *)
(* ended: none is lost, which would leave the next probes waiting and the  *)
(* wave unfinished for good, and none is given back twice.                 *)
(***************************************************************************)
SlotsExact ==
  \A i \in Instances : slots[i] = Cardinality({u \in URLs : probe[i][u] \notin {"idle", "waiting"}})

=============================================================================
