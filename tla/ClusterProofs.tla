---------------------------- MODULE ClusterProofs ---------------------------
(***************************************************************************)
(* Theorems about Cluster, for any number of instances and backends, any   *)
(* number of events and any capacity of the semaphore and of the           *)
(* subscriptions: the probe slots are exact, and only real failures make a *)
(* backend DOWN in Redis.                                                  *)
(***************************************************************************)
EXTENDS Cluster, FiniteSetTheorems, TLAPS

\* The probes of instance i that hold a slot.
Holding(i) == {u \in URLs : probe[i][u] \notin {"idle", "waiting"}}

\* Finitely many, also when there is no bound on the backends.
SlotsInv == \A i \in Instances : IsFiniteSet(Holding(i)) /\ slots[i] = Cardinality(Holding(i))

\* A backend that has not failed is up, no probe found it down and no request
\* to it waits to be reported.
FaultInv ==
  /\ URLs \ faulty \subseteq up
  /\ \A i \in Instances, u \in URLs \ faulty : probe[i][u] # "DOWN"
  /\ \A i \in Instances : failing[i] \subseteq faulty
  /\ OnlyFailuresSpread

\* What OnlyFailuresSpread says of one backend.
Down(u) == [url |-> u, status |-> "DOWN"]

Clean(u) ==
  /\ key[u] # "DOWN"
  /\ \A c \in calls : c.url = u => c.status = "UP"
  /\ \A i \in Instances : Down(u) \notin got[i]
  /\ \A i \in Instances : \A m \in 1 .. Len(inbox[i]) : inbox[i][m] # Down(u)

MainTypeOK ==
  /\ pc \in [Instances -> Stages]
  /\ registered \subseteq URLs
  /\ busy \in [Instances -> SUBSET URLs] /\ failing \in [Instances -> SUBSET URLs]
  /\ faulty \subseteq URLs
  /\ events \in 0 .. MaxEvents

CInv == RedisTypeOK /\ CheckerTypeOK /\ MainTypeOK /\ SlotsInv /\ FaultInv

\* The actions of the three modules, and the parts of the state they share.
CheckerFrame == UNCHANGED <<up, hasUpdater, draining, probe, pointee, slots>>

-----------------------------------------------------------------------------
LEMMA CInvInit == Init => CInv
<1> SUFFICES ASSUME Init PROVE CInv
  OBVIOUS
<1> USE DEF Init, RedisInit, CheckerInit, NoProbe, NoPointer
<1>1. RedisTypeOK
  BY MaxInboxAssumption DEF RedisTypeOK, StatusValues
<1>2. CheckerTypeOK
  BY MaxProbesAssumption DEF CheckerTypeOK, ProbeStages, StatusValues
<1>3. MainTypeOK
  BY MaxEventsAssumption DEF MainTypeOK, Stages
<1>4. SlotsInv
  <2>1. \A i \in Instances : Holding(i) = {}
    BY DEF Holding
  <2> QED
    BY <2>1, FS_EmptySet DEF SlotsInv
<1>5. FaultInv
  BY DEF FaultInv, OnlyFailuresSpread
<1> QED
  BY <1>1, <1>2, <1>3, <1>4, <1>5 DEF CInv

-----------------------------------------------------------------------------
(***************************************************************************)
(* What the operations of RedisManager preserve, wherever they are called. *)
(***************************************************************************)
HealthOK(k, h) ==
  /\ h \in [Instances -> [URLs -> BOOLEAN]]
  /\ \A i \in Instances : \A u \in URLs \ k[i] : ~h[i][u]

\* MarkHealthy touches the flag of an entry only.
LEMMA MarkHealthyKeeps ==
  ASSUME RedisTypeOK, NEW i \in Instances, NEW u \in URLs, NEW s, MarkHealthy(i, u, s)
  PROVE  HealthOK(known, healthy')
<1>1. CASE u \in known[i]
  <2> DEFINE b == s = "UP"
  <2>1. healthy' = [healthy EXCEPT ![i][u] = b] /\ b \in BOOLEAN
    BY <1>1 DEF MarkHealthy
  <2> HIDE DEF b
  <2>2. healthy' \in [Instances -> [URLs -> BOOLEAN]]
    BY <2>1 DEF RedisTypeOK
  <2>3. ASSUME NEW j \in Instances, NEW v \in URLs \ known[j] PROVE ~healthy'[j][v]
    BY <1>1, <2>1, <2>3 DEF RedisTypeOK
  <2> QED
    BY <2>2, <2>3 DEF HealthOK
<1>2. CASE u \notin known[i]
  BY <1>2 DEF MarkHealthy, RedisTypeOK, HealthOK
<1> QED
  BY <1>1, <1>2

\* A new call is well formed, and does not tell of a failure that did not happen.
LEMMA NewCall ==
  ASSUME RedisTypeOK, NEW b \in Caller, NEW u \in URLs, NEW s \in StatusValues,
         UpdateBackendStatus(b, u, s)
  PROVE  /\ calls' \subseteq Call
         /\ \A c \in calls' : c \in calls \/ (c.url = u /\ c.status = s)
BY DEF UpdateBackendStatus, RedisTypeOK, Call

LEMMA Callers ==
  ASSUME NEW i \in Instances, NEW n \in Nat
  PROVE  CheckerOf(i) \in Caller /\ SyncOf(i) \in Caller /\ ProxyOf(i, n) \in Caller
BY DEF CheckerOf, SyncOf, ProxyOf, Caller

-----------------------------------------------------------------------------
(***************************************************************************)
(* Types of the part of RedisManager.                                      *)
(***************************************************************************)
LEMMA RedisTypeRun ==
  ASSUME CInv, NEW i \in Instances, Run(i)
  PROVE  RedisTypeOK'
<1>0. RedisTypeOK /\ CheckerTypeOK /\ MainTypeOK
  BY DEF CInv
<1>1. CASE UNCHANGED redisVars
  BY <1>0, <1>1 DEF RedisTypeOK, redisVars
<1>2. CASE SyncStart(i)
  BY <1>0, <1>2 DEF SyncStart, RedisTypeOK
<1>3. CASE StartWatcher(i)
  BY <1>0, <1>3 DEF StartWatcher, RedisTypeOK
<1>4. CASE SyncDNS(i)
  <2> PICK pool \in SUBSET URLs, lingering \in SUBSET URLs : Tick(i, pool, lingering)
    BY <1>0, <1>4 DEF SyncDNS, RedisTypeOK, CheckerTypeOK, MainTypeOK
  <2>1. known' \in [Instances -> SUBSET URLs]
    BY <1>0 DEF Tick, RedisTypeOK
  <2> DEFINE h(u) == u \in pool \ lingering /\ (u \in known[i] => healthy[i][u])
  <2>2. \A u \in URLs : h(u) \in BOOLEAN
    OBVIOUS
  <2>3. healthy' = [healthy EXCEPT ![i] = [u \in URLs |-> h(u)]]
    BY DEF Tick
  <2>4. \A u \in URLs \ pool : ~h(u)
    OBVIOUS
  <2> HIDE DEF h
  <2>5. healthy' \in [Instances -> [URLs -> BOOLEAN]]
    BY <1>0, <2>2, <2>3 DEF RedisTypeOK
  <2>6. \A j \in Instances : \A u \in URLs \ known'[j] : ~healthy'[j][u]
    BY <1>0, <2>3, <2>4 DEF Tick, RedisTypeOK
  <2> QED
    BY <1>0, <2>1, <2>5, <2>6 DEF Tick, RedisTypeOK
<1>5. CASE SyncMark(i)
  <2> PICK m \in got[i] : MarkHealthy(i, m.url, m.status)
    BY <1>5 DEF SyncMark
  <2>1. m.url \in URLs /\ m.status \in StatusValues
    BY <1>0 DEF RedisTypeOK, Message
  <2>2. HealthOK(known, healthy')
    BY <1>0, <2>1, MarkHealthyKeeps
  <2> QED
    BY <1>0, <1>5, <2>2 DEF SyncMark, RedisTypeOK, HealthOK
<1>6. ASSUME NEW u \in URLs, SyncGet(i, u) PROVE RedisTypeOK'
  <2>1. CASE key[u] # "none" /\ UNCHANGED calls
                /\ got' = [got EXCEPT ![i] = {[url |-> u, status |-> key[u]]}]
    <3>1. [url |-> u, status |-> key[u]] \in Message
      BY <1>0, <2>1 DEF RedisTypeOK, Message
    <3> QED
      BY <1>0, <1>6, <2>1, <3>1 DEF SyncGet, AtBackend, RedisTypeOK
  <2>2. CASE UpdateBackendStatus(SyncOf(i), u, "UP") /\ UNCHANGED got
    <3>1. calls' \subseteq Call
      BY <1>0, <2>2, NewCall, Callers DEF StatusValues
    <3> QED
      BY <1>0, <1>6, <2>2, <3>1 DEF SyncGet, AtBackend, RedisTypeOK
  <2> QED
    BY <1>6, <2>1, <2>2 DEF SyncGet
<1>7. CASE Receive(i)
  <2> DEFINE m == Head(inbox[i])
  <2>1. inbox[i] \in Seq(Message) /\ inbox[i] # <<>> /\ Len(inbox[i]) <= MaxInbox
    BY <1>0, <1>7 DEF Receive, RedisTypeOK
  <2>2. /\ m \in Message
        /\ Tail(inbox[i]) \in Seq(Message) /\ Len(Tail(inbox[i])) <= MaxInbox
    BY <2>1, MaxInboxAssumption
  <2>3. m.url \in URLs /\ MarkHealthy(i, m.url, m.status)
    BY <1>7, <2>2 DEF Receive, Message
  <2>4. HealthOK(known, healthy')
    BY <1>0, <2>3, MarkHealthyKeeps
  <2> QED
    BY <1>0, <1>7, <2>2, <2>4 DEF Receive, RedisTypeOK, HealthOK
<1>8. ASSUME NEW c \in calls, SetKey(c) PROVE RedisTypeOK'
  <2>1. c \in Call /\ [c EXCEPT !.next = "publish"] \in Call
    BY <1>0 DEF RedisTypeOK, Call
  <2>2. c.url \in URLs /\ c.status \in StatusValues
    BY <2>1 DEF Call
  <2> QED
    BY <1>0, <1>8, <2>1, <2>2 DEF SetKey, RedisTypeOK
<1>9. ASSUME NEW c \in calls, Publish(c) PROVE RedisTypeOK'
  <2>1. [url |-> c.url, status |-> c.status] \in Message
    BY <1>0 DEF RedisTypeOK, Call, Message
  <2> DEFINE m == [url |-> c.url, status |-> c.status]
  <2> HIDE DEF m
  <2>2. PICK reached \in SUBSET {j \in subscribed : Len(inbox[j]) < MaxInbox} :
          inbox' = [j \in Instances |-> IF j \in reached THEN Append(inbox[j], m) ELSE inbox[j]]
    BY <1>9 DEF Publish, m
  <2>3. ASSUME NEW j \in Instances
        PROVE  inbox'[j] \in Seq(Message) /\ Len(inbox'[j]) <= MaxInbox
    <3>1. m \in Message /\ inbox[j] \in Seq(Message) /\ Len(inbox[j]) <= MaxInbox
      BY <1>0, <2>1 DEF RedisTypeOK, m
    <3>2. CASE j \in reached
      <4>1. Len(inbox[j]) < MaxInbox /\ inbox'[j] = Append(inbox[j], m)
        BY <2>2, <3>2
      <4> QED
        BY <3>1, <4>1, MaxInboxAssumption
    <3> QED
      BY <2>2, <3>1, <3>2
  <2> QED
    BY <1>0, <1>9, <2>2, <2>3 DEF Publish, RedisTypeOK
<1>10. ASSUME NEW u \in URLs, Report(i, u) PROVE RedisTypeOK'
  <2>1. HealthOK(known, healthy')
    BY <1>0, <1>10, MarkHealthyKeeps DEF Report
  <2>2. calls' \subseteq Call
    BY <1>0, <1>10, NewCall, Callers DEF Report, RedisTypeOK
  <2> QED
    BY <1>0, <1>10, <2>1, <2>2 DEF Report, RedisTypeOK, HealthOK
<1>11. CASE ReportFailure(i)
  <2> PICK u \in failing[i] : (AlreadyDown(i, u) /\ UNCHANGED <<healthy, calls>>) \/ MarkDown(i, u)
    BY <1>11 DEF ReportFailure
  <2>1. u \in URLs
    BY <1>0 DEF MainTypeOK
  <2>2. HealthOK(known, healthy')
    BY <1>0, <2>1, MarkHealthyKeeps DEF MarkDown, RedisTypeOK, HealthOK
  <2>3. calls' \subseteq Call
    BY <1>0, <2>1, NewCall, Callers DEF MarkDown, RedisTypeOK, StatusValues
  <2> QED
    BY <1>0, <1>11, <2>2, <2>3 DEF ReportFailure, RedisTypeOK, HealthOK
<1> QED
  <2>1. CASE CheckBackends(i)
    BY <2>1, <1>1, <1>10 DEF CheckBackends, CheckBackend, SkipDraining, Launch, Probe, Unchanged, Reported
  <2>2. CASE UpdateStep(i)
    BY <2>2, <1>8, <1>9 DEF UpdateStep
  <2>3. CASE SyncStep(i)
    BY <2>3, <1>5, <1>6 DEF SyncStep
  <2>4. CASE StartupSync(i) \/ PeriodicSync(i) \/ HandleMessage(i)
    BY <2>4, <1>2, <1>7 DEF StartupSync, PeriodicSync, HandleMessage
  <2>5. CASE Boot(i) \/ FirstWave(i) \/ Serve(i) \/ NextWave(i) \/ RequestEnds(i)
    BY <2>5, <1>1 DEF Boot, FirstWave, Serve, NextWave, StartWave, RequestEnds
  <2> QED
    BY <1>3, <1>4, <1>11, <2>1, <2>2, <2>3, <2>4, <2>5 DEF Run, Startup, Sync, HealthCheck

LEMMA RedisTypeCrash ==
  ASSUME CInv, NEW i \in Instances, Crash(i)
  PROVE  RedisTypeOK'
<1>1. RedisTypeOK
  BY DEF CInv
<1>2. <<>> \in Seq(Message) /\ Len(<<>>) = 0
  OBVIOUS
<1>3. inbox' \in [Instances -> Seq(Message)] /\ \A j \in Instances : Len(inbox'[j]) <= MaxInbox
  BY <1>1, <1>2, MaxInboxAssumption DEF Crash, RedisTypeOK
<1>4. HealthOK(known', healthy')
  BY <1>1 DEF Crash, RedisTypeOK, HealthOK
<1> QED
  BY <1>1, <1>3, <1>4 DEF Crash, RedisTypeOK, HealthOK

LEMMA RedisTypeFails ==
  ASSUME CInv, RedisFails
  PROVE  RedisTypeOK'
<1>1. RedisTypeOK
  BY DEF CInv
<1>2. ASSUME NEW c \in calls, SetFails(c) PROVE RedisTypeOK'
  <2>1. c.url \in URLs /\ c.status \in StatusValues
    BY <1>1 DEF RedisTypeOK, Call
  <2> QED
    BY <1>1, <1>2, <2>1 DEF SetFails, RedisTypeOK
<1>3. ASSUME NEW i \in Instances, NEW u \in URLs, SyncSkip(i, u) PROVE RedisTypeOK'
  BY <1>1, <1>3 DEF SyncSkip, RedisTypeOK
<1> QED
  BY <1>2, <1>3 DEF RedisFails

-----------------------------------------------------------------------------
(***************************************************************************)
(* Probes and their slots.  A step of a probe moves one backend into or    *)
(* out of Holding, or none.                                                *)
(***************************************************************************)
ProbesOK == CheckerTypeOK /\ SlotsInv

LEMMA ProbesUnchanged ==
  ASSUME CInv, CheckerFrame, known' = known
  PROVE  ProbesOK'
<1>1. CheckerTypeOK'
  BY DEF CInv, CheckerFrame, CheckerTypeOK
<1>2. SlotsInv'
  BY DEF CInv, CheckerFrame, SlotsInv, Holding
<1> QED
  BY <1>1, <1>2 DEF ProbesOK

\* When probe and slots are the same.
LEMMA SlotsUnchanged ==
  ASSUME CInv, UNCHANGED <<probe, slots>>
  PROVE  SlotsInv'
BY DEF CInv, SlotsInv, Holding

LEMMA StartWaveProbes ==
  ASSUME CInv, NEW i \in Instances, StartWave(i)
  PROVE  ProbesOK'
<1>0. CheckerTypeOK /\ SlotsInv
  BY DEF CInv
<1>1. CheckerTypeOK'
  BY <1>0 DEF StartWave, redisVars, CheckerTypeOK, ProbeStages
<1>2. ASSUME NEW j \in Instances PROVE Holding(j)' = Holding(j)
  <2>1. CASE j = i
    <3>1. Holding(i) = {}
      BY DEF StartWave, Checking, NoProbe, Holding
    <3>2. Holding(i)' = {}
      BY <1>0 DEF StartWave, CheckerTypeOK, Holding
    <3> QED
      BY <2>1, <3>1, <3>2
  <2>2. CASE j # i
    BY <1>0, <2>2 DEF StartWave, CheckerTypeOK, Holding
  <2> QED
    BY <2>1, <2>2
<1>3. SlotsInv'
  BY <1>0, <1>2 DEF SlotsInv, StartWave
<1> QED
  BY <1>1, <1>3 DEF ProbesOK

\* A probe that holds no slot before and after.
LEMMA SkipDrainingProbes ==
  ASSUME CInv, NEW i \in Instances, NEW u \in URLs, SkipDraining(i, u)
  PROVE  ProbesOK'
<1>0. CheckerTypeOK /\ SlotsInv
  BY DEF CInv
<1>1. CheckerTypeOK'
  BY <1>0 DEF SkipDraining, redisVars, CheckerTypeOK, ProbeStages
<1>2. ASSUME NEW j \in Instances PROVE Holding(j)' = Holding(j)
  BY <1>0 DEF SkipDraining, CheckerTypeOK, Holding
<1>3. SlotsInv'
  BY <1>0, <1>2 DEF SlotsInv, SkipDraining
<1> QED
  BY <1>1, <1>3 DEF ProbesOK

LEMMA LaunchProbes ==
  ASSUME CInv, NEW i \in Instances, NEW u \in URLs, Launch(i, u)
  PROVE  ProbesOK'
<1>0. CheckerTypeOK /\ SlotsInv
  BY DEF CInv
<1>1. slots[i] \in 0 .. MaxProbes /\ slots[i] < MaxProbes /\ MaxProbes \in Nat
  BY <1>0, MaxProbesAssumption DEF Launch, CheckerTypeOK
<1>2. CheckerTypeOK'
  BY <1>0, <1>1 DEF Launch, redisVars, CheckerTypeOK, ProbeStages
<1>3. ASSUME NEW j \in Instances, j # i PROVE Holding(j)' = Holding(j) /\ slots'[j] = slots[j]
  BY <1>0, <1>3 DEF Launch, CheckerTypeOK, Holding
<1>4. u \notin Holding(i) /\ Holding(i)' = Holding(i) \cup {u}
  BY <1>0 DEF Launch, CheckerTypeOK, Holding
<1>5. slots'[i] = slots[i] + 1
  BY <1>0 DEF Launch, CheckerTypeOK
<1>6. IsFiniteSet(Holding(i)') /\ Cardinality(Holding(i)') = Cardinality(Holding(i)) + 1
  BY <1>0, <1>4, FS_AddElement DEF SlotsInv
<1>7. SlotsInv'
  BY <1>0, <1>3, <1>5, <1>6 DEF SlotsInv
<1> QED
  BY <1>2, <1>7 DEF ProbesOK

LEMMA ProbeProbes ==
  ASSUME CInv, NEW i \in Instances, NEW u \in URLs, Probe(i, u)
  PROVE  ProbesOK'
<1>0. CheckerTypeOK /\ SlotsInv
  BY DEF CInv
<1>1. CheckerTypeOK'
  BY <1>0 DEF Probe, redisVars, CheckerTypeOK, ProbeStages, StatusValues
<1>2. ASSUME NEW j \in Instances PROVE Holding(j)' = Holding(j)
  BY <1>0 DEF Probe, CheckerTypeOK, Holding
<1>3. SlotsInv'
  BY <1>0, <1>2 DEF SlotsInv, Probe
<1> QED
  BY <1>1, <1>3 DEF ProbesOK

LEMMA EndProbeProbes ==
  ASSUME CInv, NEW i \in Instances, NEW u \in URLs, EndProbe(i, u), u \in Holding(i),
         UNCHANGED <<up, hasUpdater, draining, known>>
  PROVE  ProbesOK'
<1>0. CheckerTypeOK /\ SlotsInv
  BY DEF CInv
<1>1. Holding(i)' = Holding(i) \ {u}
  BY <1>0 DEF EndProbe, CheckerTypeOK, Holding
<1>2. IsFiniteSet(Holding(i)') /\ Cardinality(Holding(i)') = Cardinality(Holding(i)) - 1
  BY <1>0, <1>1, FS_RemoveElement DEF SlotsInv
<1>3. slots'[i] = slots[i] - 1 /\ slots'[i] \in Nat
  <2>1. slots'[i] = slots[i] - 1 /\ slots[i] = Cardinality(Holding(i))
    BY <1>0 DEF EndProbe, CheckerTypeOK, SlotsInv
  <2>2. Cardinality(Holding(i)') \in Nat
    BY <1>2, FS_CardinalityType
  <2> QED
    BY <2>1, <2>2, <1>2
<1>4. CheckerTypeOK'
  <2>1. slots' \in [Instances -> 0 .. MaxProbes]
    <3>1. slots[i] \in 0 .. MaxProbes /\ MaxProbes \in Nat
      BY <1>0, MaxProbesAssumption DEF CheckerTypeOK
    <3>2. slots'[i] \in 0 .. MaxProbes
      BY <1>3, <3>1
    <3> QED
      BY <1>0, <3>2 DEF EndProbe, CheckerTypeOK
  <2> QED
    BY <1>0, <2>1 DEF EndProbe, CheckerTypeOK, ProbeStages
<1>5. ASSUME NEW j \in Instances, j # i PROVE Holding(j)' = Holding(j) /\ slots'[j] = slots[j]
  BY <1>0, <1>5 DEF EndProbe, CheckerTypeOK, Holding
<1>6. SlotsInv'
  <2>1. slots'[i] = Cardinality(Holding(i)')
    BY <1>0, <1>2, <1>3 DEF SlotsInv, EndProbe, CheckerTypeOK
  <2> QED
    BY <1>0, <1>2, <2>1, <1>5 DEF SlotsInv
<1> QED
  BY <1>4, <1>6 DEF ProbesOK

LEMMA CheckBackendProbes ==
  ASSUME CInv, NEW i \in Instances, NEW u \in URLs, CheckBackend(i, u)
  PROVE  ProbesOK'
<1>0. CheckerTypeOK /\ SlotsInv
  BY DEF CInv
<1>1. CASE Unchanged(i, u) \/ Reported(i, u)
  <2>1. u \in Holding(i)
    BY <1>1 DEF Unchanged, Reported, Holding, StatusValues
  <2> QED
    BY <1>1, <2>1, EndProbeProbes DEF Unchanged, Reported, redisVars
<1>2. CASE Report(i, u)
  <2>1. u \in Holding(i)
    BY <1>2 DEF Report, Holding, StatusValues
  <2>2. CASE EndProbe(i, u)
    BY <1>2, <2>1, <2>2, EndProbeProbes DEF Report
  <2>3. CASE probe' = [probe EXCEPT ![i][u] = "reporting"] /\ UNCHANGED <<pointee, slots>>
    <3>1. CheckerTypeOK'
      BY <1>0, <1>2, <2>3 DEF Report, CheckerTypeOK, ProbeStages
    <3>2. ASSUME NEW j \in Instances PROVE Holding(j)' = Holding(j)
      BY <1>0, <2>1, <2>3 DEF CheckerTypeOK, Holding
    <3>3. SlotsInv'
      BY <1>0, <2>3, <3>2 DEF SlotsInv
    <3> QED
      BY <3>1, <3>3 DEF ProbesOK
  <2> QED
    BY <1>2, <2>2, <2>3 DEF Report
<1> QED
  BY <1>1, <1>2, SkipDrainingProbes, LaunchProbes, ProbeProbes DEF CheckBackend

LEMMA BootProbes ==
  ASSUME CInv, NEW i \in Instances, Boot(i)
  PROVE  ProbesOK'
<1>1. CheckerTypeOK'
  BY DEF CInv, Boot, redisVars, CheckerTypeOK
<1>2. SlotsInv'
  BY SlotsUnchanged DEF Boot
<1> QED
  BY <1>1, <1>2 DEF ProbesOK

LEMMA TickProbes ==
  ASSUME CInv, NEW i \in Instances, SyncDNS(i)
  PROVE  ProbesOK'
<1>0. RedisTypeOK /\ CheckerTypeOK /\ MainTypeOK
  BY DEF CInv
<1> PICK pool \in SUBSET URLs, lingering \in SUBSET URLs :
         lingering \subseteq pool /\ Tick(i, pool, lingering)
  <2> DEFINE l == (known[i] \ registered) \cap busy[i]
  <2>1. Tick(i, registered \cup l, l)
    BY DEF SyncDNS
  <2>2. registered \cup l \in SUBSET URLs /\ l \in SUBSET URLs
    BY <1>0 DEF RedisTypeOK, MainTypeOK
  <2> QED
    BY <2>1, <2>2
<1>1. draining' \in [Instances -> SUBSET URLs] /\ \A j \in Instances : draining'[j] \subseteq known'[j]
  BY <1>0 DEF Tick, RedisTypeOK, CheckerTypeOK
<1>2. pointee' \in [Instances -> [URLs -> {"entry", "drained"} \cup StatusValues]]
  <2> DEFINE p(u) == IF probe[i][u] # "idle" /\ u \in known[i] \ pool
                       THEN LeftBehind(i, u) ELSE pointee[i][u]
  <2>1. \A u \in URLs : p(u) \in {"entry", "drained"} \cup StatusValues
    BY <1>0 DEF LeftBehind, SeenStatus, CheckerTypeOK, StatusValues
  <2>2. pointee' = [pointee EXCEPT ![i] = [u \in URLs |-> p(u)]]
    BY DEF Tick
  <2> HIDE DEF p
  <2> QED
    BY <1>0, <2>1, <2>2 DEF CheckerTypeOK
<1>3. CheckerTypeOK'
  BY <1>0, <1>1, <1>2 DEF Tick, CheckerTypeOK
<1>4. SlotsInv'
  BY SlotsUnchanged DEF Tick
<1> QED
  BY <1>3, <1>4 DEF ProbesOK

LEMMA CrashProbes ==
  ASSUME CInv, NEW i \in Instances, Crash(i)
  PROVE  ProbesOK'
<1>0. RedisTypeOK /\ CheckerTypeOK /\ SlotsInv
  BY DEF CInv
<1>1. CheckerTypeOK'
  BY <1>0, MaxProbesAssumption
  DEF Crash, RedisTypeOK, CheckerTypeOK, NoProbe, NoPointer, ProbeStages
<1>2. ASSUME NEW j \in Instances, j # i PROVE Holding(j)' = Holding(j) /\ slots'[j] = slots[j]
  BY <1>0, <1>2 DEF Crash, CheckerTypeOK, Holding
<1>3. Holding(i)' = {} /\ slots'[i] = 0
  BY <1>0 DEF Crash, CheckerTypeOK, Holding, NoProbe
<1>4. SlotsInv'
  BY <1>0, <1>2, <1>3, FS_EmptySet DEF SlotsInv
<1> QED
  BY <1>1, <1>4 DEF ProbesOK

LEMMA ProbesNext ==
  ASSUME CInv, Next
  PROVE  ProbesOK'
<1>1. ASSUME NEW i \in Instances, Run(i) PROVE ProbesOK'
  <2>1. CASE StartupSync(i) \/ StartWatcher(i) \/ Serve(i) \/ PeriodicSync(i)
                \/ SyncStep(i) \/ HandleMessage(i) \/ UpdateStep(i)
                \/ RequestEnds(i) \/ ReportFailure(i)
    <3>1. CheckerFrame
      BY <2>1 DEF CheckerFrame, checkerVars, StartupSync, StartWatcher, Serve, PeriodicSync,
                  SyncStep, HandleMessage, UpdateStep, RequestEnds, ReportFailure
    <3>2. known' = known
      BY <2>1 DEF redisVars, StartupSync, StartWatcher, Serve, PeriodicSync, SyncStep, HandleMessage,
                  UpdateStep, RequestEnds, ReportFailure, SyncStart, SyncMark, SyncGet, Receive, SetKey, Publish
    <3> QED
      BY <3>1, <3>2, ProbesUnchanged
  <2>2. CASE FirstWave(i) \/ NextWave(i)
    BY <2>2, StartWaveProbes DEF FirstWave, NextWave
  <2>3. CASE CheckBackends(i)
    BY <2>3, CheckBackendProbes DEF CheckBackends
  <2> QED
    BY <1>1, <2>1, <2>2, <2>3, BootProbes, TickProbes DEF Run, Startup, Sync, HealthCheck
<1>2. ASSUME NEW i \in Instances, BootDegraded(i) PROVE ProbesOK'
  BY <1>2, ProbesUnchanged DEF BootDegraded, CheckerFrame, checkerVars, redisVars
<1>3. ASSUME NEW u \in URLs, BackendChanges(u) PROVE ProbesOK'
  <2>1. CheckerTypeOK'
    BY <1>3 DEF CInv, BackendChanges, checkerVars, redisVars, CheckerTypeOK
  <2>2. SlotsInv'
    BY <1>3, SlotsUnchanged DEF BackendChanges, checkerVars
  <2> QED
    BY <2>1, <2>2 DEF ProbesOK
<1>4. CASE RedisFails
  BY <1>4, ProbesUnchanged DEF RedisFails, SetFails, SyncSkip, CheckerFrame, checkerVars
<1>5. ASSUME NEW i \in Instances, NEW u \in URLs, RequestStarts(i, u) PROVE ProbesOK'
  BY <1>5, ProbesUnchanged DEF RequestStarts, CheckerFrame, checkerVars, redisVars
<1>6. ASSUME NEW u \in URLs, DNSChanges(u) PROVE ProbesOK'
  BY <1>6, ProbesUnchanged DEF DNSChanges, CheckerFrame, checkerVars, redisVars
<1> QED
  BY <1>1, <1>2, <1>3, <1>4, <1>5, <1>6, CrashProbes DEF Next

-----------------------------------------------------------------------------
(***************************************************************************)
(* The types of the rest, and of RedisManager's part, for every step.      *)
(***************************************************************************)
LEMMA MainTypeNext ==
  ASSUME CInv, Next
  PROVE  MainTypeOK'
<1>0. MainTypeOK /\ RedisTypeOK /\ MaxEvents \in Nat
  BY MaxEventsAssumption DEF CInv
<1>1. ASSUME NEW i \in Instances, Run(i) PROVE MainTypeOK'
  <2>1. CASE RequestEnds(i) \/ ReportFailure(i)
    BY <1>0, <2>1 DEF RequestEnds, RequestSucceeds, RequestFails, ReportFailure, MainTypeOK
  <2>2. CASE SyncDNS(i)
    BY <1>0, <2>2 DEF SyncDNS, Tick, MainTypeOK
  <2>3. CASE Boot(i) \/ StartupSync(i) \/ StartWatcher(i) \/ FirstWave(i) \/ Serve(i)
    BY <1>0, <2>3 DEF Boot, StartupSync, StartWatcher, FirstWave, Serve, MainTypeOK, Stages
  <2>4. CASE PeriodicSync(i) \/ SyncStep(i) \/ HandleMessage(i) \/ NextWave(i)
                \/ CheckBackends(i) \/ UpdateStep(i)
    BY <1>0, <2>4 DEF PeriodicSync, SyncStep, HandleMessage, NextWave, CheckBackends, UpdateStep, MainTypeOK
  <2> QED
    BY <1>1, <2>1, <2>2, <2>3, <2>4 DEF Run, Startup, Sync, HealthCheck
<1>2. ASSUME NEW i \in Instances, BootDegraded(i) \/ Crash(i) PROVE MainTypeOK'
  BY <1>0, <1>2 DEF BootDegraded, Crash, Event, MainTypeOK, Stages
<1>3. ASSUME NEW u \in URLs, BackendChanges(u) \/ DNSChanges(u) PROVE MainTypeOK'
  BY <1>0, <1>3 DEF BackendChanges, DNSChanges, Event, MainTypeOK
<1>4. CASE RedisFails
  BY <1>0, <1>4 DEF RedisFails, Event, MainTypeOK
<1>5. ASSUME NEW i \in Instances, NEW u \in URLs, RequestStarts(i, u) PROVE MainTypeOK'
  BY <1>0, <1>5 DEF RequestStarts, Event, MainTypeOK
<1> QED
  BY <1>1, <1>2, <1>3, <1>4, <1>5 DEF Next

LEMMA RedisTypeNext ==
  ASSUME CInv, Next
  PROVE  RedisTypeOK'
<1>1. ASSUME UNCHANGED redisVars PROVE RedisTypeOK'
  BY <1>1 DEF CInv, RedisTypeOK, redisVars
<1>2. ASSUME NEW u \in URLs, BackendChanges(u) \/ DNSChanges(u) PROVE RedisTypeOK'
  BY <1>1, <1>2 DEF BackendChanges, DNSChanges
<1>3. ASSUME NEW i \in Instances, NEW u \in URLs, RequestStarts(i, u) PROVE RedisTypeOK'
  BY <1>1, <1>3 DEF RequestStarts
<1>4. ASSUME NEW i \in Instances, BootDegraded(i) PROVE RedisTypeOK'
  BY <1>1, <1>4 DEF BootDegraded
<1> QED
  BY <1>2, <1>3, <1>4, RedisTypeRun, RedisTypeCrash, RedisTypeFails DEF Next

-----------------------------------------------------------------------------
(***************************************************************************)
(* Failures.  A step that adds none keeps every backend clean: statuses    *)
(* are only copied, from a probe's result to a call, from a call to the    *)
(* key and to the messages, from the key to a sync.                        *)
(***************************************************************************)
LEMMA CleanIsProperty == OnlyFailuresSpread <=> \A u \in URLs \ faulty : Clean(u)
BY DEF OnlyFailuresSpread, Clean, Down

LEMMA CleanKept ==
  ASSUME NEW u \in URLs, Clean(u), UNCHANGED <<key, calls, got, inbox>>
  PROVE  Clean(u)'
BY DEF Clean, Down

LEMMA CleanRun ==
  ASSUME CInv, NEW i \in Instances, Run(i), NEW u \in URLs \ faulty'
  PROVE  Clean(u)'
<1>0. RedisTypeOK /\ CheckerTypeOK /\ MainTypeOK
  BY DEF CInv
<1>a. u \in URLs \ faulty
  BY DEF Run, Startup, Sync, HealthCheck, Boot, StartupSync, StartWatcher, FirstWave, Serve,
         SyncDNS, Tick, PeriodicSync, SyncStep,
         HandleMessage, NextWave, CheckBackends, UpdateStep, RequestEnds, RequestSucceeds, RequestFails,
         ReportFailure
<1>b. Clean(u) /\ u \in up /\ \A j \in Instances : probe[j][u] # "DOWN"
  BY <1>a, CleanIsProperty DEF CInv, FaultInv
<1>1. CASE UNCHANGED <<key, calls, got, inbox>>
  BY <1>b, <1>1, CleanKept
<1>2. CASE SyncMark(i)
  BY <1>0, <1>b, <1>2 DEF SyncMark, Clean, Down, RedisTypeOK
<1>3. ASSUME NEW v \in URLs, SyncGet(i, v) PROVE Clean(u)'
  <2>1. CASE UNCHANGED calls /\ got' = [got EXCEPT ![i] = {[url |-> v, status |-> key[v]]}]
    <3>1. Down(u) # [url |-> v, status |-> key[v]]
      BY <1>b DEF Clean, Down
    <3>2. \A j \in Instances : Down(u) \notin got'[j]
      BY <1>0, <1>b, <2>1, <3>1 DEF Clean, RedisTypeOK
    <3> QED
      BY <1>b, <1>3, <2>1, <3>2 DEF SyncGet, AtBackend, Clean, Down
  <2>2. CASE UpdateBackendStatus(SyncOf(i), v, "UP") /\ UNCHANGED got
    <3>1. \A c \in calls' : c \in calls \/ (c.url = v /\ c.status = "UP")
      BY <1>0, <2>2, NewCall, Callers DEF StatusValues
    <3> QED
      BY <1>b, <1>3, <2>2, <3>1 DEF SyncGet, AtBackend, Clean, Down
  <2> QED
    BY <1>3, <2>1, <2>2 DEF SyncGet
<1>4. CASE Receive(i)
  <2>1. inbox[i] \in Seq(Message) /\ inbox[i] # <<>> /\ inbox' = [inbox EXCEPT ![i] = Tail(@)]
    BY <1>0, <1>4 DEF Receive, RedisTypeOK
  <2>2. \A m \in 1 .. Len(inbox'[i]) : inbox'[i][m] = inbox[i][m + 1] /\ m + 1 \in 1 .. Len(inbox[i])
    <3> DEFINE q == inbox[i]
    <3>1. inbox'[i] = Tail(q)
      BY <1>0, <2>1 DEF RedisTypeOK
    <3>2. q \in Seq(Message) /\ q # <<>>
      BY <2>1
    <3> HIDE DEF q
    <3>3. \A m \in 1 .. Len(Tail(q)) : Tail(q)[m] = q[m + 1] /\ m + 1 \in 1 .. Len(q)
      BY <3>2
    <3> QED
      BY <3>1, <3>3 DEF q
  <2>3. ASSUME NEW j \in Instances, NEW m \in 1 .. Len(inbox'[j]) PROVE inbox'[j][m] # Down(u)
    <3>1. CASE j = i
      BY <1>b, <2>2, <2>3, <3>1 DEF Clean
    <3>2. CASE j # i
      BY <1>0, <1>b, <2>1, <2>3, <3>2 DEF Clean, RedisTypeOK
    <3> QED
      BY <3>1, <3>2
  <2> QED
    BY <1>b, <1>4, <2>3 DEF Receive, Clean, Down
<1>5. ASSUME NEW c \in calls, SetKey(c) PROVE Clean(u)'
  <2>1. c.url = u => c.status = "UP"
    BY <1>b DEF Clean
  <2>2. c \in Call
    BY <1>0 DEF RedisTypeOK
  <2>3. [c EXCEPT !.next = "publish"].url = c.url /\ [c EXCEPT !.next = "publish"].status = c.status
    BY <2>2 DEF Call
  <2>4. key'[u] # "DOWN"
    BY <1>0, <1>5, <1>b, <2>1 DEF SetKey, Clean, RedisTypeOK
  <2>5. \A d \in calls' : d.url = u => d.status = "UP"
    BY <1>5, <1>b, <2>1, <2>3 DEF SetKey, Clean
  <2> QED
    BY <1>5, <1>b, <2>4, <2>5 DEF SetKey, Clean, Down
<1>6. ASSUME NEW c \in calls, Publish(c) PROVE Clean(u)'
  <2> DEFINE n == [url |-> c.url, status |-> c.status]
  <2>1. n # Down(u) /\ n \in Message
    BY <1>0, <1>b DEF Clean, Down, RedisTypeOK, Call, Message
  <2> HIDE DEF n
  <2>2. PICK reached \in SUBSET {j \in subscribed : Len(inbox[j]) < MaxInbox} :
          inbox' = [j \in Instances |-> IF j \in reached THEN Append(inbox[j], n) ELSE inbox[j]]
    BY <1>6 DEF Publish, n
  <2>3. ASSUME NEW j \in Instances, NEW m \in 1 .. Len(inbox'[j]) PROVE inbox'[j][m] # Down(u)
    <3>1. inbox[j] \in Seq(Message) /\ \A k \in 1 .. Len(inbox[j]) : inbox[j][k] # Down(u)
      BY <1>0, <1>b DEF Clean, RedisTypeOK
    <3>2. inbox'[j] = Append(inbox[j], n) \/ inbox'[j] = inbox[j]
      BY <2>2
    <3> QED
      BY <2>1, <2>3, <3>1, <3>2
  <2>4. \A d \in calls' : d \in calls
    BY <1>6 DEF Publish
  <2> QED
    BY <1>6, <1>b, <2>3, <2>4 DEF Publish, Clean, Down
<1>7. ASSUME NEW v \in URLs, Report(i, v) PROVE Clean(u)'
  <2>1. \A c \in calls' : c.url = u => c.status = "UP"
    <3>1. probe[i][v] \in StatusValues /\ (v = u => probe[i][v] = "UP")
      BY <1>7, <1>b DEF Report, StatusValues
    <3>2. \A c \in calls' : c \in calls \/ (c.url = v /\ c.status = probe[i][v])
      BY <1>0, <1>7, <3>1, NewCall, Callers DEF Report
    <3> QED
      BY <1>b, <3>1, <3>2 DEF Clean
  <2> QED
    BY <1>7, <1>b, <2>1 DEF Report, Clean, Down
<1>8. CASE ReportFailure(i)
  <2> PICK v \in failing[i] : (AlreadyDown(i, v) /\ UNCHANGED <<healthy, calls>>) \/ MarkDown(i, v)
    BY <1>8 DEF ReportFailure
  <2>1. CASE UNCHANGED calls
    BY <1>8, <1>1, <2>1 DEF ReportFailure
  <2>2. CASE MarkDown(i, v)
    <3>1. v \in URLs /\ v # u
      BY <1>0, <1>a DEF CInv, FaultInv, MainTypeOK
    <3>2. \A c \in calls' : c \in calls \/ c.url = v
      BY <1>0, <2>2, <3>1, NewCall, Callers DEF MarkDown, StatusValues
    <3>3. \A c \in calls' : c.url = u => c.status = "UP"
      BY <1>b, <3>1, <3>2 DEF Clean
    <3> QED
      BY <1>8, <1>b, <3>3 DEF ReportFailure, Clean, Down
  <2> QED
    BY <2>1, <2>2
<1> QED
  <2>1. CASE CheckBackends(i)
    BY <2>1, <1>1, <1>7 DEF CheckBackends, CheckBackend, SkipDraining, Launch, Probe, Unchanged, Reported, redisVars
  <2>2. CASE UpdateStep(i)
    BY <2>2, <1>5, <1>6 DEF UpdateStep
  <2>3. CASE SyncStep(i)
    BY <2>3, <1>2, <1>3 DEF SyncStep
  <2>4. CASE StartupSync(i) \/ PeriodicSync(i) \/ HandleMessage(i) \/ StartWatcher(i) \/ SyncDNS(i)
    BY <2>4, <1>1, <1>4 DEF StartupSync, PeriodicSync, HandleMessage, StartWatcher, SyncDNS, Tick, SyncStart
  <2>5. CASE Boot(i) \/ FirstWave(i) \/ Serve(i) \/ NextWave(i) \/ RequestEnds(i)
    BY <2>5, <1>1 DEF Boot, FirstWave, Serve, NextWave, StartWave, RequestEnds, redisVars
  <2> QED
    BY <1>8, <2>1, <2>2, <2>3, <2>4, <2>5 DEF Run, Startup, Sync, HealthCheck

LEMMA CleanCrash ==
  ASSUME CInv, NEW i \in Instances, Crash(i), NEW u \in URLs \ faulty
  PROVE  Clean(u)'
<1>1. RedisTypeOK /\ Clean(u)
  BY CleanIsProperty DEF CInv, FaultInv
<1>2. \A c \in calls' : c.url = u => c.status = "UP"
  BY <1>1 DEF Crash, Clean
<1>3. \A j \in Instances : Down(u) \notin got'[j]
  BY <1>1 DEF Crash, Clean, RedisTypeOK
<1>4. ASSUME NEW j \in Instances, NEW m \in 1 .. Len(inbox'[j]) PROVE inbox'[j][m] # Down(u)
  <2>1. inbox'[j] = IF j = i THEN <<>> ELSE inbox[j]
    BY <1>1 DEF Crash, RedisTypeOK
  <2> QED
    BY <1>1, <1>4, <2>1 DEF Clean
<1> QED
  BY <1>1, <1>2, <1>3, <1>4 DEF Crash, Clean, Down

LEMMA CleanFails ==
  ASSUME CInv, RedisFails, NEW u \in URLs \ faulty
  PROVE  Clean(u)'
<1>1. RedisTypeOK /\ Clean(u)
  BY CleanIsProperty DEF CInv, FaultInv
<1>2. ASSUME NEW c \in calls, SetFails(c) PROVE Clean(u)'
  <2>1. key'[u] # "DOWN"
    BY <1>1, <1>2 DEF SetFails, Clean, RedisTypeOK
  <2> QED
    BY <1>1, <1>2, <2>1 DEF SetFails, Clean, Down
<1>3. ASSUME NEW i \in Instances, NEW v \in URLs, SyncSkip(i, v) PROVE Clean(u)'
  BY <1>1, <1>3, CleanKept DEF SyncSkip
<1> QED
  BY <1>2, <1>3 DEF RedisFails

\* What a step may do to the probes and to the set of failed backends.
FaultStep ==
  /\ faulty \subseteq faulty'
  /\ URLs \ faulty' \subseteq up'
  /\ \A i \in Instances, u \in URLs \ faulty' : probe'[i][u] # "DOWN"
  /\ \A i \in Instances : failing'[i] \subseteq faulty'

LEMMA FaultStepNext ==
  ASSUME CInv, Next
  PROVE  FaultStep
<1>0. /\ CheckerTypeOK /\ MainTypeOK /\ URLs \ faulty \subseteq up
      /\ \A i \in Instances, u \in URLs \ faulty : probe[i][u] # "DOWN"
      /\ \A i \in Instances : failing[i] \subseteq faulty
  BY DEF CInv, FaultInv
<1>1. CASE UNCHANGED <<up, faulty, failing, probe>>
  BY <1>0, <1>1 DEF FaultStep
<1>2. ASSUME NEW i \in Instances, Run(i) PROVE FaultStep
  <2>1. CASE Boot(i) \/ StartupSync(i) \/ StartWatcher(i) \/ Serve(i) \/ SyncDNS(i) \/ PeriodicSync(i)
                \/ SyncStep(i) \/ HandleMessage(i) \/ UpdateStep(i)
    BY <1>1, <2>1 DEF Boot, StartupSync, StartWatcher, Serve, SyncDNS, Tick, PeriodicSync, SyncStep,
                      HandleMessage, UpdateStep, checkerVars
  <2>2. CASE FirstWave(i) \/ NextWave(i)
    <3>1. StartWave(i) /\ faulty' = faulty /\ failing' = failing
      BY <2>2 DEF FirstWave, NextWave
    <3> QED
      BY <1>0, <3>1 DEF StartWave, CheckerTypeOK, FaultStep
  <2>3. CASE CheckBackends(i)
    <3>1. PICK u \in URLs : CheckBackend(i, u)
      BY <2>3 DEF CheckBackends
    <3>2. up' = up /\ faulty' = faulty /\ failing' = failing
      BY <2>3, <3>1 DEF CheckBackends, CheckBackend, SkipDraining, Launch, Probe, Unchanged, Report, Reported
    <3>3. \E s : probe' = [probe EXCEPT ![i][u] = s] /\ (s = "DOWN" => u \notin up)
      BY <3>1 DEF CheckBackend, SkipDraining, Launch, Probe, Unchanged, Report, Reported, EndProbe
    <3> QED
      BY <1>0, <3>2, <3>3 DEF CheckerTypeOK, FaultStep
  <2>4. CASE RequestEnds(i)
    BY <1>0, <2>4 DEF RequestEnds, RequestSucceeds, RequestFails, checkerVars, MainTypeOK, FaultStep
  <2>5. CASE ReportFailure(i)
    BY <1>0, <2>5 DEF ReportFailure, checkerVars, MainTypeOK, FaultStep
  <2> QED
    BY <1>2, <2>1, <2>2, <2>3, <2>4, <2>5 DEF Run, Startup, Sync, HealthCheck
<1>3. ASSUME NEW i \in Instances, BootDegraded(i) PROVE FaultStep
  BY <1>1, <1>3 DEF BootDegraded, checkerVars
<1>4. ASSUME NEW i \in Instances, Crash(i) PROVE FaultStep
  BY <1>0, <1>4 DEF Crash, CheckerTypeOK, MainTypeOK, NoProbe, FaultStep
<1>5. ASSUME NEW u \in URLs, BackendChanges(u) PROVE FaultStep
  BY <1>0, <1>5 DEF BackendChanges, checkerVars, FaultStep
<1>6. ASSUME NEW u \in URLs, DNSChanges(u) PROVE FaultStep
  BY <1>1, <1>6 DEF DNSChanges, checkerVars
<1>7. CASE RedisFails
  BY <1>1, <1>7 DEF RedisFails, checkerVars
<1>8. ASSUME NEW i \in Instances, NEW u \in URLs, RequestStarts(i, u) PROVE FaultStep
  BY <1>1, <1>8 DEF RequestStarts, checkerVars
<1> QED
  BY <1>2, <1>3, <1>4, <1>5, <1>6, <1>7, <1>8 DEF Next

LEMMA FaultNext ==
  ASSUME CInv, Next
  PROVE  FaultInv'
<1>1. FaultStep
  BY FaultStepNext
<1>2. ASSUME NEW u \in URLs \ faulty' PROVE Clean(u)'
  <2>1. u \in URLs \ faulty /\ Clean(u)
    BY <1>1, <1>2, CleanIsProperty DEF FaultStep, CInv, FaultInv
  <2>2. ASSUME NEW v \in URLs, BackendChanges(v) \/ DNSChanges(v) PROVE Clean(u)'
    BY <2>1, <2>2, CleanKept DEF BackendChanges, DNSChanges, redisVars
  <2>3. ASSUME NEW i \in Instances, NEW v \in URLs, RequestStarts(i, v) PROVE Clean(u)'
    BY <2>1, <2>3, CleanKept DEF RequestStarts, redisVars
  <2>4. ASSUME NEW i \in Instances, BootDegraded(i) PROVE Clean(u)'
    BY <2>1, <2>4, CleanKept DEF BootDegraded, redisVars
  <2> QED
    BY <1>2, <2>1, <2>2, <2>3, <2>4, CleanRun, CleanCrash, CleanFails DEF Next
<1>3. OnlyFailuresSpread'
  BY <1>2 DEF OnlyFailuresSpread, Clean, Down
<1> QED
  BY <1>1, <1>3 DEF FaultStep, FaultInv

LEMMA CInvNext == CInv /\ [Next]_vars => CInv'
<1> SUFFICES ASSUME CInv, [Next]_vars PROVE CInv'
  OBVIOUS
<1>1. CASE Next
  BY <1>1, RedisTypeNext, ProbesNext, MainTypeNext, FaultNext DEF CInv, ProbesOK
<1>2. CASE UNCHANGED vars
  <2>1. RedisTypeOK'
    BY <1>2 DEF vars, redisVars, CInv, RedisTypeOK
  <2>2. ProbesOK'
    BY <1>2, ProbesUnchanged DEF vars, redisVars, checkerVars, CheckerFrame
  <2>3. MainTypeOK'
    BY <1>2 DEF vars, CInv, MainTypeOK
  <2>4. FaultInv'
    BY <1>2 DEF vars, redisVars, checkerVars, CInv, FaultInv, OnlyFailuresSpread
  <2> QED
    BY <2>1, <2>2, <2>3, <2>4 DEF CInv, ProbesOK
<1> QED
  BY <1>1, <1>2

-----------------------------------------------------------------------------
(***************************************************************************)
(* Whatever crashes, lost messages, late statuses and DNS changes there    *)
(* are: a flag belongs to an entry, an inbox holds no more than its        *)
(* capacity, and every call, message and probe is well formed.             *)
(***************************************************************************)
THEOREM ClusterTypeCorrect == Spec => []TypeOK
<1>1. CInv => TypeOK
  BY DEF CInv, MainTypeOK, TypeOK
<1> QED
  BY CInvInit, CInvNext, <1>1, PTL DEF Spec

(***************************************************************************)
(* checkAll's semaphore: no path through checkBackend loses a slot or      *)
(* gives one back twice.                                                   *)
(***************************************************************************)
THEOREM NoSlotIsLost == Spec => []SlotsExact
<1>1. CInv => SlotsExact
  BY DEF CInv, SlotsInv, Holding, SlotsExact
<1> QED
  BY CInvInit, CInvNext, <1>1, PTL DEF Spec

(***************************************************************************)
(* A backend that has not failed is never DOWN in Redis, in a message or   *)
(* in a call, for any number of instances and however they start and stop. *)
(***************************************************************************)
THEOREM FalseAlarmsDoNotSpread == Spec => []OnlyFailuresSpread
<1>1. CInv => OnlyFailuresSpread
  BY DEF CInv, FaultInv
<1> QED
  BY CInvInit, CInvNext, <1>1, PTL DEF Spec

=============================================================================
