------------------------- MODULE LoadBalancerProofs -------------------------
(***************************************************************************)
(* Proofs about LoadBalancer, for any configs, ranks and threads: the      *)
(* balancer never owns two engine processes, never loses one, reports it   *)
(* truthfully, serves the best config of its last pool, and stops clean.   *)
(***************************************************************************)
EXTENDS LoadBalancer, FiniteSetTheorems, TLAPS

InRefresh == {"spawn", "await"}

(* The mutex is held exactly by the thread that is inside a refresh, and   *)
(* std::terminate ends all threads at once.                                *)
Locking ==
    /\ \A t \in Thread : pc[t] \in InRefresh => lock = t
    /\ lock # Nobody => pc[lock] \in InRefresh
    /\ \A s, t \in Thread : pc[s] = "terminated" => pc[t] = "terminated"

(* Where the engine process can be.  Outside a refresh it is recorded;     *)
(* inside one nothing is recorded and the process, if any, is `spawned'.   *)
Ownership ==
    /\ \A p, q \in recorded : p = q
    /\ lock = Nobody => spawned = NoPid /\ DOMAIN engine \subseteq recorded
    /\ lock # Nobody => recorded = {} /\ chosen \in DOMAIN backends
    /\ \A t \in Thread :
         /\ pc[t] = "spawn" => spawned = NoPid /\ DOMAIN engine = {}
         /\ pc[t] = "await" => /\ spawned \in Pid
                               /\ DOMAIN engine \subseteq {spawned}
                               /\ \A p \in DOMAIN engine : engine[p] = chosen

Healthy == {u \in DOMAIN backends : backends[u] = "healthy"}

(* What the backends say of the recorded process.                          *)
Reporting ==
    /\ \A u, v \in Healthy : u = v
    /\ lock # Nobody => Healthy = {}
    /\ lock = Nobody => (Healthy = {} <=> recorded = {})
    /\ lock = Nobody => \A p \in recorded \cap DOMAIN engine : engine[p] \in Healthy

Best(u) == \E B \in BackendSets : u \in FirstValid(B)

(* The config being started or served is a best one of the current pool.   *)
Choosing ==
    /\ lock # Nobody => Best(chosen)
    /\ running /\ lock = Nobody
         /\ (\A t \in Thread : pc[t] \notin {"refresh", "terminated"})
       => \A p \in recorded \cap DOMAIN engine : Best(engine[p])

(* What a stop that overlapped no start has achieved so far.               *)
Stopping ==
    /\ ~joinable => pc[Monitor] \in {"idle", "terminated"}
    /\ pc[Stopper] \in {"idle", "join", "kill", "terminated"}
    /\ pc[Stopper] \in {"join", "kill"} /\ ~raced =>
         /\ ~running
         /\ pc[Starter] = "idle"
         /\ pc[Stopper] = "kill" => pc[Monitor] = "idle"
    /\ pc[Stopper] = "idle" /\ ~session /\ ~raced =>
         /\ ~running
         /\ \A t \in Thread : pc[t] = "idle"
         /\ DOMAIN engine = {}

IInv == TypeOK /\ Locking /\ Ownership /\ Reporting /\ Choosing /\ Stopping

-----------------------------------------------------------------------------
(* What is known of the constants.                                         *)
LEMMA Constants ==
    /\ Starter \in Thread /\ Stopper \in Thread /\ Monitor \in Thread
    /\ Starter # Stopper /\ Starter # Monitor /\ Stopper # Monitor
    /\ \A t \in Updater : t \in Thread /\ t # Starter /\ t # Stopper /\ t # Monitor
    /\ \A t \in Thread : t # Starter /\ t # Stopper /\ t # Monitor => t \in Updater
    /\ Nobody \notin Thread /\ NoPid \notin Pid /\ NoUri \notin Uri
BY LoadBalancerAssumption DEF Thread

(* The backends and the chosen config of a refresh are configs.            *)
LEMMA BackendsAreUris ==
    ASSUME TypeOK, NEW B \in BackendSets
    PROVE  B \subseteq Uri
BY DEF TypeOK, BackendSets, Candidates

(* The invariant holds at the start.                                       *)
LEMMA InitIInv == Init => IInv
<1> SUFFICES ASSUME Init PROVE IInv  OBVIOUS
<1> USE Constants DEF Init
<1>1. TypeOK  BY DEF TypeOK, NoBackends, NoEngines, Places
<1>2. Locking  BY DEF Locking, InRefresh
<1>3. Ownership  BY DEF Ownership, NoEngines
<1>4. Reporting  BY DEF Reporting, Healthy, NoBackends, NoEngines
<1>5. Choosing  BY DEF Choosing
<1>6. Stopping  BY DEF Stopping, NoEngines
<1> QED  BY <1>1, <1>2, <1>3, <1>4, <1>5, <1>6 DEF IInv

-----------------------------------------------------------------------------
(* An unchanged pool has the same best configs.                            *)
LEMMA BestUnchanged ==
    ASSUME UNCHANGED pool
    PROVE  \A u : Best(u)' <=> Best(u)
BY DEF pool, Best, BackendSets, FirstValid, Candidates, Before

(* Taking the mutex keeps the invariant: the recorded process is killed first.*)
LEMMA RefreshBeginIInv ==
    ASSUME IInv, NEW t \in Thread, RefreshBegin(t)
    PROVE  IInv'
<1> USE Constants, BestUnchanged DEF IInv, RefreshBegin, AfterRefresh, Kill, Restrict, Goto, pool, view, flags, bounds
<1>0. DOMAIN engine' = {} /\ engine' \in [DOMAIN engine' -> Uri]
  BY DEF Ownership
<1>b. PICK B \in BackendSets :
        \/ /\ B \cap Valid = {}
           /\ backends' = [u \in B |-> "dead"]
           /\ ready' = FALSE
           /\ Goto(t, AfterRefresh(t))
           /\ UNCHANGED <<chosen, lock>>
        \/ /\ chosen' \in FirstValid(B)
           /\ backends' = [u \in B |-> IF u \in Valid THEN "unknown" ELSE "dead"]
           /\ lock' = t
           /\ Goto(t, "spawn")
           /\ UNCHANGED ready
  OBVIOUS
<1>1. TypeOK'
  <2>1. DOMAIN backends' \subseteq Uri
        /\ backends' \in [DOMAIN backends' -> {"unknown", "healthy", "dead"}]
    BY <1>b, BackendsAreUris
  <2>2. chosen' \in Uri \cup {NoUri}
    BY <1>b, BackendsAreUris DEF FirstValid, TypeOK
  <2>3. pc' \in [Thread -> Places]
    BY <1>b DEF TypeOK, Places
  <2>4. ready' \in BOOLEAN /\ lock' \in Thread \cup {Nobody}
    BY <1>b DEF TypeOK
  <2> QED  BY <1>0, <2>1, <2>2, <2>3, <2>4 DEF TypeOK
<1>2. Locking'  BY DEF TypeOK, Locking, InRefresh
<1>3. Ownership'  BY <1>0, <1>b DEF TypeOK, Locking, InRefresh, Ownership, FirstValid
<1>4. Reporting'  BY DEF TypeOK, Locking, InRefresh, Ownership, Reporting, Healthy
<1>5. Choosing'
  <2>1. (lock # Nobody => Best(chosen))'
    BY <1>b DEF Best, BackendSets, FirstValid, Candidates, Before
  <2> QED  BY <1>0, <2>1 DEF Choosing
<1>6. Stopping'  BY DEF TypeOK, Locking, InRefresh, Ownership, Stopping
<1> QED  BY <1>1, <1>2, <1>3, <1>4, <1>5, <1>6

(* So does starting the engine, with nothing else alive,                   *)
LEMMA RefreshSpawnIInv ==
    ASSUME IInv, NEW t \in Thread, RefreshSpawn(t)
    PROVE  IInv'
<1> USE Constants, BestUnchanged DEF IInv, RefreshSpawn, Goto, pool, view, flags, bounds
<1>1. TypeOK'
  <2>1. chosen \in Uri  BY DEF TypeOK, Locking, InRefresh, Ownership
  <2> QED  BY <2>1 DEF TypeOK, Places
<1>2. Locking'  BY DEF TypeOK, Locking, InRefresh
<1>3. Ownership'  BY DEF TypeOK, Locking, InRefresh, Ownership
<1>4. Reporting'  BY DEF TypeOK, Locking, InRefresh, Ownership, Reporting, Healthy
<1>5. Choosing'  BY DEF TypeOK, Locking, InRefresh, Ownership, Choosing
<1>6. Stopping'  BY DEF TypeOK, Locking, InRefresh, Ownership, Stopping
<1> QED  BY <1>1, <1>2, <1>3, <1>4, <1>5, <1>6

(* recording it once it answers,                                           *)
LEMMA RefreshReadyIInv ==
    ASSUME IInv, NEW t \in Thread, RefreshReady(t)
    PROVE  IInv'
<1> USE Constants, BestUnchanged DEF IInv, RefreshReady, RefreshReturn, AfterRefresh, Goto, pool, view, flags, bounds
<1>1. TypeOK'  BY DEF TypeOK, Places
<1>2. Locking'  BY DEF TypeOK, Locking, InRefresh
<1>3. Ownership'  BY DEF TypeOK, Locking, InRefresh, Ownership
<1>4. Reporting'  BY DEF TypeOK, Locking, InRefresh, Ownership, Reporting, Healthy
<1>5. Choosing'  BY DEF TypeOK, Locking, InRefresh, Ownership, Choosing
<1>6. Stopping'  BY DEF TypeOK, Locking, InRefresh, Ownership, Stopping
<1> QED  BY <1>1, <1>2, <1>3, <1>4, <1>5, <1>6

(* and killing it when it does not.                                        *)
LEMMA RefreshFailedIInv ==
    ASSUME IInv, NEW t \in Thread, RefreshFailed(t)
    PROVE  IInv'
<1> USE Constants, BestUnchanged DEF IInv, RefreshFailed, RefreshReturn, AfterRefresh, Kill, Restrict, Goto, pool, view, flags, bounds
<1>1. TypeOK'  BY DEF TypeOK, Places
<1>2. Locking'  BY DEF TypeOK, Locking, InRefresh
<1>3. Ownership'  BY DEF TypeOK, Locking, InRefresh, Ownership
<1>4. Reporting'  BY DEF TypeOK, Locking, InRefresh, Ownership, Reporting, Healthy
<1>5. Choosing'  BY DEF TypeOK, Locking, InRefresh, Ownership, Choosing
<1>6. Stopping'  BY DEF TypeOK, Locking, InRefresh, Ownership, Stopping
<1> QED  BY <1>1, <1>2, <1>3, <1>4, <1>5, <1>6

(* An update leaves the process alone and owes a refresh.                  *)
LEMMA UpdateIInv ==
    ASSUME IInv, NEW t \in Updater, NEW configs \in SUBSET Uri, NEW f \in Uri \cup {NoUri},
           Update(t, configs, f)
    PROVE  IInv'
<1> USE Constants, BestUnchanged DEF IInv, Update, Goto, pool, view, flags, bounds
<1>1. TypeOK'  BY DEF TypeOK, Places
<1>2. Locking'  BY DEF TypeOK, Locking, InRefresh
<1>3. Ownership'  BY DEF TypeOK, Locking, InRefresh, Ownership
<1>4. Reporting'  BY DEF TypeOK, Locking, InRefresh, Ownership, Reporting, Healthy
<1>5. Choosing'  BY DEF TypeOK, Locking, InRefresh, Ownership, Choosing
<1>6. Stopping'  BY DEF TypeOK, Locking, InRefresh, Ownership, Stopping
<1> QED  BY <1>1, <1>2, <1>3, <1>4, <1>5, <1>6

(* start replaces the pool of a balancer that is not running,              *)
LEMMA StartIInv ==
    ASSUME IInv, NEW initial \in SUBSET Uri, Start(initial)
    PROVE  IInv'
<1> USE Constants, BestUnchanged DEF IInv, Start, Goto, pool, view, flags, bounds
<1>1. TypeOK'
  <2>1. given' \in BOOLEAN  BY DEF TypeOK
  <2>2. available' \subseteq Uri  BY DEF TypeOK
  <2>3. pc' \in [Thread -> Places]  BY DEF TypeOK, Places
  <2>4. ready' \in BOOLEAN  BY DEF TypeOK
  <2> QED  BY <2>1, <2>2, <2>3, <2>4 DEF TypeOK
<1>2. Locking'  BY DEF TypeOK, Locking, InRefresh
<1>3. Ownership'  BY DEF TypeOK, Locking, InRefresh, Ownership
<1>4. Reporting'  BY DEF TypeOK, Locking, InRefresh, Ownership, Reporting, Healthy
<1>5. Choosing'  BY DEF TypeOK, Locking, InRefresh, Ownership, Choosing
<1>6. Stopping'  BY DEF TypeOK, Locking, InRefresh, Ownership, Stopping
<1> QED  BY <1>1, <1>2, <1>3, <1>4, <1>5, <1>6

(* sets running_ and owes a refresh,                                       *)
LEMMA StartRunningIInv ==
    ASSUME IInv, StartRunning
    PROVE  IInv'
<1> USE Constants, BestUnchanged DEF IInv, StartRunning, Goto, pool, view, flags, bounds
<1>1. TypeOK'  BY DEF TypeOK, Places
<1>2. Locking'  BY DEF TypeOK, Locking, InRefresh
<1>3. Ownership'  BY DEF TypeOK, Locking, InRefresh, Ownership
<1>4. Reporting'  BY DEF TypeOK, Locking, InRefresh, Ownership, Reporting, Healthy
<1>5. Choosing'  BY DEF TypeOK, Locking, InRefresh, Ownership, Choosing
<1>6. Stopping'  BY DEF TypeOK, Locking, InRefresh, Ownership, Stopping
<1> QED  BY <1>1, <1>2, <1>3, <1>4, <1>5, <1>6

(* and starts the health thread, or gives up.                              *)
LEMMA StartCheckIInv ==
    ASSUME IInv, StartCheck
    PROVE  IInv'
<1> USE Constants, BestUnchanged DEF IInv, StartCheck, Goto, pool, view, flags, bounds
<1>1. TypeOK'  BY DEF TypeOK, Places
<1>2. Locking'  BY DEF TypeOK, Locking, InRefresh
<1>3. Ownership'  BY DEF TypeOK, Locking, InRefresh, Ownership
<1>4. Reporting'  BY DEF TypeOK, Locking, InRefresh, Ownership, Reporting, Healthy
<1>5. Choosing'
  <2>1. ASSUME \A t \in Thread : pc'[t] \notin {"refresh", "terminated"}
        PROVE  \A t \in Thread : pc[t] \notin {"refresh", "terminated"}
    BY <2>1 DEF TypeOK, Locking, Stopping
  <2> QED  BY <2>1 DEF Choosing
<1>6. Stopping'
  <2>1. pc[Starter] = "check" /\ pc[Stopper] # "terminated"
    BY DEF Locking
  <2>2. (pc[Stopper] \in {"join", "kill"} => raced)
        /\ (pc[Stopper] = "idle" => session \/ raced)
    BY <2>1 DEF Stopping
  <2>3. pc'[Stopper] = pc[Stopper] \/ pc'[Stopper] = "terminated"
    BY DEF TypeOK
  <2>4. ~joinable' => pc'[Monitor] \in {"idle", "terminated"}
    BY DEF TypeOK, Stopping
  <2> QED  BY <2>2, <2>3, <2>4 DEF Stopping
<1> QED  BY <1>1, <1>2, <1>3, <1>4, <1>5, <1>6

(* stop clears running_,                                                   *)
LEMMA StopBeginIInv ==
    ASSUME IInv, StopBegin
    PROVE  IInv'
<1> USE Constants, BestUnchanged DEF IInv, StopBegin, Goto, pool, view, flags, bounds
<1>1. TypeOK'  BY DEF TypeOK, Places
<1>2. Locking'  BY DEF TypeOK, Locking, InRefresh
<1>3. Ownership'  BY DEF TypeOK, Locking, InRefresh, Ownership
<1>4. Reporting'  BY DEF TypeOK, Locking, InRefresh, Ownership, Reporting, Healthy
<1>5. Choosing'  BY DEF TypeOK, Locking, InRefresh, Ownership, Choosing
<1>6. Stopping'  BY DEF TypeOK, Locking, InRefresh, Ownership, Stopping
<1> QED  BY <1>1, <1>2, <1>3, <1>4, <1>5, <1>6

(* waits for the health thread,                                            *)
LEMMA StopJoinIInv ==
    ASSUME IInv, StopJoin
    PROVE  IInv'
<1> USE Constants, BestUnchanged DEF IInv, StopJoin, Goto, pool, view, flags, bounds
<1>1. TypeOK'  BY DEF TypeOK, Places
<1>2. Locking'  BY DEF TypeOK, Locking, InRefresh
<1>3. Ownership'  BY DEF TypeOK, Locking, InRefresh, Ownership
<1>4. Reporting'  BY DEF TypeOK, Locking, InRefresh, Ownership, Reporting, Healthy
<1>5. Choosing'  BY DEF TypeOK, Locking, InRefresh, Ownership, Choosing
<1>6. Stopping'  BY DEF TypeOK, Locking, InRefresh, Ownership, Stopping
<1> QED  BY <1>1, <1>2, <1>3, <1>4, <1>5, <1>6

(* and kills what is recorded.                                             *)
LEMMA StopKillIInv ==
    ASSUME IInv, StopKill
    PROVE  IInv'
<1> USE Constants, BestUnchanged DEF IInv, StopKill, Kill, Restrict, NoBackends, Goto, pool, view, flags, bounds
<1>1. TypeOK'  BY DEF TypeOK, Places
<1>2. Locking'  BY DEF TypeOK, Locking, InRefresh
<1>3. Ownership'  BY DEF TypeOK, Locking, InRefresh, Ownership
<1>4. Reporting'  BY DEF TypeOK, Locking, InRefresh, Ownership, Reporting, Healthy
<1>5. Choosing'  BY DEF TypeOK, Locking, InRefresh, Ownership, Choosing
<1>6. Stopping'  BY DEF TypeOK, Locking, InRefresh, Ownership, Stopping
<1> QED  BY <1>1, <1>2, <1>3, <1>4, <1>5, <1>6

(* The health thread ends,                                                 *)
LEMMA MonitorExitIInv ==
    ASSUME IInv, MonitorExit
    PROVE  IInv'
<1> USE Constants, BestUnchanged DEF IInv, MonitorExit, Goto, pool, view, flags, bounds
<1>1. TypeOK'  BY DEF TypeOK, Places
<1>2. Locking'  BY DEF TypeOK, Locking, InRefresh
<1>3. Ownership'  BY DEF TypeOK, Locking, InRefresh, Ownership
<1>4. Reporting'  BY DEF TypeOK, Locking, InRefresh, Ownership, Reporting, Healthy
<1>5. Choosing'  BY DEF TypeOK, Locking, InRefresh, Ownership, Choosing
<1>6. Stopping'  BY DEF TypeOK, Locking, InRefresh, Ownership, Stopping
<1> QED  BY <1>1, <1>2, <1>3, <1>4, <1>5, <1>6

(* looks at the port,                                                      *)
LEMMA MonitorProbeIInv ==
    ASSUME IInv, NEW seen \in BOOLEAN, MonitorProbe(seen)
    PROVE  IInv'
<1> USE Constants, BestUnchanged DEF IInv, MonitorProbe, Goto, pool, view, flags, bounds
<1>1. TypeOK'  BY DEF TypeOK, Places
<1>2. Locking'  BY DEF TypeOK, Locking, InRefresh
<1>3. Ownership'  BY DEF TypeOK, Locking, InRefresh, Ownership
<1>4. Reporting'  BY DEF TypeOK, Locking, InRefresh, Ownership, Reporting, Healthy
<1>5. Choosing'  BY DEF TypeOK, Locking, InRefresh, Ownership, Choosing
<1>6. Stopping'  BY DEF TypeOK, Locking, InRefresh, Ownership, Stopping
<1> QED  BY <1>1, <1>2, <1>3, <1>4, <1>5, <1>6

(* and stores what it saw.                                                 *)
LEMMA MonitorStoreIInv ==
    ASSUME IInv, MonitorStore
    PROVE  IInv'
<1> USE Constants, BestUnchanged DEF IInv, MonitorStore, Goto, pool, view, flags, bounds
<1>1. TypeOK'  BY DEF TypeOK, Places
<1>2. Locking'  BY DEF TypeOK, Locking, InRefresh
<1>3. Ownership'  BY DEF TypeOK, Locking, InRefresh, Ownership
<1>4. Reporting'  BY DEF TypeOK, Locking, InRefresh, Ownership, Reporting, Healthy
<1>5. Choosing'  BY DEF TypeOK, Locking, InRefresh, Ownership, Choosing
<1>6. Stopping'  BY DEF TypeOK, Locking, InRefresh, Ownership, Stopping
<1> QED  BY <1>1, <1>2, <1>3, <1>4, <1>5, <1>6

(* A process that dies leaves less to account for.                         *)
LEMMA EngineDiesIInv ==
    ASSUME IInv, NEW p \in Pid, EngineDies(p)
    PROVE  IInv'
<1> USE Constants, BestUnchanged DEF IInv, EngineDies, Kill, Restrict, Goto, pool, view, flags, bounds
<1>1. TypeOK'  BY DEF TypeOK, Places
<1>2. Locking'  BY DEF TypeOK, Locking, InRefresh
<1>3. Ownership'  BY DEF TypeOK, Locking, InRefresh, Ownership
<1>4. Reporting'  BY DEF TypeOK, Locking, InRefresh, Ownership, Reporting, Healthy
<1>5. Choosing'  BY DEF TypeOK, Locking, InRefresh, Ownership, Choosing
<1>6. Stopping'  BY DEF TypeOK, Locking, InRefresh, Ownership, Stopping
<1> QED  BY <1>1, <1>2, <1>3, <1>4, <1>5, <1>6

(* A step of another part changes nothing.                                 *)
LEMMA StutterIInv ==
    ASSUME IInv, UNCHANGED vars
    PROVE  IInv'
<1> USE BestUnchanged DEF IInv, vars, pool, view, flags, bounds
<1>1. TypeOK'  BY DEF TypeOK
<1>2. Locking'  BY DEF Locking
<1>3. Ownership'  BY DEF Ownership
<1>4. Reporting'  BY DEF Reporting, Healthy
<1>5. Choosing'  BY DEF Choosing
<1>6. Stopping'  BY DEF Stopping
<1> QED  BY <1>1, <1>2, <1>3, <1>4, <1>5, <1>6

(* Every step keeps the invariant.                                         *)
LEMMA NextIInv == IInv /\ [Next]_vars => IInv'
<1> SUFFICES ASSUME IInv, [Next]_vars PROVE IInv'  OBVIOUS
<1>1. ASSUME NEW t \in Thread, Refresh(t) PROVE IInv'
  BY <1>1, RefreshBeginIInv, RefreshSpawnIInv, RefreshReadyIInv, RefreshFailedIInv
  DEF Refresh
<1>2. ASSUME NEW t \in Updater, UpdateCall(t) PROVE IInv'
  <2>1. available \in SUBSET Uri /\ forced \in Uri \cup {NoUri}
    BY DEF IInv, TypeOK
  <2> QED  BY <1>2, <2>1, UpdateIInv
           DEF UpdateCall, UpdateAvailableConfigs, SetForcedBackend, ClearForcedBackend
<1>3. ASSUME StartStep PROVE IInv'
  BY <1>3, StartIInv, StartRunningIInv, StartCheckIInv DEF StartStep
<1>4. ASSUME StopStep PROVE IInv'
  BY <1>4, StopBeginIInv, StopJoinIInv, StopKillIInv DEF StopStep
<1>5. ASSUME MonitorStep PROVE IInv'
  BY <1>5, MonitorExitIInv, MonitorProbeIInv, MonitorStoreIInv DEF MonitorStep
<1>6. ASSUME NEW p \in Pid, EngineDies(p) PROVE IInv'
  BY <1>6, EngineDiesIInv
<1>7. ASSUME UNCHANGED vars PROVE IInv'
  BY <1>7, StutterIInv
<1> QED  BY <1>1, <1>2, <1>3, <1>4, <1>5, <1>6, <1>7 DEF Next

(* IInv is an inductive invariant of the balancer.                         *)
THEOREM Invariance == Spec => []IInv
BY InitIInv, NextIInv, PTL DEF Spec

-----------------------------------------------------------------------------
(* The properties the runs check, for every instance.                      *)

(* A set without two different elements has at most one.                   *)
LEMMA AtMostOne ==
    ASSUME NEW S, \A x, y \in S : x = y
    PROVE  Cardinality(S) <= 1
<1>1. CASE S = {}
  BY <1>1, FS_EmptySet
<1>2. CASE S # {}
  <2>1. PICK x \in S : S = {x}  BY <1>2
  <2> QED  BY <2>1, FS_Singleton
<1> QED  BY <1>1, <1>2

(* The variables keep their types (load_balancer.h, the members).          *)
THEOREM TypeCorrect == Spec => []TypeOK
<1>1. IInv => TypeOK  BY DEF IInv
<1> QED  BY <1>1, Invariance, PTL

(* A balancer never owns two engine processes, however its refreshes,      *)
(* starts, stops and updates interleave.                                   *)
THEOREM OneEngineCorrect == Spec => []OneEngine
<1>1. ASSUME IInv PROVE OneEngine
  <2>1. \A p, q \in DOMAIN engine : p = q
    BY <1>1, Constants DEF IInv, TypeOK, Locking, Ownership, InRefresh
  <2> QED  BY <2>1, AtMostOne DEF OneEngine
<1> QED  BY <1>1, Invariance, PTL

(* Every engine process is known to the balancer or to the refresh that    *)
(* waits for it.                                                           *)
THEOREM NothingOrphaned == Spec => []NoOrphan
<1>1. IInv => NoOrphan
  BY Constants DEF IInv, TypeOK, Locking, Ownership, InRefresh, NoOrphan
<1> QED  BY <1>1, Invariance, PTL

(* Between refreshes the backends report the process that is recorded.     *)
THEOREM StatusTruthful == Spec => []Truthful
<1>1. ASSUME IInv PROVE Truthful
  <2>1. Cardinality(Healthy) <= 1
    BY <1>1, AtMostOne DEF IInv, Reporting
  <2> QED  BY <1>1, <2>1 DEF IInv, Reporting, Healthy, Truthful
<1> QED  BY <1>1, Invariance, PTL

(* With no refresh owed, a running balancer serves a best config of its    *)
(* current pool.                                                           *)
THEOREM LastPoolServed == Spec => []ServesBest
<1>1. IInv => ServesBest
  BY DEF IInv, Choosing, Best, ServesBest
<1> QED  BY <1>1, Invariance, PTL

(* A stop that overlapped no start and ended with no update under way      *)
(* leaves no engine process, and none appears before the next start.       *)
THEOREM StopClean == Spec => []CleanStop
<1>1. IInv => CleanStop
  BY DEF IInv, Stopping, CleanStop
<1> QED  BY <1>1, Invariance, PTL

=============================================================================
