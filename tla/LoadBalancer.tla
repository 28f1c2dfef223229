---------------------------- MODULE LoadBalancer ----------------------------
(***************************************************************************)
(* One local balancer (class MultiProxyServer): a pool of configs, one     *)
(* engine process listening on the balancer's port, a health thread, the   *)
(* thread that runs start, the thread that runs stop (the window starts    *)
(* and stops the program on two threads), and the threads that update the  *)
(* pool.  backends_mutex_ protects everything but running_ and the thread  *)
(* handle.  It is held through a whole refresh, which takes seconds; the   *)
(* health thread's probe and the accesses to running_ happen outside it.   *)
(***************************************************************************)
EXTENDS Naturals, FiniteSets, Functions

CONSTANTS
    Uri,            \* the configs
    Rank,           \* the health metric of each config, lower is better
    Valid,          \* the configs that parse and have an engine
    Works,          \* the valid configs whose engine can come up
    MaxBackends,    \* backends built from the pool        (20)
    Updater,        \* threads that call the update operations
    Pid,            \* engine process identifiers
    MaxCalls,       \* bound: update calls
    MaxStarts,      \* bound: calls of start
    MaxDeaths,      \* bound: engine processes that exit on their own
    Starter, Stopper, Monitor,   \* the other threads
    NoUri, NoPid, Nobody         \* "no config", "no process", "mutex free"

ASSUME LoadBalancerAssumption ==
    /\ Rank \in [Uri -> Nat]
    /\ Works \subseteq Valid
    /\ Valid \subseteq Uri
    /\ MaxBackends \in Nat \ {0}
    /\ {MaxCalls, MaxStarts, MaxDeaths} \subseteq Nat
    /\ Starter # Stopper /\ Starter # Monitor /\ Stopper # Monitor
    /\ {Starter, Stopper, Monitor} \cap Updater = {}
    /\ Nobody \notin Updater \cup {Starter, Stopper, Monitor}
    /\ NoUri \notin Uri
    /\ NoPid \notin Pid

Thread == Updater \cup {Starter, Stopper, Monitor}

VARIABLES
    available,  \* available_configs_
    forced,     \* forced_uri_
    backends,   \* backends_: the state of each backend built last
    recorded,   \* xray_processes_: the processes the balancer knows
    ready,      \* the stored probe flags say mixed_ready
    running,    \* running_
    joinable,   \* health_thread_ holds a thread
    lock,       \* holder of backends_mutex_
    pc,         \* where each thread is
    given,      \* start was given a list that is not empty
    chosen,     \* the config selected by the refresh that holds the mutex
    spawned,    \* the process that refresh has started
    engine,     \* the engine processes that exist, with the config of each
    probe,      \* what the health thread's last probe saw
    session,    \* the program was started and not stopped since
    raced,      \* the last stop overlapped a start, or an update at its end
    calls, starts, deaths   \* counters for the bounds

pool == <<available, forced>>
view == <<backends, ready>>
flags == <<running, joinable, session>>
bounds == <<calls, starts, deaths>>
vars == <<pool, view, flags, bounds, recorded, lock, pc, given, chosen,
          spawned, engine, probe, raced>>

-----------------------------------------------------------------------------
Places == {"idle", "starting", "refresh", "spawn", "await", "check",
           "terminated", "join", "kill", "sleep", "probed"}

NoBackends == [u \in {} |-> "dead"]
NoEngines == [p \in {} |-> NoUri]

Init ==
    /\ available = {} /\ forced = NoUri
    /\ backends = NoBackends
    /\ recorded = {}
    /\ ready = FALSE /\ running = FALSE /\ joinable = FALSE
    /\ lock = Nobody
    /\ pc = [t \in Thread |-> "idle"]
    /\ given = FALSE
    /\ chosen = NoUri /\ spawned = NoPid
    /\ engine = NoEngines
    /\ probe = FALSE
    /\ session = FALSE /\ raced = FALSE
    /\ calls = 0 /\ starts = 0 /\ deaths = 0

Goto(t, where) == pc' = [pc EXCEPT ![t] = where]

(* stopProcess on each of these (a process already gone is no error).      *)
Kill(pids) == engine' = Restrict(engine, DOMAIN engine \ pids)

-----------------------------------------------------------------------------
(* refreshBackends_unlocked                                                *)

(* The order of the refreshed list: the forced backend, then by metric.    *)
Before(u, v) == u # v /\ (u = forced \/ (v # forced /\ Rank[u] < Rank[v]))

Candidates ==
    IF forced = NoUri THEN available ELSE available \cup {forced}

(* The possible lists of backends: the first MaxBackends, ties either way. *)
BackendSets ==
    {B \in SUBSET Candidates :
        /\ Cardinality(B) <= MaxBackends
        /\ B = Candidates \/ Cardinality(B) = MaxBackends
        /\ \A u \in B, v \in Candidates \ B : ~Before(v, u)}

(* The first backend of the list that parses and has an engine.            *)
FirstValid(B) ==
    {u \in B \cap Valid : \A v \in B \cap Valid : ~Before(v, u)}

(* Where a thread goes when its refresh is over.                           *)
AfterRefresh(t) ==
    IF t = Starter THEN "check" ELSE IF t = Monitor THEN "sleep" ELSE "idle"

(* Take the mutex, rebuild the list and kill the old process.  With no     *)
(* valid backend the refresh ends here.                                    *)
RefreshBegin(t) ==
    /\ pc[t] = "refresh"
    /\ lock = Nobody
    /\ Kill(recorded)
    /\ recorded' = {}
    /\ \E B \in BackendSets :
         \/ /\ B \cap Valid = {}
            /\ backends' = [u \in B |-> "dead"]
            /\ ready' = FALSE
            /\ Goto(t, AfterRefresh(t))
            /\ UNCHANGED <<chosen, lock>>
         \/ /\ chosen' \in FirstValid(B)
            /\ backends' = [u \in B |-> IF u \in Valid THEN "unknown" ELSE "dead"]
            /\ lock' = t
            /\ Goto(t, "spawn")
            /\ UNCHANGED ready
    /\ UNCHANGED <<pool, flags, bounds, given, spawned, probe, raced>>

(* Start the engine of the chosen backend, mutex held.                     *)
RefreshSpawn(t) ==
    /\ pc[t] = "spawn"
    /\ \E p \in Pid \ DOMAIN engine :
         /\ spawned' = p
         /\ engine' = [q \in DOMAIN engine \cup {p} |->
                         IF q = p THEN chosen ELSE engine[q]]
    /\ Goto(t, "await")
    /\ UNCHANGED <<pool, view, flags, bounds, recorded, lock, given, chosen,
                   probe, raced>>

(* The end of a refresh that had a valid backend: release the mutex.       *)
RefreshReturn(t) ==
    /\ chosen' = NoUri
    /\ spawned' = NoPid
    /\ lock' = Nobody
    /\ Goto(t, AfterRefresh(t))
    /\ UNCHANGED <<pool, flags, bounds, given, probe, raced>>

(* The listener came up: record the process.                               *)
RefreshReady(t) ==
    /\ pc[t] = "await"
    /\ spawned \in DOMAIN engine
    /\ chosen \in Works
    /\ recorded' = {spawned}
    /\ backends' = [backends EXCEPT ![chosen] = "healthy"]
    /\ ready' = TRUE
    /\ RefreshReturn(t)
    /\ UNCHANGED engine

(* wrong variant: the process that did not come up is left behind *)
RefreshFailedLeaks(t) ==
    /\ pc[t] \in {"spawn", "await"}
    /\ backends' = [u \in DOMAIN backends |-> "dead"]
    /\ ready' = FALSE
    /\ RefreshReturn(t)
    /\ UNCHANGED <<engine, recorded>>

(* The process did not start, or its listener did not answer in time: kill *)
(* it and give up on every backend of the list.                            *)
RefreshFailed(t) ==
    /\ pc[t] \in {"spawn", "await"}
    /\ Kill({spawned})
    /\ backends' = [u \in DOMAIN backends |-> "dead"]
    /\ ready' = FALSE
    /\ RefreshReturn(t)
    /\ UNCHANGED recorded

-----------------------------------------------------------------------------
(* The update operations: change the pool or the forced backend and read   *)
(* running_ under the mutex; refresh, if it was set, after releasing it.   *)

(* wrong variant: no refresh while a process is serving *)
UpdateKeepsServing(t, configs, f) ==
    /\ pc[t] = "idle"
    /\ lock = Nobody
    /\ calls < MaxCalls
    /\ calls' = calls + 1
    /\ available' = configs
    /\ forced' = f
    /\ Goto(t, IF running /\ recorded = {} THEN "refresh" ELSE "idle")
    /\ UNCHANGED <<view, flags, starts, deaths, recorded, lock, given, chosen,
                   spawned, engine, probe, raced>>

Update(t, configs, f) ==
    /\ pc[t] = "idle"
    /\ lock = Nobody
    /\ calls < MaxCalls
    /\ calls' = calls + 1
    /\ available' = configs
    /\ forced' = f
    /\ Goto(t, IF running THEN "refresh" ELSE "idle")
    /\ UNCHANGED <<view, flags, starts, deaths, recorded, lock, given, chosen,
                   spawned, engine, probe, raced>>

UpdateAvailableConfigs(t) == \E configs \in SUBSET Uri : Update(t, configs, forced)
SetForcedBackend(t) == \E u \in Uri : Update(t, available, u)
ClearForcedBackend(t) == Update(t, available, NoUri)

-----------------------------------------------------------------------------
(* start                                                                   *)

(* The window starts the program again only after a stop has returned and  *)
(* the thread that ran start is gone.  A balancer that is running already  *)
(* keeps its list.                                                         *)
Start(initial) ==
    /\ pc[Starter] = "idle" /\ pc[Stopper] = "idle"
    /\ ~session
    /\ starts < MaxStarts
    /\ starts' = starts + 1
    /\ session' = TRUE
    /\ IF running
       THEN UNCHANGED <<available, given, ready, pc>>
       ELSE /\ lock = Nobody
            /\ available' = initial
            /\ given' = (initial # {})
            /\ ready' = FALSE
            /\ Goto(Starter, "starting")
    /\ UNCHANGED <<forced, backends, running, joinable, calls, deaths, recorded,
                   lock, chosen, spawned, engine, probe, raced>>

(* running_ is set outside the mutex.                                      *)
StartRunning ==
    /\ pc[Starter] = "starting"
    /\ running' = TRUE
    /\ Goto(Starter, "refresh")
    /\ UNCHANGED <<pool, view, joinable, session, bounds, recorded, lock, given,
                   chosen, spawned, engine, probe, raced>>

(* After the refresh: no process for a list that was not empty is a        *)
(* failure that clears running_.  Otherwise the threads start; giving a    *)
(* handle that still holds a thread another one ends every thread of the   *)
(* program (std::terminate), not its engine processes.                     *)
StartCheck ==
    /\ pc[Starter] = "check"
    /\ lock = Nobody
    /\ \/ /\ given /\ recorded = {}
          /\ running' = FALSE
          /\ Goto(Starter, "idle")
          /\ UNCHANGED joinable
       \/ /\ ~given \/ recorded # {}
          /\ ~joinable
          /\ joinable' = TRUE
          /\ pc' = [pc EXCEPT ![Starter] = "idle", ![Monitor] = "sleep"]
          /\ UNCHANGED running
       \/ /\ ~given \/ recorded # {}
          /\ joinable
          /\ pc' = [t \in Thread |-> "terminated"]
          /\ UNCHANGED <<running, joinable>>
    /\ UNCHANGED <<pool, view, session, bounds, recorded, lock, given, chosen,
                   spawned, engine, probe, raced>>

-----------------------------------------------------------------------------
(* stop                                                                    *)

(* wrong variant: the health thread is not told *)
StopBeginSilently ==
    /\ pc[Stopper] = "idle"
    /\ session
    /\ raced' = (pc[Starter] # "idle")
    /\ Goto(Stopper, "join")
    /\ UNCHANGED <<pool, view, flags, bounds, recorded, lock, given, chosen,
                   spawned, engine, probe>>

StopBegin ==
    /\ pc[Stopper] = "idle"
    /\ session
    /\ running' = FALSE
    /\ raced' = (pc[Starter] # "idle")
    /\ Goto(Stopper, "join")
    /\ UNCHANGED <<pool, view, joinable, session, bounds, recorded, lock, given,
                   chosen, spawned, engine, probe>>

(* wrong variant: the health thread is not waited for *)
StopDetach ==
    /\ pc[Stopper] = "join"
    /\ joinable' = FALSE
    /\ Goto(Stopper, "kill")
    /\ UNCHANGED <<pool, view, running, session, bounds, recorded, lock, given,
                   chosen, spawned, engine, probe, raced>>

(* Wait for the health thread, if there is one by now.                     *)
StopJoin ==
    /\ pc[Stopper] = "join"
    /\ joinable => pc[Monitor] = "idle"
    /\ joinable' = FALSE
    /\ Goto(Stopper, "kill")
    /\ UNCHANGED <<pool, view, running, session, bounds, recorded, lock, given,
                   chosen, spawned, engine, probe, raced>>

(* Kill the recorded process and forget the backends, under the mutex.     *)
StopKill ==
    /\ pc[Stopper] = "kill"
    /\ lock = Nobody
    /\ Kill(recorded)
    /\ recorded' = {}
    /\ backends' = NoBackends
    /\ ready' = FALSE
    /\ raced' = (raced \/ \E t \in Updater : pc[t] # "idle")
    /\ session' = FALSE
    /\ Goto(Stopper, "idle")
    /\ UNCHANGED <<pool, running, joinable, bounds, lock, given, chosen,
                   spawned, probe>>

-----------------------------------------------------------------------------
(* healthMonitorLoop                                                       *)

MonitorExit ==
    /\ pc[Monitor] = "sleep"
    /\ ~running
    /\ Goto(Monitor, "idle")
    /\ UNCHANGED <<pool, view, flags, bounds, recorded, lock, given, chosen,
                   spawned, engine, probe, raced>>

(* The probe of the port, outside the mutex: it sees whatever process is   *)
(* there, also in the middle of a refresh, and may miss a working one.     *)
MonitorProbe(seen) ==
    /\ pc[Monitor] = "sleep"
    /\ running
    /\ seen => \E p \in DOMAIN engine : engine[p] \in Works
    /\ probe' = seen
    /\ Goto(Monitor, "probed")
    /\ UNCHANGED <<pool, view, flags, bounds, recorded, lock, given, chosen,
                   spawned, engine, raced>>

(* wrong variant: refresh only when a port that was serving no longer is *)
MonitorStoreOnChange ==
    /\ pc[Monitor] = "probed"
    /\ lock = Nobody
    /\ ready' = probe
    /\ Goto(Monitor, IF probe \/ ~ready THEN "sleep" ELSE "refresh")
    /\ UNCHANGED <<pool, backends, flags, bounds, recorded, lock, given,
                   chosen, spawned, engine, probe, raced>>

(* Store what the probe saw, and refresh if the port was not serving.      *)
MonitorStore ==
    /\ pc[Monitor] = "probed"
    /\ lock = Nobody
    /\ ready' = probe
    /\ Goto(Monitor, IF probe THEN "sleep" ELSE "refresh")
    /\ UNCHANGED <<pool, backends, flags, bounds, recorded, lock, given,
                   chosen, spawned, engine, probe, raced>>

-----------------------------------------------------------------------------
(* An engine process exits on its own.                                     *)
EngineDies(p) ==
    /\ p \in DOMAIN engine
    /\ deaths < MaxDeaths
    /\ deaths' = deaths + 1
    /\ Kill({p})
    /\ UNCHANGED <<pool, view, flags, calls, starts, recorded, lock, pc, given,
                   chosen, spawned, probe, raced>>

Refresh(t) ==
    RefreshBegin(t) \/ RefreshSpawn(t) \/ RefreshReady(t) \/ RefreshFailed(t)

UpdateCall(t) ==
    UpdateAvailableConfigs(t) \/ SetForcedBackend(t) \/ ClearForcedBackend(t)

StartStep == (\E initial \in SUBSET Uri : Start(initial)) \/ StartRunning \/ StartCheck
StopStep == StopBegin \/ StopJoin \/ StopKill
MonitorStep == MonitorExit \/ (\E seen \in BOOLEAN : MonitorProbe(seen)) \/ MonitorStore

Next ==
    \/ \E t \in Thread : Refresh(t)
    \/ \E t \in Updater : UpdateCall(t)
    \/ StartStep
    \/ StopStep
    \/ MonitorStep
    \/ \E p \in Pid : EngineDies(p)

Spec == Init /\ [][Next]_vars

(* Threads are scheduled: each one that can go on goes on.  A refresh that *)
(* is tried again and again with a config that works starts its process    *)
(* and sees it come up some time.  Nothing obliges anyone to start, stop   *)
(* or update the balancer.                                                 *)
FairSpec ==
    /\ Spec
    /\ \A t \in Thread : /\ WF_vars(Refresh(t))
                         /\ SF_vars(RefreshSpawn(t))
                         /\ SF_vars(RefreshReady(t))
    /\ WF_vars(StartRunning \/ StartCheck)
    /\ WF_vars(StopJoin \/ StopKill)
    /\ WF_vars(MonitorStep)

-----------------------------------------------------------------------------
(* Type correctness.                                                       *)
TypeOK ==
    /\ available \subseteq Uri /\ forced \in Uri \cup {NoUri}
    /\ DOMAIN backends \subseteq Uri
    /\ backends \in [DOMAIN backends -> {"unknown", "healthy", "dead"}]
    /\ recorded \subseteq Pid
    /\ {ready, running, joinable, given, probe, session, raced} \subseteq BOOLEAN
    /\ lock \in Thread \cup {Nobody}
    /\ pc \in [Thread -> Places]
    /\ chosen \in Uri \cup {NoUri} /\ spawned \in Pid \cup {NoPid}
    /\ DOMAIN engine \subseteq Pid /\ engine \in [DOMAIN engine -> Uri]
    /\ calls \in Nat /\ starts \in Nat /\ deaths \in Nat

(* Whatever threads refresh, stop and update at once, the port never has   *)
(* two engine processes competing for it (refreshBackends_unlocked kills   *)
(* the recorded process before it starts one).                             *)
OneEngine == Cardinality(DOMAIN engine) <= 1

(* No engine process escapes: every one that exists is in xray_processes_  *)
(* or is the one a refresh is waiting for, so the next refresh or stop     *)
(* will kill it.                                                           *)
NoOrphan == DOMAIN engine \subseteq recorded \cup {spawned}

(* getWorkingBackends and the status tell the truth between refreshes:     *)
(* there is a healthy backend exactly when there is a recorded process, it *)
(* is the only one, and a recorded process that lives serves it.           *)
Truthful ==
    lock = Nobody =>
      LET healthy == {u \in DOMAIN backends : backends[u] = "healthy"}
      IN  /\ Cardinality(healthy) <= 1
          /\ healthy = {} <=> recorded = {}
          /\ \A p \in recorded \cap DOMAIN engine : engine[p] \in healthy

(* A hot reload takes effect: once nobody owes a refresh, the process of a *)
(* running balancer serves a best config of the current pool, or the       *)
(* forced one, however updates, start and the health thread interleaved    *)
(* (updateAvailableConfigs reads running_ under the mutex, but refreshes   *)
(* after releasing it).                                                    *)
ServesBest ==
    /\ running /\ lock = Nobody
    /\ \A t \in Thread : pc[t] \notin {"refresh", "terminated"}
    => \A p \in recorded \cap DOMAIN engine :
            \E B \in BackendSets : engine[p] \in FirstValid(B)

(* After a stop that overlapped no start, and no update at its end, no     *)
(* engine process is left and none appears before the next start, although *)
(* the health thread may have been in a refresh when stop was called.      *)
CleanStop ==
    pc[Stopper] = "idle" /\ ~session /\ ~raced => DOMAIN engine = {}

(* stop returns, unless it overlapped a start, which can set running_      *)
(* again behind its back: the join and the mutex are released by threads   *)
(* that all come to an end.                                                *)
StopReturns == pc[Stopper] = "join" /\ ~raced ~> pc[Stopper] = "idle"

(* The balancer has a process that lives.                                  *)
Serving == recorded \cap DOMAIN engine # {}

(* The config a refresh would choose is one whose engine can come up.      *)
CanServe ==
    \A B \in BackendSets : FirstValid(B) # {} /\ FirstValid(B) \subseteq Works

(* The health thread brings the service back after any death of the        *)
(* engine, any stale probe and any failed refresh, as long as the balancer *)
(* runs and the best config of its pool works.                             *)
Recovers ==
    <>[](running /\ pc[Starter] = "idle" /\ CanServe) => []<>Serving

=============================================================================
