# A verification of Hunter

Hunter (`src/hunter_cpp`) is a C++17 program that finds proxy configurations,
tests them with engine subprocesses, keeps a health database of them, and serves
the best through two local balancers and a range of provisioned ports.  A native
window and a command file drive it; about ten worker threads and a main loop do
the work.  This directory holds TLA+ models of its stateful parts, TLC runs that
check them on small instances, and TLAPS proofs for every instance.

Every safety property that a run checks is also a theorem.  The liveness
properties are model-checked only (section 6).

## 1. Inventory

Paths are under `src/hunter_cpp/src`.

| Component | State | Operations | Interacts with |
|---|---|---|---|
| ConfigDatabase (`network/continuous_validator.cpp`) | map endpoint key (a literal address, else the URI) -> health record with a URI, one mutex, file `HUNTER_config_db.tsv` | add (with priority), updateHealth, batch/healthy/Telegram queries, evict, clear, remove, save, load | every worker, the cycle, provisioning, the window |
| ContinuousValidator (same file) | counters | validateBatch: pick a batch, test on the pool, store results | ConfigDatabase, task manager, ProxyTester |
| ProxyTester (`network/proxy_tester.cpp`) | static count of running tests | admission gate, per-engine test, test ports | engine processes, utils |
| HunterTaskManager (`core/task_manager.cpp`) | two thread pools (io and cpu), fetch lock, hardware cache | submit, resize, shutdown | validator, cycle, harvesters |
| BaseWorker, ThreadManager (`orchestrator/thread_manager.cpp`) | state, pause/stop/trigger flags, condition variable per worker | start, stop, join, pause, trigger, run loop | orchestrator, all workers |
| Workers (same file) | per-worker caches (seen URIs, last refresh) | scan, harvest, download, validate, publish, import, monitor | database, balancers, files |
| MultiProxyServer (`proxy/load_balancer_impl.cpp`) | pool, forced URI, backends, process, running flag, probe flags | start, stop, update, force, refresh, health loop | engine processes, orchestrator, ValidatorWorker, window |
| RuntimeEngineManager, XRayManager (`proxy/`) | list of managed pids, engine paths | start, stop, stopAll, config files | operating system |
| Orchestrator (`orchestrator/orchestrator.cpp`) | stop/pause flags, cycle lock, provisioned slots, cached configs, speed settings | start, stop, runCycle, provision, recheck, removals, imports, commands, status files | everything |
| SmartCache (`cache/`) | two files, mutex | append unique, load | cycle, startup |
| Fetchers (`network/http_client.cpp`, `flexible_fetcher.cpp`, `aggressive_harvester.cpp`) | belief in the direct way, failure counts and circuits per source | fetch with fallbacks | cycle, workers |
| Rule file assets (`orchestrator/thread_manager.cpp`) | files on disk, time of the last refresh | refresh over several ways, write through a temporary file | engines, fetchers |
| WebSocket bridge (`realtime/`) | clients, queues | accept, broadcast, commands | nothing: never instantiated |
| DPI evasion, bypass, obfuscation (`security/`) | probe results, network type, strategy, bypass sessions | detect, select, adapt, rank | orchestrator, engines |
| Configuration (`core/config.*`) | one shared object, a JSON file, a file of sources | load, save, set, validate | window, command worker, orchestrator, workers |
| Window (`win32/`) | orchestrator pointer, command worker, snapshots, log list, background tasks | start, stop, commands, settings, tasks, hand-over | orchestrator, configuration, log ring |

What is hard in it:

* one database is written by two independent testers (validator and cycle), by
  rechecks and removals, while imports promote records that are being tested;
* lists of working configs are read, worked on for minutes, and handed out,
  while the user removes configs from the database, the pools, the files and the
  ports one after the other;
* a balancer refresh holds a mutex for seconds while updates, the health
  thread, start and stop all want it, and the running flag lives outside it;
* start and stop are called on different threads of the window, a stop may come
  from a command, a file or the window, and two may overlap, with nothing to guard
  the thread manager they destroy;
* the database knows endpoints, everything else URIs;
* workers are stopped, paused and triggered through flags read without a lock;
* tests pass a counter gate that is read and then incremented, and use ports
  that nobody has bound yet;
* settings, speed and probe results are stored field by field without a lock;
* the log's ring is overtaken by its writers while it is read;
* files are truncated and rewritten in place, and the process may die anywhere;
  its engines then run on;
* requests that were given up finish later and report to shared counters.

What makes each part correct: coherent records, bounded size, no config lost
to the scheduler, nothing useful evicted (database); what clients get was tested
and is not removed, and is never emptied by finding nothing (feed); one engine
process, none lost, the last pool served, a clean stop, recovery (balancer);
every slot returned, no result of another's engine (tester); every submitted
task run or refused, shutdown returns (pools); a stopped worker stops, a session
leaves nothing up, a stop returns (lifecycle); no port with two engines, no
engine lost, no removed config back (provisioning); an imported file is not
lost, a persisted link stays (ingestion); a source is shunned for a cause and
comes back, a rule file is never torn, the strategy follows the network
(network); settings and sources come back, the log is in order, background
threads do not touch a window that is gone (window).

## 2. Plan

Done, in the order of what the program depends on most: `ConfigDatabase` with
`HealthTable`, `LoadBalancer`, `TaskQueue` with `ThreadPool`, `TestSlots`,
`WorkerLoop` with `Lifecycle`, `Feed`, `Provisioning`, `Links` with `Ranking`
and `Ingestion`, `Network` (of `Reach`, `Fetching`, `Assets`, `Evasion`),
`Window` (of `Preferences`, `Speed`, `LogView`, `Tasks`); and the proofs of all
their safety properties, of the refinement of the workers' specification by the
program and of the health table by the database, and of the safety part of the
refinement of the abstract queue by the pool.

Left, in this order:

1. The rule that a balancer never runs what a removal took from its pool, over
   `Feed` and `LoadBalancer` together; today the pool is where they meet.
2. The recheck of the live ports in `Provisioning` as well as in `Feed`.

## 3. Modules

Each component module has its state as variables, one action per step of the
code that other threads can see, and its properties at the end.  `MC...`
modules hold only the values of constants; `...Proofs` modules hold theorems.

A definition under a comment that starts with "wrong variant" is a form of the
next definition that a plausible slip in the code would have.  No specification
uses them.  Put in place of the right form they break a property, which is how
we know that each property depends on the code.

Variables commented "ghost" or "history" record what happened so that a
property can speak of it.  No step of the program depends on one; `overtakes`
of `TestSlots` is also what the bound `MaxOvertakes` counts.

### ConfigDatabase

| Model | Code (`continuous_validator.cpp`) |
|---|---|
| `db` | `health_db_`, key to `ConfigHealthRecord` |
| `disk`, `saves` | the rows of `HUNTER_config_db.tsv` |
| `call` | the call of `addConfigsWithPriority` that holds `mutex_` |
| `now` | `nowTs()`, positive |
| `AddConfigs`, `AddExisting`, `AddNew`, `AddReturn` | `addConfigsWithPriority`, one step per URI of its loop |
| `EvictStale`, `Expired`, `Evictable`, `OldestQuarter` | `evictStale`, phases 1 and 2 |
| `UpdateHealth`, `Passed`, `Failed` | `updateHealth` for every outcome of a test |
| `ClearOlderThan`, `ClearAlive`, `RemoveUris` | the three removals |
| `SaveToDisk`, `CrashInSave`, `Restart`, `Loaded` | `saveToDisk`, a death inside it, a new process and its `loadFromDisk` |
| `IsCandidate`, `IsHealthy`, `IsTelegramOnly`, `IsServed` | the conditions of the readers |

All operations hold the one mutex; so all are single steps but the import loop,
which is split because it evicts between two of its insertions.  The rows are
written in place by truncating the file: `CrashInSave` leaves any subset of
them, a superset of the prefixes the stream can leave.  Latency and age have the
few values the conditions tell apart.  A record's engine hint, tag and pass
total take part in no condition and are left out.

`HealthTable` is the abstract specification: a table of at most `Capacity`
endpoints, each new, live, Telegram-only or dead, and its copy in the file,
without the counters, timestamps and thresholds. A new endpoint may take the
place of dead ones only, and of none while there is room.
`ImplementsHealthTable` is the refinement, with the mapping `health <-
Statuses(db)`, `saved <- Statuses(disk)`, `adding <- ~Free`, `Capacity <-
MaxSize`.

### Feed

How results reach the database and lists reach clients.  The database has one
record for an endpoint (`KeyOf`), which holds the URI it was made for; lists,
pools and files hold URIs.  A set stands for a sorted list.

| Model | Code |
|---|---|
| `db` | the records by endpoint: the URI, and what the readers ask of it (`health`, `fails`, `due`, `boost`) |
| `out` | what the observed sinks hold: gold and silver lists, the pool and its cache file, the gemini pool |
| `val`; `TakeBatch`, `StoreResult`, `LoseResult`, `ReadRecords`, `ValidatorHands` | `validateBatch` and `ValidatorWorker::execute` |
| `cyc`; `BeginCycle`, `Select`, `TestNext`, `StoreOwed`, `Rank`, `CycleHands` | `runCycle` and `validateConfigs` |
| `cmd`; `ClearAlive`, `ClearNext`, `RemoveConfigs`, `RemoveNext`, `AddManual`, `RecheckLive`, `RecheckOne`, `Resume` | the commands of the user, in the pieces of their code |
| `fate` | ghost: has a config of this endpoint passed a test since this one was last removed, or has a result or a list from before the removal brought it back |
| `late` of `val` and `cyc` | ghost: what was on the list, or owed a result, when its endpoint was removed |

A verdict goes to the record of the endpoint, whichever URI it holds by then
(`StoreVerdict`); a removal takes the records of the endpoints and, of the
lists, the exact URIs (`Removed`, `RemoveNext`). A behaviour observes one sink,
or the two of which one is written from the other (`Watch`): the sinks do not
influence each other otherwise.

### LoadBalancer

| Model | Code (`load_balancer_impl.cpp`) |
|---|---|
| `available`, `forced` | `available_configs_`, `forced_uri_` |
| `backends`, `recorded`, `ready` | `backends_`, `xray_processes_`, the probe flags |
| `running`, `joinable` | `running_`, whether `health_thread_` holds a thread |
| `lock` | who holds `backends_mutex_` for longer than a step |
| `Update...`, `SetForced...`, `ClearForced...` | the three update operations, refresh owed when `running_` was set |
| `RefreshBegin/Spawn/Ready/Failed` | `refreshBackends_unlocked`, which keeps the mutex for seconds |
| `Start`, `StartRunning`, `StartCheck` | `start`; with `joinable` it would assign over a live thread |
| `StopBegin`, `StopJoin`, `StopKill` | `stop` |
| `MonitorProbe`, `MonitorStore`, `MonitorExit` | `healthMonitorLoop`; the probe is outside the mutex |
| `EngineDies` | the engine exits by itself |

`engine` is the world: the processes that really exist.  `session` and `raced`
record what the window did, so that properties can speak of it; no action of the
balancer reads them except the guards of the window's own calls.

### WorkerLoop and Lifecycle

`WorkerLoop` is what a worker thread sees: one manager after another, each
started, stopped and destroyed.  `Lifecycle` is the program that drives it.

| Model | Code |
|---|---|
| `manager`, `managers`, `stop`, `paused`, `at`, `left` | `ThreadManager` and `BaseWorker::runLoop` (`thread_manager.cpp`): which manager there is, its stop flag, the orchestrator's pause flag, where each worker is and the countdown of a delayed start |
| `late` | ghost: runs begun after the flag went up |
| `stopRequested`, `cycle`, `stopAt`, `pc[Main]` | `stop_requested_`, `cycle_lock_`, `HunterOrchestrator::start`, its main loop and `stop` (`orchestrator.cpp`) |
| `running`, `stopping`, `owner`, `queue`, `closing`, `pc[Cmd]`, `pc[Ui]` | the window's `orchestrator_running_`, `orchestrator_stopping_`, `orchestrator_mutex_`, `cmd_queue_`, `cmd_stop_`, its `StartHunter`, `StopHunter`, command worker and destructor (`imgui_app.cpp`) |
| `up` | which of the balancers, the ports and the DPI engine are up |
| `broken` | two threads have met at `thread_manager_` and the outcome was not a harmless one |
| `deaf`, `clean` | ghosts: a start overtook a stop request; the last stop found a session in its main loop |

Nothing guards `thread_manager_`: `stop` and the end of `start` may join the same
threads and delete the same manager, `start` may set it, while others read it
(`UsesManager`).  What comes of that is undefined, so `Breaks` chooses: the harmless
outcomes are the steps of the other actions, all others end the model with
`broken`.  The properties speak of the behaviours that are not broken.

Workers sleep with `wait_for` on a condition variable whose notification may be
lost; the timeout then ends the wait, so a sleeping worker can take its next step
at any time.  Commands come through the window's queue (`Posted`) or the command
file (`Filed`).

### Provisioning

| Model | Code (`orchestrator.cpp`) |
|---|---|
| `slots`, `engines`, `lock` | `provisioned_ports_`, the engine processes that exist, the holder of `provision_mutex_` |
| `health`, `pool` | the database's record of each config, `available_configs_` of the main balancer |
| `pc`, `list`, `at`, `dead`, `removing` | where each thread is in `provisionPorts`, `refreshProvisionedPorts`, `removeConfigs`, `start` or `stop`, the list it made before or under the mutex, the slot it has reached, `dead_indices`, the config it removes |
| `FeedRead`, `FeedPool` | `ValidatorWorker` and the cycle: the healthy records are read, under the database's mutex, and become the pool in a later step, under the balancer's |
| `Crash`, `KillPortOccupants` | the end of the process, whose engines run on, and the next one's start |
| `late` | history: configs some list (one that is about to become the pool included) still held when their removal reached the slots |

A list sorted by latency may put ties in any order (`Sorted`).  The process that
kills the occupants of the ports is assumed to have the rights to do so.

### TaskQueue and ThreadPool

| Model | Code (`task_manager.cpp`, `task_manager.h`) |
|---|---|
| `queue`, `stop` | `tasks_`, `stop_` |
| `pc`, `task` | the place of each worker in `workerLoop`, and its task |
| `phase`, `sent`, `got` | the place of each submitter, how many tasks it has submitted and futures it has read |
| `Submit`, `Notify` | `submit`: push under the mutex, notify after it |
| `Take`, `Sleep`, `Exit`, `Begin`, `Finish` | `workerLoop` |
| `Resize`, `Teardown...` | `resize`, the destructor |
| `Collect`, `Return`, `GiveUp` | the waiting loops of the validator, the fetchers, the harvester and the DPI detection |

`TaskQueue` is the abstract specification: a first-in first-out queue, every task
started once, nothing accepted after `Close`, everything accepted finished.
`ImplementsTaskQueue` is the refinement, with the mapping `running <- Running`
(tasks that workers hold), `finished <- Finished`, `open <- ~stop`.

The environment is assumed not to submit to a pool whose destructor has
returned (`Submit` has the guard `teardown # "gone"`): that would be undefined.

### TestSlots

| Model | Code (`proxy_tester.cpp`) |
|---|---|
| `active`, `next` | `s_active_tests`, `s_next_port` |
| `Pass`, `Poll`, `Enter` | the gate of `testWithXray`: read, later increment |
| `At`, `Taken`, `TakePort`, `FirstPort`, `GetFreePort`, `GiveUp` | `getFreePort`: the rotation, the ports another program holds, the choice under the mutex |
| `CreateProcess`, `PortAlive`, `PortDead`, `Measure`, `Return` | the process, its probes, the measurement, the kill |
| `Listen`, `Die` | the engine process: it binds its port or it dies |
| `source` | whose engine answered the measurement: the test cannot see this |
| `overtakes` | ports chosen by others since a test chose its own |

The gate decides in one step and counts in a later one, as the code does.  The
engine binds its port long after it was chosen, so a second test may be given
the same port; what keeps them apart is the length of the rotation
(`RotationAssumption`, section 4).  The search's limit of 500 ports, and what it
returns when it finds none, are left out.

### Links, Ranking and Ingestion

`Links` is what the program takes for a proxy link, what it reads out of it and
which engine can run it: `Importable`, `WatcherAccepts`, `CommandExtract` and
`WatcherExtract`, the parsers of `uri_parser.cpp` by scheme, `Deduped`, the
transports that the writers of the two engines' configurations keep, and what
`resolveEngine` returns, given the engines that are installed.  A link is a
record of what these parts tell apart, a line a link alone, with words before it,
or coded.  `Ranking` is the order in which a cycle tests links (`TestList`,
`Score`, `PlainScore`), and what becomes of a latency in the balancers' cache file
(`Reload`).  `Ingestion` composes `Links` with the files:

| Model | Code (`orchestrator.cpp`, `thread_manager.cpp`) |
|---|---|
| `db`, `disk` | the links that the records of the database and of its file hold: one of an endpoint (`EndpointKey`), at most `MaxSize` |
| `Insertions`, `Loses` | `addConfigsWithPriority`: a second link of an endpoint is passed over, a full database evicts or drops the rest; what left the database or did not get in |
| `inbox`, `done`, `seen`, `scan` | `config/import`, its `processed`, `seen_uris_`, `ImportWatcherWorker::execute` |
| `cmd`, `told` | `import_config_file`; ghost: what it announced |
| `flag`, `dl`, `fresh` | `download_in_progress_`, the three callers of `downloadConfigsAsync`, whether the GitHub worker succeeded |
| `online`, `paused`, `stopping` | whether the network answers, `paused_`, `stop_requested_` |
| `BeginRecheck`, `PostRecheck` | `recheckLiveProvisionedPorts`: it pauses the program and leaves it so, saves, and may start a download |
| `RemoveUri`, `SaveRemoval`, `PeriodicSave`, `Stop`, `End`, `CrashInSave`, `Restart` | removals, saves, the stop, ends of the process, the next start with its seeds |
| `kept`, `gone` | ghosts: announced as persisted and since then neither removed, evicted nor lost in a save that was cut off; links without a record because of a removal, an eviction, a full database or the end of the process |

A download saves after a source only if it added something new
(`GetSource`, `SaveDownload`).  Which record an eviction takes is in
`ConfigDatabase`; here it may be any, as tests change their health all the time.

### Network: Reach, Fetching, Assets, Evasion

| Module | Code |
|---|---|
| `Reach` | the network: what can be reached changes, `MaxChanges` times |
| `Fetching` | `ConfigFetcher` (belief in the direct way, failures per source), `FlexibleFetcher` (`circuits_`, deadlines, requests given up that finish later), the harvester |
| `Assets` | `IranAssetsWorker` and `writeBinaryFileAtomic`: the refresh, the temporary file, the rename and its refusal, `Crash` anywhere |
| `Evasion` | `DpiEvasionOrchestrator`: three detections that store what they found field by field, the choice of the strategy, the adaptation loop |
| `Network` | puts the three side by side: a behaviour is about one of them (`part`), as they share nothing but the network and the belief in the direct way |

One source stands for all, and one file for all.  Taken for granted: no deadline
passes while the source can be reached directly; a client begins no new request
while its own old one is still running; the belief is checked anew (`Recheck`)
only while no cycle waits for a request (the fetch lock); a refresh that finds the
fetch lock busy does nothing and is left out.

### Window: Preferences, Speed, LogView, Tasks

| Module | Code |
|---|---|
| `Preferences` | the sources and settings of the window, the configuration object shared by four threads, its file and the file of sources, the commands queued by `Apply`, what a list becomes on its way through the file (`Reread`), `Restart` |
| `Speed` | the speed settings stored field by field by two threads, the hardware snapshot, the io pool, and what `ValidatorWorker` and the scanner make of them |
| `LogView` | `LogRingBuffer`, its readers in the window, the Clear button (`cleared` records where), and the state of a download gathered from the lines |
| `Tasks` | the background tasks of the censorship page, the mutex for orchestrator calls, the window's destructor, the hand-over to an elevated process |
| `Window` | puts the four side by side (`side`): none reads what another one writes |

## 4. Runs

| Run | Instance | What it shows |
|---|---|---|
| ConfigDatabase | three URIs of two endpoints, room for one record, low thresholds, one save or torn save, restarts | records stay coherent (`HealthInv`), nothing is forgotten by the scheduler (`NeverForgotten`), eviction spares what works or is untested (`EvictionSpares`), to its users it is the bounded table of `HealthTable` (`ImplementsHealthTable`) |
| Feed | two configs of one endpoint (symmetric), batches of one, one cycle, two commands at any moment; 1.9 million states | of what clients get a config of the same endpoint was tested since it was removed, but for threads that had listed it before (`HandedOut`); finding nothing empties nothing (`KeepsServing`) |
| FeedLive | two configs of two endpoints, no command, no symmetry | new endpoints are tested (`NewAreTested`), a dead one leaves the pool (`PoolFollows`) |
| LoadBalancer | two updaters, two calls, two starts, one death, three configs of which one is invalid and one valid but dead; symmetric updaters and pids | no engine lost (`NoOrphan`), the last pool served (`ServesBest`), a clean stop (`CleanStop`) |
| LoadBalancerLive | one updater, one call, one start, one death; no symmetry | `StopReturns`, `Recovers` |
| Lifecycle | the scanner and one other worker, one session, one request by queue, command file or stop file; 422 thousand states | at most one late run (`LastRunOnly`), nothing left up (`StopIsClean`), `StopReturns`, `WorkGoesOn`, the workers see `WorkerLoop` (`ImplementsWorkerLoop`) |
| Network | circuits of two failures, two changes of the network (one under detections), one detection by command, two editions | `ShunnedForCause`, `AssetWhole`, `SourceComesBack`, `StrategyFollows` |
| Provisioning | main loop, scanner and command thread, two ports, two configs, three pids (symmetric), two failures make a slot dead, one outside change; the scanner is the one that feeds the pool; 3.2 million states | `EnginesOwned`, `SlotsCoherent`, `RemovedOnlyLate` |
| Ingestion | two files, two sources, three downloaders, four links of which two share an endpoint, room for two, two events (files, commands, ends of the process); 400 thousand states | `ImportsReachDb`, `OneDownload`, `PersistedStays`, `GithubSucceeds` |
| ThreadPool | two callers, a nested task, two workers and a third by resize, destructor at any time; 65 thousand states | `NothingAbandoned`, `DestructorReturns`, the abstract queue with its fairness (`ImplementsTaskQueue`) |
| TestSlots | three threads, room for two, five ports of which another program has one; 110 thousand states | `SlotsAccounted`, `ResultsAreOwn`, `TestsEnd` |
| Window | three sources, three acts, two waiting commands; two machines, one speed command; a ring of four lines, one download, Clear at any time; three tasks; 1.2 million states | `WorkInRange`, `SelectionSurvives`, `Settled`, `LatestShown`, `TasksOwned` |

Why the bounds are enough. *ConfigDatabase:* one place for two endpoints makes
every insertion an eviction; the low thresholds let a record pass each of them
and come back. *Feed:* two configs of one endpoint let a verdict or a removal of
one act on the record of the other, and two commands a removed one be imported
again; a command meets a validator and a cycle at every step of theirs. Two
endpoints, of which one works while the other changes its state, are what the
conditions of the queue compare (`FeedLive`); what the second balancer gets,
half of two or more live configs, no run reaches and only the theorems cover.
*LoadBalancer:* two updates at once are what a third would meet already; the
second start is the first that meets the leftovers of a stop; two dead configs
and one that works give each outcome of a refresh. *Lifecycle:* two stops can
overlap (one of a command or a file, one of the window or its end), and a second
manager can follow the first. *Provisioning:* two ports are the fewest on which
an engine or a config can be twice; three pids leave one for an engine that is
started while the others run. The pool is replaced beside a provisioning of
another thread or a removal; with a thread that feeds and never provisions the
run is too large, and only the theorems cover it. *Ingestion:* two events give a
file or a command, and a removal, a pause, a due time or an end of the process
at any step of it; with room for two links the third endpoint meets a full
database. *ThreadPool:* two workers give one that sleeps while the other runs,
the third joins late; the nested task blocks one of them. *TestSlots:* three
tests with two slots give a full gate, a race at the gate and a port meeting;
each test may begin again and again, so there is no bound on their number.
*Network:* two failures give a circuit that has failed but is closed; two
changes give a network that comes and goes. *Window:* each part has its smallest
size at which its readers can be overtaken. The proofs of section 5 hold for
every size.

Symmetry is used in Feed, LoadBalancer and Provisioning, which check no
liveness.  Deadlock is not checked in the LoadBalancer and Lifecycle runs
(after the last stop, with the calls and requests of the bounds used, the
program rests), in ThreadPool (after the destructor nothing is left to run) and
in Window (one that has been closed does nothing more); everywhere else it is.

Fairness.

* `LoadBalancer!FairSpec`: each thread is scheduled (weak fairness).  A refresh
  that is tried for ever with a config that works starts its process and sees it
  come up some time (strong fairness of `RefreshSpawn` and `RefreshReady`): the
  code can do nothing if every attempt times out.  Nobody has to start, stop or
  update.
* `Feed!Fairness`: the validator, a cycle and a command that have begun go on;
  a result of a config that is tested again and again is not lost to the timeout
  each time (strong fairness of `StoreResult`).  No cycle and no command has to
  begin.
* `Lifecycle!FairSpec`: each of the three threads and each worker goes on, every
  run and every service call ending by its timeouts.  The user does nothing that
  is needed.
* `Network!NetSpec`: each client, the harvester and each detection goes on, and a
  circuit's two minutes pass.
* `Ingestion!FairSpec`: the GitHub worker comes around unless the program is
  paused (`GithubBegin` has the guard), a download that has begun goes on, and a
  process that is stopping ends.  Nobody has to resume: `GithubSucceeds` is about
  behaviours that are in the end not paused, whoever paused them before.
* `ThreadPool!FairSpec`: each thread is scheduled and each task's own work ends,
  because every network operation of the program has a timeout.  Spurious
  wakeups may happen but need not; the destructor need not be called.
  `NestingAssumption` (`MCThreadPool`): fewer tasks that wait for tasks of their
  own pool than initial workers (`models.cpp` gives a pool at least four threads;
  one detection runs at a time).
* `TestSlots!SlotFairSpec`: each test's thread is scheduled; each step ends by its
  timeout.  Nothing is assumed of the engine processes.

`RotationAssumption` (`PortCount > MaxOvertakes + |Taken|`): during one test the
others choose fewer ports than a rotation has of its own.  On Windows, where the
program runs, a choice holds the port mutex while a probe of the free port waits
out its 50 ms, so 10000 of them take over 500 seconds, longer than one test with
all its timeouts.  It is needed: with as many overtakes as ports TLC finds a test
that is credited with another test's engine.

`SampleAssumption` (`MCIngestion`) lets TLC compare the operators of `Links` on a
sample of links; two theorems say the same of all links.

## 5. Proofs

All theorems hold for every value of the constants that the named assumptions of
the modules (`ConfigDatabaseAssumption`, `LoadBalancerAssumption` and so on)
admit; TLC evaluates the same assumptions in every run.  Each inductive invariant
was first checked by TLC on the run's instance.

* `ConfigDatabaseProofs`. Inductive invariant `TypeOK /\ HealthInv`: each record
  in memory *and in the file* is `Coherent`. The file must be included, because
  a restart replaces the one by the other. `Coherent` ties the fields different
  operations write: alive means fewer failures than the threshold and at least
  one test, a metric means alive and not Telegram-only, a boost means the retest
  flag. From it: `TypeCorrect`, `HealthCorrect`, `OnlyHealthyServed` (the
  validator's shorter test selects the same configs), `NothingForgotten` (each
  coherent record meets one of the four conditions of the scheduler after the
  longest backoff), `BoostReachesQueue`, and `EvictionCorrect` (phase 2 tests
  the failure count only, and an alive record has too few failures to be
  chosen). `SizeCorrect` has an invariant of its own, that the database and the
  file are finite and fit. `RefinesHealthTable` (`Spec =>
  ImplementsHealthTable`) needs all of them: what is evicted is dead
  (`EvictedAreDead`), an insertion that is given up has evicted nothing (a part
  of the database that is as large as the database is the whole), and nobody
  adds while the mutex is free (`CallInv`).
* `LoadBalancerProofs`.  `TypeOK /\ Locking /\ Ownership /\ Reporting /\ Choosing
  /\ Stopping`.  `Locking`: who is inside a refresh holds the mutex.
  `Ownership`: outside a refresh every engine process is recorded, inside one it
  is the spawned one.  `Reporting`: the healthy backend is the recorded
  process.  `Choosing`: with no refresh owed, what runs is a best config of the
  current pool.  `Stopping`: what stop has achieved at each of its steps, when it
  overlapped no start.  From it: `TypeCorrect`, `OneEngineCorrect`,
  `NothingOrphaned`, `StatusTruthful`, `LastPoolServed`, `StopClean`.
* `LifecycleProofs`. The workers first: `LoopInv` adds to the types that a
  worker whose late run has begun will not begin another (`LateIsLast`), which
  depends on where it is and on the flag staying up until the next manager, and
  that a countdown kept through a pause has seconds to go (`HoldHasTime`). From
  it `LoopTypeCorrect`, `NobodyOutlives` and `OneLateRun`. `RefinesWorkerLoop`
  (`Spec => ImplementsWorkerLoop`) maps each step of the program to a step of
  the workers' specification or a stutter, one lemma per thread;
  `ProgramLastRun` is `OneLateRun` carried over by it. `ProgramInvariant` is the
  invariant of the whole program: `NoManager` says when there is a manager, by
  the place of the orchestrator's thread and of the stops; `Remains` says what
  may still be up after a stop has begun, by how far it is, because a
  worker may bring the ports up again until the stop has joined it. From it
  `StopLeavesNothing`.  Both are about every order of two stops at the unguarded
  manager in which the second one finds it as the first one left it; for the
  others, `Breaks`, nothing is claimed, as nothing holds.
* `ProvisioningProofs`. `Inv`: the types, `Control` (which thread may be where,
  and who holds the mutex), `Lists` (how long a pending list is, and that its
  next port is beyond the table), `DeadDown` (what a refresh remembers as dead
  is down, each slot once), `Apart` (ports and engines of two slots), `Fields`,
  and `EnginesOwned`. A slot given to a new config must be without an engine,
  and a port given to a new slot must be beyond the table; this is what the
  added parts say. From it `TableInvariant`, `NoEngineLost`, `TableCoherent`.
  `RemovedStaysOff` adds `HeldOnlyLate`, whoever holds a removed config (the
  pool, any thread's list, any slot) holds one that is late or whose removal is
  still going on, and `Removals`: one removal at a time per thread, with an
  empty list at its last sweep. The list a thread has read and not yet published
  is one of those lists, for any number of feeding threads.
* `IngestionProofs`.  About links, by cases of the parsers: `WatcherAgrees`,
  `TestedRuns` (for every set of installed engines), `NeverTested`,
  `ServedAsTested`; about the ranking `RealityFirst`,
  by bounding both scores; `NoLatencySurvives`, arithmetic of the digits.  About
  the files: `Shape`, the types with those of the records' fields, and for each
  property the part its pending steps rely on.  `OneDownloadAtATime` needs
  that the flag is up exactly while one is inside (`FlagTells`); `PersistedCorrect`
  that what was announced is in memory as well, which the saves to come copy
  (`Safe`); `ImportsCorrect` that what the watcher has seen, and what a command
  has taken from its list, has a record of its endpoint, is about to or has lost
  it in one of the ways named (`Arrived`).  `Shape` includes that the database and
  its file fit (`Fits`): an insertion, a removal and a file cut off keep that
  (`InsertionFits`, `LoadedFits`, `EndLeaves`), and no step makes an endpoint
  disappear without a trace (`TraceLeft`).
* `ThreadPoolProofs`.  `TypeOK /\ Holding /\ Waiting /\ ExactlyOnce /\ Draining`.
  The first-in first-out order needs only the queue; that no task runs twice
  needs that a queued task has not begun and that the next task of a submitter is
  new (`NextIsNew`).  `Draining`: a worker exits only over an empty queue that
  stays empty, and there is at least one worker.  From it: `TypeCorrect`,
  `RunExactlyOnce`, `DrainedWhenGone`, and the refinement `RefinesTaskQueue`
  (`Spec => Queue!Spec`), whose lemmas map `Submit`, `Take` and the end of a task
  to `Accept`, `Start` and `Finish`, and everything else to a stutter.
* `TestingProofs`. Of `TestSlots`: `SlotInv` with `OneMore`, `OneLess` and
  `Same`, which say how a step changes the number of tests behind the gate,
  gives `SlotsCounted` and `EnginesEndWithTests`. `ResultsBelong` rests on
  `RotInv`: since a test chose its port the rotation has passed no more of the
  program's ports than others have chosen (`Behind`), too few to come round to
  it while `RotationAssumption` holds, so no two tests have one port
  (`Distinct`). Of `Feed`: `FeedInv` has one part per thread; the validator's
  and the cycle's say that the endpoint of what waits to be handed out has
  passed a test or was removed after it was listed, the command's which sinks it
  has still to write, the sinks' that what they hold has passed or is still to
  be taken out. `Tested` and `Passed` go to all configs of an endpoint at once,
  so `DbInv` ties the verdict of a record to every one of them, not to the URI
  it holds. From it `ClientsGetTested`; `ClientsKeepServing` is an action
  property and needs that the lists that wait to be handed out are not empty.
* `WindowNetworkProofs`.  The parts of `Window` and `Network` are proved apart,
  and combined by the fact that the steps of one leave the others' variables
  alone.  `TasksBelong` (what the destructor has waited for, by its stage);
  `WorkStaysInRange` (every field is in range by itself, so any mixture is);
  `SelectionComesBack` (what the two files together say of each source);
  `LastPathSettles` (the last path is in the configuration, in the form, at the
  end of the queue or with the command worker); `LogShowsLatest` (the ring holds
  the last lines, what is shown begins not before the last Clear and ends where the
  window has read to);
  `CircuitsOpenForCause` (failures counted and failures that happened);
  `AssetStaysWhole` (what is renamed was closed before).

Invariants that are proved and not listed in a run, because they follow from
ones that are or are the types: `TypeOK` of several modules, `ServedAreHealthy`,
`SizeBound`, `BoostedAreQueued`, `OneEngine`, `Truthful`, `ExactlyOnce`,
`NoStrayEngine`, `NoWorkerOutlives`.

## 6. Only model-checked

Liveness under fairness is out of the prover's reach: `NewAreTested`,
`PoolFollows`, `StopReturns` and `Recovers` (LoadBalancer), `StopReturns` and
`WorkGoesOn` (Lifecycle), `SourceComesBack`, `StrategyFollows`,
`GithubSucceeds`, `DestructorReturns`, `TestsEnd`, and the fairness part of
`ImplementsTaskQueue`, whose safety part is the theorem `RefinesTaskQueue`.
Their proofs would need ENABLED of the fair actions.

## 7. Where the code does not do what is said of it

Seen while modelling, by reading; none of these has a run of its own.  The models
do what the code does.

Database and tests

* an import can evict a record it has just promoted
  (`continuous_validator.cpp:103`), against `docs/operator_guide.md:83`; a test in
  flight clears a promotion (`:158`); a wait for a slot that times out counts as a
  failed test (`:599`); a forced failure lowers a higher count to three (`:173`);
* the database finds a record by `endpointKeyForUri` (`continuous_validator.cpp:48`:
  a literal address, without port, protocol or user, else the whole URI), everything
  else goes by the exact URI. A second link of an endpoint is not stored; the
  verdict on it marks the record of the first one, which is then handed out, so
  what clients get need not be what was tested; removing one removes the record of
  the other, while the other stays in the pools and files
  (`orchestrator.cpp:771, 781, 802`). `HandedOut` speaks of endpoints for this
  reason;
* a full database that can evict nothing drops the rest of an import
  (`continuous_validator.cpp:103`), and the import reports only how many it added;
* `README.md:232` says that the validator evicts configs dead for more than three
  hours; `evictStale` runs only when an insertion finds the database full;
* `saveToDisk` truncates the file in place (`continuous_validator.cpp:475`), where
  a comment at `orchestrator.cpp:4108` counts on it being whole;
* the limit on running tests is not one (`proxy_tester.cpp:457`): tests pass the
  gate together; an exception between the increment and the decrement would lose a
  slot (`:681`); test engines of a process that died are never ended (`:554`);
* `hysteria2`, `tuic` and `ssr` links are imported and stored but can never be
  tested; tests run XRay while the balancers and ports run sing-box, whose
  writer (`models.cpp:287-305`) drops kcp, quic, xhttp and splithttp, so that
  these are served over plain tcp; `http` goes the other way, sing-box's writer
  takes it and XRay's does not, so it is never tested; without sing-box
  installed (`runtime_engine_manager.cpp:83`) the tests go on and nothing can be
  served; `testWithSingBox`, `testWithMihomo` and `batchTestWithXray` are not
  called, although `docs/CHANGELOG.md:21` speaks of them;
* tasks of a fetch that gave up use an object or a frame that is gone
  (`task_manager.cpp:654`, `aggressive_harvester.cpp:116`, `http_client.cpp:263`);
  the harvester reads futures in order with one deadline, so a slow source makes
  it drop the results of sources that have finished; shutdown clears the pointer
  to the io pool early (`task_manager.cpp:125`).

Balancers

* an engine process may be started after `stop` has returned
  (`load_balancer_impl.cpp:92`, `load_balancer.h:45` says otherwise); a start
  that overlaps a stop may assign over a joinable health thread, which ends the
  program;
* a balancer that failed to start accepts updates it never serves (`:54`);
* `README.md:231` speaks of up to 20 engine processes per balancer; a refresh
  starts one, for its first valid backend, and marks all dead when that one does
  not come up (`:312`);
* the gemini pool keeps its content while only one config is healthy;
* a latency in the balancers' cache file loses its first digit when it is read
  (`orchestrator.cpp:2195` skips 14 characters for a key of 13).

Starting and stopping

* `start` clears a stop request that came before its first line
  (`orchestrator.cpp:345`), and a session started while `StopHunter` is at work
  is joined instead of stopped; `stop` (`:630-633`) and the end of `start`
  (`:612-615`) both run `stopAll` and `reset` on `thread_manager_` without a
  lock, on the ordinary way through the window's Stop: two joins of one
  `std::thread`, a manager deleted twice or used after its deletion, so that
  `StopHunter` need not return (`Breaks`; the properties of `Lifecycle` are
  about the behaviours in which this does no harm); a recheck leaves the program
  paused until somebody resumes (`:2452`, `:2581`), so that no worker runs,
  downloads included; `stop` saves before the threads end; a detached download
  thread may outlive the orchestrator (`:1546`); `buildStatusJson` reads
  `thread_manager_` without a lock (`:3491`).

Lists, removals and ports

* `removeConfigs` leaves the SmartCache and GitHub cache files as they are; a
  thread that listed a config before the removal hands it out again (the weaker
  property `HandedOut` states exactly this exception);
* `killPortOccupants` is said to match the exact port and searches a substring
  (`:3169`); a slot with one or two failed probes does not count as serving, so
  its config may get a second port (`:2654`); the sort of download proxies reads
  the ports anew in its comparator (`:3892`); endpoint keys of the cycle's
  deduplication ignore ports; `validateConfigs` cuts to `max_total` before it
  ranks; the recheck's `add_engine("xray")` and `("mihomo")` never succeed.

Files and sources

* `seen_uris_` keeps a removed link from being imported again in the same
  session; the watcher moves a file before its links are stored and never saves,
  so an end of the process in between loses them, which `ImportsReachDb` counts
  as gone; a download saves only after a source that gave something new
  (`orchestrator.cpp:4109`; `promoted_existing` is 0 for the tag `download`);
  the watcher ignores links with words before them; a link with a blank in its
  remark is stored twice; raw, bundle and cache files are taken with any line
  that contains `://`;
* `download_configs` may answer "download_started" for a download that is skipped;
* `ConfigFetcher` says "re-check every 5 minutes" (`http_client.cpp:137`), but its
  readers ask only while nothing is known;
* `sources_manager.tsv` is read with other columns than it is written with, so the
  selection always comes from the list in the configuration
  (`thread_manager.cpp:725-748`);
* SmartCache's working file is read but never written;
* `writeBinaryFileAtomic` looks at the stream before its last flush, and may lose
  the old file when its second rename fails.

Window and settings

* an engine's path from the window takes effect after a restart only
  (`orchestrator.cpp:1255`); settings that are refused stay in the configuration and
  on disk; a list that is not empty does not come back from the configuration file
  and takes the next key with it (`config.h:97`, `config.cpp:92`); a scan overwrites
  `max_total` and `max_workers` (`thread_manager.cpp:488`); an end of the process
  between the two files loses the selection; the start's speed profile overrides
  earlier speed commands (`orchestrator.cpp:545`); an older queued command
  overwrites newer settings until its successor has run;
* the Clear button of the log page empties the list of lines only
  (`imgui_app.cpp:3267`): what the window has read does not come back, and what it
  has not read yet appears although it was written before the click;
* "completed" of one source (`orchestrator.cpp:4128`) is taken for the end of the
  whole download (`imgui_app.cpp:895`), progress lines can be lost, and a download
  that was refused leaves its panel active; `SetToast` writes a string from several
  threads without a lock;
* the elevated process finds the mutex of the first one and ends
  (`win_main.cpp:143-166`), and the file for it stays.

Censorship

* SPLITHTTP_CDN is chosen only while the CDN cannot be reached and GRPC_CDN never;
  the HYSTERIA2 strategy prefers links the tests cannot run; detections that
  overlap leave the fields and the strategy at odds until the next round of 30
  seconds; `start` may choose from fields nobody has stored.

## 8. Not modelled

`PROJECT.json` says why for each component without a module.  In short: traffic of
the edge, switch and packet bypasses; output only (status JSON, dashboard, pages,
history, worker "extra" fields); the publisher's and the bot's HTTP; the text of
engine configurations; QR codes and fonts; code that the program never runs
(`proxy/load_balancer.cpp`, `WebSocketBridge`, `ProxyBenchmark`, the unused test
functions); the system proxy, which is only read; SmartCache.
