------------------------------ MODULE Lifecycle ------------------------------
(* Starting, pausing and stopping the program: HunterOrchestrator::start    *)
(* with its main loop, stop, the commands that arrive through the window's  *)
(* queue or the command file, and the window's StartHunter, StopHunter and  *)
(* destructor.  Three threads act besides the workers of WorkerLoop: the    *)
(* orchestrator's thread (Main), the window's command worker (Cmd) and the  *)
(* window itself (Ui).  Any of them can be the one that calls stop.         *)
(*                                                                          *)
(* Abstracted: what a run does, except the cycle of the scanner; the        *)
(* balancers, the provisioned ports and the DPI engine are up or down, for  *)
(* their insides see LoadBalancer and Provisioning.                         *)
EXTENDS WorkerLoop, Sequences

CONSTANTS
    Main, Cmd, Ui,  \* the three threads
    NoOne,          \* a free lock
    Scanner,        \* the worker whose run is runCycle
    Posted, Filed,  \* commands the window posts, commands in the file
    MaxSessions,    \* sessions the user starts
    MaxRequests     \* commands and stop files, but pause and resume by file

Command == {"pause", "resume", "recheck", "stop", "cycle", "reprovision"}

ASSUME LifecycleAssumption ==
    /\ Main # Cmd /\ Main # Ui /\ Cmd # Ui
    /\ Scanner \in Worker
    /\ {Main, Cmd, Ui} \cap Worker = {}
    /\ NoOne \notin Worker \cup {Main, Cmd, Ui}
    /\ Posted \cup Filed \subseteq Command
    /\ MaxSessions \in Nat /\ MaxRequests \in Nat

VARIABLES
    stopRequested,  \* stop_requested_
    running,        \* orchestrator_running_
    stopping,       \* orchestrator_stopping_
    owner,          \* of the window's orchestrator_mutex_
    cycle,          \* owner of cycle_lock_
    pc,             \* what a thread is doing
    stopAt,         \* how far a thread is in stop(), "no" outside
    queue,          \* the window's cmd_queue_
    up,             \* which services are up
    closing,        \* cmd_stop_: the window is being destroyed
    sessions, requests,
    broken,         \* undefined behaviour: two threads met at the manager
    deaf,           \* ghost: a start has overtaken a stop request
    clean           \* ghost: the last stop found a session it could stop

vars == <<manager, managers, stop, paused, at, left, late, stopRequested,
          running, stopping, owner, cycle, pc, stopAt, queue, up, closing,
          sessions, requests, broken, deaf, clean>>

Service == {"balancers", "ports", "dpi"}
Long == {"cycle", "cycling", "reprovision", "provision"}

MainAt == {"off", "begin", "enter", "balancers", "ports", "dpi", "workers",
           "loop", "tail"}
CmdAt == {"idle", "take", "joining", "gone"}
UiAt == {"open", "joinWorker", "take", "joining", "closed"}
StopAt == {"no", "pause", "raise", "join", "reset", "ports", "dpi", "balancers"}

Init ==
    /\ LoopInit
    /\ stopRequested = FALSE /\ running = FALSE /\ stopping = FALSE
    /\ owner = NoOne /\ cycle = NoOne
    /\ pc = [t \in {Main, Cmd, Ui} |->
               IF t = Main THEN "off" ELSE IF t = Cmd THEN "idle" ELSE "open"]
    /\ stopAt = [t \in {Main, Cmd, Ui} |-> "no"]
    /\ queue = <<>> /\ up = {} /\ closing = FALSE
    /\ sessions = 0 /\ requests = 0
    /\ broken = FALSE /\ deaf = FALSE /\ clean = FALSE

-----------------------------------------------------------------------------
(* The groups of variables that most steps leave alone.                     *)

window == <<running, stopping, queue, closing, sessions, requests>>
locks == <<owner, cycle>>
ghosts == <<deaf, clean>>

Go(t, place) == pc' = [pc EXCEPT ![t] = place]
StopGo(t, place) == stopAt' = [stopAt EXCEPT ![t] = place]

(* A thread in stop() waits for nothing else.                               *)
Free(t, place) == pc[t] = place /\ stopAt[t] = "no"

-----------------------------------------------------------------------------
(* HunterOrchestrator::stop, by thread t, and the end of start(), which     *)
(* does the second and third of its steps only.                             *)

Stoppable == pc[Main] = "loop"

(* A session that has reached its main loop and is not in the middle of a   *)
(* command of its own is one that a stop can take down completely.          *)
StopBegin(t) ==
    /\ stopRequested' = TRUE
    /\ StopGo(t, "pause")
    /\ clean' = Stoppable

(* wrong variant: the services are stopped before the workers               *)
StopPauseThenServices(t) ==
    /\ stopAt[t] = "pause" /\ SetPaused(FALSE)
    /\ StopGo(t, "ports")
    /\ UNCHANGED <<stopRequested, window, locks, pc, up, ghosts>>

StopPause(t) ==
    /\ stopAt[t] = "pause" /\ SetPaused(FALSE)
    /\ StopGo(t, "raise")
    /\ UNCHANGED <<stopRequested, window, locks, pc, up, ghosts>>

(* stopAll's flag, if there is a manager; without one the workers' part is  *)
(* skipped.                                                                 *)
AfterWorkers(t) == IF pc[t] = "tail" THEN "no" ELSE "ports"

(* wrong variant: the manager is dropped without stopAll                    *)
StopRaiseNothing(t) ==
    /\ stopAt[t] = "raise" /\ manager' = "none"
    /\ StopGo(t, AfterWorkers(t))
    /\ UNCHANGED <<managers, stop, paused, at, left, late, stopRequested, window,
                   locks, pc, up, ghosts>>

StopRaise(t) ==
    /\ stopAt[t] = "raise"
    /\ \/ RaiseStop /\ StopGo(t, "join")
       \/ manager = "none" /\ StopGo(t, AfterWorkers(t)) /\ UNCHANGED loopVars
    /\ UNCHANGED <<stopRequested, window, locks, pc, up, ghosts>>

(* The joins, in any order: a thread that finds all joined goes on.  Two    *)
(* threads may be here at once, each joining what the other has not: what   *)
(* else may come of that is in Breaks.                                      *)
StopJoin(t) ==
    /\ stopAt[t] = "join"
    /\ \/ (\E w \in Worker : Join(w)) /\ UNCHANGED stopAt
       \/ Joined /\ StopGo(t, "reset") /\ UNCHANGED loopVars
    /\ UNCHANGED <<stopRequested, window, locks, pc, up, ghosts>>

(* The manager is destroyed, unless another thread has done it meanwhile.   *)
StopReset(t) ==
    /\ stopAt[t] = "reset"
    /\ Reset \/ (manager = "none" /\ UNCHANGED loopVars)
    /\ StopGo(t, AfterWorkers(t))
    /\ UNCHANGED <<stopRequested, window, locks, pc, up, ghosts>>

(* stopProvisionedPorts, then the DPI engine, then the balancers and both   *)
(* engine managers; the window's mutex is released when stop() returns.     *)
StopService(t) ==
    /\ \/ stopAt[t] = "ports" /\ up' = up \ {"ports"} /\ StopGo(t, "dpi")
          /\ UNCHANGED owner
       \/ stopAt[t] = "dpi" /\ up' = up \ {"dpi"} /\ StopGo(t, "balancers")
          /\ UNCHANGED owner
       \/ stopAt[t] = "balancers" /\ up' = up \ {"balancers"} /\ StopGo(t, "no")
          /\ owner' = IF owner = t THEN NoOne ELSE owner
    /\ UNCHANGED <<loopVars, stopRequested, window, cycle, pc, ghosts>>

(* Nothing guards thread_manager_: stop() and the end of start() both run   *)
(* `if (thread_manager_) { stopAll(); reset(); }`, the main loop and every  *)
(* command read the manager for their status reports, start() sets it.      *)
UsesManager(t) ==
    \/ stopAt[t] \in {"raise", "join", "reset"}
    \/ stopAt[t] = "no" /\ pc[t] \in {"loop"} \cup Long

(* Two joins of one std::thread, a manager destroyed (twice) while another  *)
(* thread is in it, or made while another looks for it: the outcome is any, *)
(* from none to the end of the program.  None, or an exception that stopAll *)
(* catches, is what the other actions do; after the others the model ends.  *)
Breaks(t) ==
    /\ \E s \in {Main, Cmd, Ui} \ {t} :
         \/ stopAt[t] = "join" /\ stopAt[s] = "join"
         \/ stopAt[t] = "reset" /\ manager # "none" /\ UsesManager(s)
         \/ Free(t, "workers") /\ UsesManager(s)
    /\ broken' = TRUE
    /\ UNCHANGED <<loopVars, stopRequested, window, locks, pc, stopAt, up, ghosts>>

Stop(t) ==
    \/ StopPause(t)
    \/ StopRaise(t)
    \/ StopJoin(t)
    \/ StopReset(t)
    \/ StopService(t)

-----------------------------------------------------------------------------
(* HunterOrchestrator::start, on the thread StartHunter creates             *)

(* The thread fetches the orchestrator under the window's mutex: it waits   *)
(* for a StopHunter that holds it.                                          *)
StartFetch ==
    /\ Free(Main, "begin") /\ owner = NoOne
    /\ Go(Main, "enter")
    /\ UNCHANGED <<loopVars, stopRequested, window, locks, stopAt, up, ghosts>>

(* The first line of start() clears the stop request, whoever raised it.    *)
StartEnter ==
    /\ Free(Main, "enter")
    /\ stopRequested' = FALSE /\ deaf' = (deaf \/ stopRequested)
    /\ Go(Main, "balancers")
    /\ UNCHANGED <<loopVars, window, locks, stopAt, up, clean>>

(* Occupants killed, raw files and caches loaded, then the services: the    *)
(* balancers (a start of a running one, or of one without a config that     *)
(* works, changes nothing), the ports and the DPI engine.                   *)
StartServices ==
    /\ stopAt[Main] = "no"
    /\ \/ /\ pc[Main] = "balancers" /\ Go(Main, "ports")
          /\ up' \in {up, up \cup {"balancers"}}
       \/ pc[Main] = "ports" /\ Go(Main, "dpi") /\ up' = up \cup {"ports"}
       \/ pc[Main] = "dpi" /\ Go(Main, "workers") /\ up' = up \cup {"dpi"}
    /\ UNCHANGED <<loopVars, stopRequested, window, locks, stopAt, ghosts>>

StartWorkers ==
    /\ Free(Main, "workers") /\ StartAll
    /\ Go(Main, "loop")
    /\ UNCHANGED <<stopRequested, window, locks, stopAt, up, ghosts>>

(* The loop (and the emergency bootstrap before it, which polls the same    *)
(* two files) ends on a stop request or without a running manager.          *)
LoopDone == stopRequested \/ manager # "live"

LoopEnd ==
    /\ Free(Main, "loop") /\ LoopDone
    /\ Go(Main, "tail") /\ StopGo(Main, "raise")
    /\ UNCHANGED <<loopVars, stopRequested, window, locks, up, ghosts>>

(* stop.flag: the loop calls stop() itself.                                 *)
StopFile ==
    /\ Free(Main, "loop") /\ ~LoopDone /\ requests < MaxRequests
    /\ requests' = requests + 1
    /\ StopBegin(Main)
    /\ UNCHANGED <<loopVars, running, stopping, queue, closing, sessions,
                   locks, pc, up, deaf>>

(* start() has returned: the last lines of the thread StartHunter created.  *)
ThreadEnds ==
    /\ Free(Main, "tail")
    /\ Go(Main, "off")
    /\ running' = FALSE /\ stopping' = FALSE
    /\ UNCHANGED <<loopVars, stopRequested, queue, closing, sessions, requests,
                   locks, stopAt, up, ghosts>>

-----------------------------------------------------------------------------
(* processRealtimeCommand, by the main loop (command file) or by the        *)
(* command worker; home is where the thread goes back to.                   *)

Home(t) == IF t = Main THEN "loop" ELSE "idle"

(* A recheck of the live ports pauses the program and leaves it paused.     *)
Short(t, c) ==
    /\ \/ c \in {"pause", "recheck"} /\ SetPaused(TRUE) /\ UNCHANGED stopRequested
       \/ c = "resume" /\ SetPaused(FALSE) /\ UNCHANGED stopRequested
       \/ c = "stop" /\ stopRequested' = TRUE /\ UNCHANGED loopVars
    /\ Go(t, Home(t))

Dispatch(t, c) ==
    \/ c \notin Long /\ Short(t, c)
    \/ c \in Long /\ Go(t, c) /\ UNCHANGED <<loopVars, stopRequested>>

CommandFile ==
    /\ Free(Main, "loop") /\ ~LoopDone
    /\ \E c \in Filed :
         /\ c \notin {"pause", "resume"} => requests < MaxRequests
         /\ requests' = IF c \in {"pause", "resume"} THEN requests ELSE requests + 1
         /\ Dispatch(Main, c)
    /\ UNCHANGED <<running, stopping, queue, closing, sessions, locks, stopAt,
                   up, ghosts>>

(* run_cycle: nothing when a cycle is going on, else a cycle, which         *)
(* provisions ports at its end; reprovision_ports: stop, then provision.    *)
LongStep(t) ==
    /\ stopAt[t] = "no"
    /\ \/ /\ pc[t] = "cycle" /\ cycle # NoOne /\ Go(t, Home(t))
          /\ UNCHANGED <<cycle, up, clean>>
       \/ /\ pc[t] = "cycle" /\ cycle = NoOne /\ cycle' = t /\ Go(t, "cycling")
          /\ UNCHANGED <<up, clean>>
       \/ /\ pc[t] = "cycling" /\ cycle' = NoOne /\ Go(t, Home(t))
          /\ up' = up \cup {"ports"} /\ clean' = FALSE
       \/ /\ pc[t] = "reprovision" /\ up' = up \ {"ports"} /\ Go(t, "provision")
          /\ UNCHANGED <<cycle, clean>>
       \/ /\ pc[t] = "provision" /\ up' = up \cup {"ports"} /\ Go(t, Home(t))
          /\ UNCHANGED cycle /\ clean' = FALSE
    /\ UNCHANGED <<loopVars, stopRequested, window, owner, stopAt, deaf>>

-----------------------------------------------------------------------------
(* The workers, with the cycle lock of the scanner's run                    *)

(* The scanner's run: a cycle, if no command is running one; the cycle      *)
(* provisions ports before it releases the lock.                            *)
ScannerLocks ==
    /\ at[Scanner] = "run" /\ cycle = NoOne
    /\ cycle' = Scanner
    /\ UNCHANGED <<loopVars, stopRequested, window, owner, pc, stopAt, up, ghosts>>

ScannerEnds ==
    /\ at[Scanner] = "run" /\ cycle = Scanner
    /\ EndRun(Scanner)
    /\ cycle' = NoOne /\ up' = up \cup {"ports"}
    /\ UNCHANGED <<stopRequested, window, owner, pc, stopAt, ghosts>>

ScannerSkips ==
    /\ at[Scanner] = "run" /\ cycle \notin {NoOne, Scanner}
    /\ EndRun(Scanner)
    /\ UNCHANGED <<stopRequested, window, locks, pc, stopAt, up, ghosts>>

WorkerSteps(w) ==
    /\ w = Scanner => at[w] # "run"
    /\ Loop(w)
    /\ UNCHANGED <<stopRequested, window, locks, pc, stopAt, up, ghosts>>

-----------------------------------------------------------------------------
(* The window                                                               *)

Calling(t) == pc[t] \in {"take", "joining"}

(* StartHunter: refused while running or stopping; it waits for the mutex   *)
(* (EnsureOrchestrator) and for the thread of the last session.  The thread *)
(* of a session clears both flags as it ends, so a StopHunter that has not  *)
(* joined it yet will join the thread of the new session instead.           *)
StartHunter ==
    /\ pc[Ui] = "open" /\ sessions < MaxSessions
    /\ ~running /\ ~stopping /\ owner = NoOne /\ pc[Main] = "off"
    /\ sessions' = sessions + 1
    /\ running' = TRUE /\ clean' = FALSE
    /\ deaf' = (deaf \/ Calling(Cmd))
    /\ Go(Main, "begin")
    /\ UNCHANGED <<loopVars, stopRequested, stopping, queue, closing, requests,
                   locks, stopAt, up>>

RequestStopHunter ==
    /\ pc[Ui] = "open" /\ running /\ ~stopping
    /\ stopping' = TRUE
    /\ queue' = Append(queue, "StopHunter")
    /\ UNCHANGED <<loopVars, stopRequested, running, closing, sessions, requests,
                   locks, pc, stopAt, up, ghosts>>

RunCommandAsync(c) ==
    /\ pc[Ui] = "open" /\ requests < MaxRequests
    /\ requests' = requests + 1
    /\ queue' = Append(queue, c)
    /\ UNCHANGED <<loopVars, stopRequested, running, stopping, closing, sessions,
                   locks, pc, stopAt, up, ghosts>>

(* The command worker runs what was queued one by one, in order, until the  *)
(* window closes: what is still queued then is dropped.                     *)
TakeCommand ==
    /\ Free(Cmd, "idle") /\ ~closing /\ queue # <<>>
    /\ queue' = Tail(queue)
    /\ \/ /\ Head(queue) = "StopHunter"
          /\ Go(Cmd, "take") /\ UNCHANGED <<loopVars, stopRequested>>
       \/ Head(queue) # "StopHunter" /\ Dispatch(Cmd, Head(queue))
    /\ UNCHANGED <<running, stopping, closing, sessions, requests, locks,
                   stopAt, up, ghosts>>

CmdLeaves ==
    /\ Free(Cmd, "idle") /\ closing
    /\ Go(Cmd, "gone")
    /\ UNCHANGED <<loopVars, stopRequested, window, locks, stopAt, up, ghosts>>

(* StopHunter, by the command worker or the destructor: stop() under the    *)
(* window's mutex, then a join of the orchestrator's thread.                *)
StopHunterTakes(t) ==
    /\ Free(t, "take") /\ owner = NoOne
    /\ owner' = t /\ stopping' = TRUE
    /\ Go(t, "joining")
    /\ StopBegin(t)
    /\ UNCHANGED <<loopVars, running, queue, closing, sessions, requests, cycle,
                   up, deaf>>

StopHunterReturns(t) ==
    /\ Free(t, "joining") /\ pc[Main] = "off"
    /\ running' = FALSE /\ stopping' = FALSE
    /\ Go(t, IF t = Ui THEN "closed" ELSE "idle")
    /\ UNCHANGED <<loopVars, stopRequested, queue, closing, sessions, requests,
                   locks, stopAt, up, ghosts>>

(* The destructor stops and joins the command worker, then the program.     *)
Close ==
    /\ Free(Ui, "open")
    /\ closing' = TRUE /\ Go(Ui, "joinWorker")
    /\ UNCHANGED <<loopVars, stopRequested, running, stopping, queue, sessions,
                   requests, locks, stopAt, up, ghosts>>

CmdJoined ==
    /\ Free(Ui, "joinWorker") /\ pc[Cmd] = "gone"
    /\ Go(Ui, "take")
    /\ UNCHANGED <<loopVars, stopRequested, window, locks, stopAt, up, ghosts>>

-----------------------------------------------------------------------------
Intact == ~broken /\ UNCHANGED broken

MainSteps ==
    /\ Intact
    /\ \/ StartFetch \/ StartEnter \/ StartServices \/ StartWorkers
       \/ LoopEnd \/ ThreadEnds \/ LongStep(Main) \/ Stop(Main)

MainNext == MainSteps \/ (Intact /\ (StopFile \/ CommandFile))

CmdNext ==
    /\ Intact
    /\ \/ TakeCommand \/ CmdLeaves \/ LongStep(Cmd) \/ Stop(Cmd)
       \/ StopHunterTakes(Cmd) \/ StopHunterReturns(Cmd)

Closes ==
    /\ Intact
    /\ \/ CmdJoined \/ Stop(Ui)
       \/ StopHunterTakes(Ui) \/ StopHunterReturns(Ui)

User ==
    /\ Intact
    /\ \/ StartHunter \/ RequestStopHunter \/ Close
       \/ \E c \in Posted : RunCommandAsync(c)

WorkerNext(w) ==
    /\ Intact
    /\ \/ WorkerSteps(w)
       \/ w = Scanner /\ (ScannerLocks \/ ScannerEnds \/ ScannerSkips)

Next ==
    \/ MainNext \/ CmdNext \/ Closes \/ User
    \/ \E w \in Worker : WorkerNext(w)
    \/ ~broken /\ \E t \in {Main, Cmd, Ui} : Breaks(t)

Spec == Init /\ [][Next]_vars

(* The threads are the operating system's: each goes on when it can.  The   *)
(* user and the two files owe nothing.  The destructor's steps begin when   *)
(* the command worker is gone: one fairness condition is enough for both.   *)
(* After undefined behaviour nobody owes anything.                          *)
FairSpec ==
    /\ Spec
    /\ WF_vars(MainSteps) /\ WF_vars(CmdNext \/ Closes)
    /\ \A w \in Worker : WF_vars(WorkerNext(w))

-----------------------------------------------------------------------------
(* Properties                                                               *)

TypeOK ==
    /\ LoopTypeOK
    /\ {stopRequested, running, stopping, closing, broken, deaf, clean} \subseteq BOOLEAN
    /\ owner \in {NoOne, Cmd, Ui}
    /\ cycle \in {NoOne, Main, Cmd, Scanner}
    /\ pc[Main] \in MainAt \cup Long
    /\ pc[Cmd] \in CmdAt \cup Long
    /\ pc[Ui] \in UiAt
    /\ stopAt \in [{Main, Cmd, Ui} -> StopAt]
    /\ queue \in Seq(Posted \cup {"StopHunter"})
    /\ up \subseteq Service
    /\ sessions \in 0 .. MaxSessions /\ requests \in 0 .. MaxRequests

(* As long as no two threads have met at the manager (Breaks), workers and  *)
(* services belong to a session: whenever the orchestrator's thread has     *)
(* ended no worker is left, whichever thread, or two, took them down.       *)
(* After a StopHunter that met a session in its main loop, and with no      *)
(* command having provisioned since, no service is up either: no worker or  *)
(* loop step that was under way brings one back.                            *)
StopIsClean ==
    /\ TypeOK
    /\ ~broken /\ pc[Main] = "off" => manager = "none" /\ \A w \in Worker : at[w] = "none"
    /\ ~broken /\ clean /\ pc[Main] = "off" /\ stopAt = [t \in {Main, Cmd, Ui} |-> "no"] =>
          up = {}

(* StopHunter returns, unless a start has overtaken its request or its      *)
(* joins or its destruction of the manager have met another thread there    *)
(* with more than a harmless outcome.                                       *)
StopReturns ==
    (Calling(Cmd) \/ Calling(Ui)) ~> (~Calling(Cmd) /\ ~Calling(Ui)) \/ deaf \/ broken

(* A worker that is neither paused nor stopped runs again and again.        *)
WorkGoesOn ==
    <>[](manager = "live" /\ ~paused /\ ~broken) =>
        \A w \in Worker : []<>(at[w] = "run")

(* Seen from the workers, whatever threads pause, start and stop them, the  *)
(* program is one manager after another: WorkerLoop's specification.        *)
ImplementsWorkerLoop == LoopSpec

=============================================================================
