----------------------------- MODULE WorkerLoop -----------------------------
(* The worker threads of thread_manager.cpp: BaseWorker::runLoop, one       *)
(* thread per worker, and ThreadManager, which starts all of them, raises   *)
(* one stop flag for all and joins them.  A worker reads the stop flag and  *)
(* the orchestrator's pause flag without a lock, each at its own moment.    *)
(*                                                                          *)
(* Every sleep of a worker is a wait_for on a condition variable.  The flag *)
(* is raised without the variable's mutex, so a notification may be lost    *)
(* and the wait then ends by its timeout (250 ms or 1 s): a sleeping thread *)
(* can take its next step at any time, and always takes it in the end.      *)
EXTENDS Integers, FiniteSets

CONSTANTS
    Worker,         \* the workers of the manager
    MaxInterval,    \* longest interval_seconds a worker sets for itself
    MaxManagers     \* managers the orchestrator creates

ASSUME WorkerAssumption ==
    /\ MaxInterval \in Nat \ {0}
    /\ MaxManagers \in Nat

VARIABLES
    manager,    \* "none", "live" or, once stopAll has begun, "stopping"
    managers,   \* managers created so far
    stop,       \* ThreadManager::stop_event_
    paused,     \* HunterOrchestrator::paused_, read by pause_callback_
    at,         \* where a worker's thread is in runLoop
    left,       \* runLoop's remaining
    late        \* ghost: runs a worker began after the flag was raised

loopVars == <<manager, managers, stop, paused, at, left, late>>

(* "none" is a thread that was never created or has been joined, "ended"    *)
(* one that has returned from runLoop and can be joined; "wait" and "hold"  *)
(* are the two loops that wait for the end of a pause.                      *)
Place == {"none", "check", "wait", "run", "count", "hold", "ended"}

LoopInit ==
    /\ manager = "none" /\ managers = 0
    /\ stop = FALSE /\ paused = FALSE
    /\ at = [w \in Worker |-> "none"]
    /\ left = [w \in Worker |-> 0]
    /\ late = [w \in Worker |-> 0]

-----------------------------------------------------------------------------
(* ThreadManager                                                            *)

(* make_unique<ThreadManager> and startAll, which clears the flag before it *)
(* creates the threads.                                                     *)
StartAll ==
    /\ manager = "none" /\ managers < MaxManagers
    /\ manager' = "live" /\ managers' = managers + 1
    /\ stop' = FALSE
    /\ at' = [w \in Worker |-> "check"]
    /\ late' = [w \in Worker |-> 0]
    /\ UNCHANGED <<paused, left>>

(* wrong variant: the workers are notified, the flag is not raised          *)
NotifyOnly ==
    /\ manager # "none"
    /\ manager' = "stopping"
    /\ UNCHANGED <<managers, stop, paused, at, left, late>>

(* stopAll raises the flag and notifies every worker.                       *)
RaiseStop ==
    /\ manager # "none"
    /\ manager' = "stopping"
    /\ stop' = TRUE
    /\ UNCHANGED <<managers, paused, at, left, late>>

Join(w) ==
    /\ manager = "stopping" /\ at[w] = "ended"
    /\ at' = [at EXCEPT ![w] = "none"]
    /\ UNCHANGED <<manager, managers, stop, paused, left, late>>

Joined == \A w \in Worker : at[w] = "none"

(* stopAll has joined every thread and the manager is destroyed.            *)
Reset ==
    /\ manager = "stopping" /\ Joined
    /\ manager' = "none"
    /\ UNCHANGED <<managers, stop, paused, at, left, late>>

-----------------------------------------------------------------------------
(* BaseWorker::runLoop                                                      *)

MoveTo(w, place) ==
    /\ at' = [at EXCEPT ![w] = place]
    /\ UNCHANGED <<manager, managers, stop, paused>>

BeginRun(w) ==
    /\ MoveTo(w, "run")
    /\ late' = [late EXCEPT ![w] = IF stop THEN @ + 1 ELSE @]
    /\ UNCHANGED left

(* The outer while: stop first, then the pause, then execute.               *)
Check(w) ==
    /\ at[w] = "check"
    /\ \/ stop /\ MoveTo(w, "ended") /\ UNCHANGED <<left, late>>
       \/ ~stop /\ paused /\ MoveTo(w, "wait") /\ UNCHANGED <<left, late>>
       \/ ~stop /\ ~paused /\ BeginRun(w)

(* A pause that ends, by a resume or by the stop, is followed by a run: the *)
(* flag is not read again between the two.                                  *)
PauseOver == stop \/ ~paused

LeaveWait(w) == at[w] = "wait" /\ PauseOver /\ BeginRun(w)

(* wrong variant: the next run begins without a look at the flag            *)
EndRunAgain(w) == at[w] = "run" /\ BeginRun(w)

(* execute has returned or thrown; a worker may have set its interval.      *)
EndRun(w) ==
    /\ at[w] = "run"
    /\ UNCHANGED late
    /\ \/ stop /\ MoveTo(w, "ended") /\ UNCHANGED left
       \/ /\ ~stop /\ MoveTo(w, "count")
          /\ \E n \in 1 .. MaxInterval : left' = [left EXCEPT ![w] = n]

OneSecondLess(w) == left' = [left EXCEPT ![w] = @ - 1]

(* One turn of the countdown: the end of it, a pause, or a second slept.    *)
Count(w) ==
    /\ at[w] = "count" /\ UNCHANGED late
    /\ \/ (left[w] = 0 \/ stop) /\ MoveTo(w, "check") /\ UNCHANGED left
       \/ left[w] > 0 /\ ~stop /\ paused /\ MoveTo(w, "hold") /\ UNCHANGED left
       \/ left[w] > 0 /\ ~stop /\ ~paused /\ MoveTo(w, "count") /\ OneSecondLess(w)

(* wrong variant: the countdown's pause ends with the stop only             *)
LeaveHoldOnStop(w) ==
    /\ at[w] = "hold" /\ stop
    /\ MoveTo(w, "count") /\ OneSecondLess(w)
    /\ UNCHANGED late

LeaveHold(w) ==
    /\ at[w] = "hold" /\ PauseOver
    /\ MoveTo(w, "count") /\ OneSecondLess(w)
    /\ UNCHANGED late

Loop(w) ==
    \/ Check(w)
    \/ LeaveWait(w)
    \/ EndRun(w)
    \/ Count(w)
    \/ LeaveHold(w)

-----------------------------------------------------------------------------
(* pause and resume, the stop's clearing of the pause, and a recheck, which *)
(* leaves the program paused.                                               *)
SetPaused(p) ==
    /\ paused' = p
    /\ UNCHANGED <<manager, managers, stop, at, left, late>>

LoopNext ==
    \/ StartAll
    \/ RaiseStop
    \/ \E w \in Worker : Join(w)
    \/ Reset
    \/ \E w \in Worker : Loop(w)
    \/ \E p \in BOOLEAN : SetPaused(p)

LoopSpec == LoopInit /\ [][LoopNext]_loopVars

-----------------------------------------------------------------------------
(* Properties                                                               *)

LoopTypeOK ==
    /\ manager \in {"none", "live", "stopping"}
    /\ managers \in 0 .. MaxManagers
    /\ stop \in BOOLEAN /\ paused \in BOOLEAN
    /\ at \in [Worker -> Place]
    /\ left \in [Worker -> 0 .. MaxInterval]
    /\ late \in [Worker -> Nat]

(* A manager is destroyed only when none of its threads is left: no worker  *)
(* runs on the stop flag and the members of a manager that is gone.         *)
NoWorkerOutlives == manager = "none" => \A w \in Worker : at[w] = "none"

(* Once stopAll has raised the flag a worker begins at most one more run,   *)
(* the one a pause was holding back: stopAll waits for it.                  *)
LastRunOnly == \A w \in Worker : late[w] <= 1

=============================================================================
