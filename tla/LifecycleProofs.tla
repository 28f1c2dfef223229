--------------------------- MODULE LifecycleProofs ---------------------------
(* What the stop of the workers guarantees, for any set of workers, any     *)
(* interval and any number of managers; that the threads that start, pause  *)
(* and stop the program make steps of the workers' specification only; and  *)
(* that a stop leaves nothing up, for any commands and sessions.            *)
(*                                                                          *)
(* LastRunOnly is not inductive: that a worker whose late run has begun     *)
(* will not begin another depends on where it is, and on the flag staying   *)
(* up until the next manager's startAll, which starts the count anew.       *)
(* StopIsClean is not either: what is still up while a stop goes on has to  *)
(* be before that stop, and workers may bring the ports up again until the  *)
(* stop has joined them.                                                    *)
EXTENDS Lifecycle, SequenceTheorems, TLAPS

-----------------------------------------------------------------------------
(* The workers                                                              *)

(* The last run of a worker is under way or over, and the flag is still up. *)
LateIsLast ==
    \A w \in Worker :
        /\ late[w] <= 1
        /\ late[w] = 1 => stop /\ at[w] \in {"run", "ended", "none"}

(* A countdown is left for a pause only with seconds to go.                 *)
HoldHasTime == \A w \in Worker : at[w] = "hold" => left[w] > 0

LoopInv == LoopTypeOK /\ NoWorkerOutlives /\ LateIsLast /\ HoldHasTime

(* The initial state: no manager, no thread.                                *)
LEMMA InitLoop == LoopInit => LoopInv
<1> SUFFICES ASSUME LoopInit
             PROVE  LoopInv
  OBVIOUS
<1> USE WorkerAssumption DEF LoopInit
<1>1. LoopTypeOK
  <2>1. at \in [Worker -> Place]
    BY DEF Place
  <2>2. left \in [Worker -> 0 .. MaxInterval] /\ late \in [Worker -> Nat]
    OBVIOUS
  <2>3. manager \in {"none", "live", "stopping"} /\ managers \in 0 .. MaxManagers
    OBVIOUS
  <2>4. stop \in BOOLEAN /\ paused \in BOOLEAN
    OBVIOUS
  <2> QED
    BY ONLY <2>1, <2>2, <2>3, <2>4 DEF LoopTypeOK
<1>2. NoWorkerOutlives
  BY DEF NoWorkerOutlives
<1>3. LateIsLast
  BY DEF LateIsLast
<1>4. HoldHasTime
  BY DEF HoldHasTime
<1> QED
  BY <1>1, <1>2, <1>3, <1>4 DEF LoopInv

(* Steps of the manager.  startAll is taken with no manager, so no thread   *)
(* of an earlier one is left, and it starts the count of late runs anew.    *)
LEMMA ManagerStep ==
    LoopInv /\ (StartAll \/ RaiseStop \/ Reset \/ \E w \in Worker : Join(w)) => LoopInv'
<1> SUFFICES ASSUME LoopInv,
                    StartAll \/ RaiseStop \/ Reset \/ \E w \in Worker : Join(w)
             PROVE  LoopInv'
  OBVIOUS
<1> USE WorkerAssumption DEF LoopInv
<1>1. LoopTypeOK'
  <2> USE DEF LoopTypeOK, Place
  <2>1. CASE StartAll
    <3>1. at' \in [Worker -> Place] /\ late' \in [Worker -> Nat]
      BY <2>1 DEF StartAll
    <3>2. managers' \in 0 .. MaxManagers
      BY <2>1 DEF StartAll
    <3> QED
      BY <2>1, <3>1, <3>2 DEF StartAll
  <2>2. CASE RaiseStop
    BY <2>2 DEF RaiseStop
  <2>3. CASE Reset
    BY <2>3 DEF Reset
  <2>4. ASSUME NEW w \in Worker, Join(w)
        PROVE  LoopTypeOK'
    BY <2>4 DEF Join
  <2> QED
    BY <2>1, <2>2, <2>3, <2>4
<1>2. NoWorkerOutlives'
  BY DEF NoWorkerOutlives, StartAll, RaiseStop, Reset, Joined, Join
<1>3. LateIsLast'
  BY DEF LateIsLast, LoopTypeOK, StartAll, RaiseStop, Reset, Join
<1>4. HoldHasTime'
  BY DEF HoldHasTime, LoopTypeOK, StartAll, RaiseStop, Reset, Join
<1> QED
  BY <1>1, <1>2, <1>3, <1>4

(* Steps of a worker's thread.  Only the end of a pause can begin a run     *)
(* with the flag up, and a run that ends with the flag up is the last.      *)
LEMMA WorkerStep ==
    ASSUME LoopInv, NEW w \in Worker, Loop(w)
    PROVE  LoopInv'
<1> USE WorkerAssumption DEF LoopInv, MoveTo
<1>1. CASE Check(w)
  <2> USE <1>1 DEF Check, BeginRun
  <2>1. LoopTypeOK'
    BY DEF LoopTypeOK, Place, HoldHasTime
  <2>2. NoWorkerOutlives'
    BY DEF NoWorkerOutlives, LoopTypeOK
  <2>3. LateIsLast'
    BY DEF LateIsLast, LoopTypeOK
  <2>4. HoldHasTime'
    BY DEF HoldHasTime, LoopTypeOK
  <2> QED
    BY <2>1, <2>2, <2>3, <2>4
<1>2. CASE LeaveWait(w)
  <2> USE <1>2 DEF LeaveWait, PauseOver, BeginRun
  <2>1. LoopTypeOK'
    BY DEF LoopTypeOK, Place, HoldHasTime
  <2>2. NoWorkerOutlives'
    BY DEF NoWorkerOutlives, LoopTypeOK
  <2>3. LateIsLast'
    BY DEF LateIsLast, LoopTypeOK
  <2>4. HoldHasTime'
    BY DEF HoldHasTime, LoopTypeOK
  <2> QED
    BY <2>1, <2>2, <2>3, <2>4
<1>3. CASE EndRun(w)
  <2> USE <1>3 DEF EndRun
  <2>1. LoopTypeOK'
    BY DEF LoopTypeOK, Place, HoldHasTime
  <2>2. NoWorkerOutlives'
    BY DEF NoWorkerOutlives, LoopTypeOK
  <2>3. LateIsLast'
    BY DEF LateIsLast, LoopTypeOK
  <2>4. HoldHasTime'
    BY DEF HoldHasTime, LoopTypeOK
  <2> QED
    BY <2>1, <2>2, <2>3, <2>4
<1>4. CASE Count(w)
  <2> USE <1>4 DEF Count, OneSecondLess
  <2>1. LoopTypeOK'
    BY DEF LoopTypeOK, Place, HoldHasTime
  <2>2. NoWorkerOutlives'
    BY DEF NoWorkerOutlives, LoopTypeOK
  <2>3. LateIsLast'
    BY DEF LateIsLast, LoopTypeOK
  <2>4. HoldHasTime'
    BY DEF HoldHasTime, LoopTypeOK
  <2> QED
    BY <2>1, <2>2, <2>3, <2>4
<1>5. CASE LeaveHold(w)
  <2> USE <1>5 DEF LeaveHold, PauseOver, OneSecondLess
  <2>1. LoopTypeOK'
    BY DEF LoopTypeOK, Place, HoldHasTime
  <2>2. NoWorkerOutlives'
    BY DEF NoWorkerOutlives, LoopTypeOK
  <2>3. LateIsLast'
    BY DEF LateIsLast, LoopTypeOK
  <2>4. HoldHasTime'
    BY DEF HoldHasTime, LoopTypeOK
  <2> QED
    BY <2>1, <2>2, <2>3, <2>4
<1> QED
  BY <1>1, <1>2, <1>3, <1>4, <1>5 DEF Loop

LEMMA LoopStep == LoopInv /\ [LoopNext]_loopVars => LoopInv'
<1> SUFFICES ASSUME LoopInv, [LoopNext]_loopVars
             PROVE  LoopInv'
  OBVIOUS
<1>1. CASE \E w \in Worker : Loop(w)
  BY <1>1, WorkerStep
<1>2. ASSUME NEW p \in BOOLEAN, SetPaused(p)
      PROVE  LoopInv'
  BY <1>2 DEF SetPaused, LoopInv, LoopTypeOK, NoWorkerOutlives, LateIsLast, HoldHasTime
<1>3. CASE UNCHANGED loopVars
  BY <1>3 DEF loopVars, LoopInv, LoopTypeOK, NoWorkerOutlives, LateIsLast, HoldHasTime
<1> QED
  BY <1>1, <1>2, <1>3, ManagerStep DEF LoopNext

(* The inductive invariant.                                                 *)
THEOREM LoopInvariant == LoopSpec => []LoopInv
<1>1. LoopInit => LoopInv
  BY InitLoop
<1>2. LoopInv /\ [LoopNext]_loopVars => LoopInv'
  BY LoopStep
<1> QED
  BY <1>1, <1>2, PTL DEF LoopSpec

(* Every variable of the loop keeps its type, the countdown never passes    *)
(* zero.                                                                    *)
THEOREM LoopTypeCorrect == LoopSpec => []LoopTypeOK
<1>1. LoopInv => LoopTypeOK
  BY DEF LoopInv
<1> QED
  BY <1>1, LoopInvariant, PTL

(* No thread is left when a manager is destroyed.                           *)
THEOREM NobodyOutlives == LoopSpec => []NoWorkerOutlives
<1>1. LoopInv => NoWorkerOutlives
  BY DEF LoopInv
<1> QED
  BY <1>1, LoopInvariant, PTL

(* After the stop flag is up a worker begins at most one more run.          *)
THEOREM OneLateRun == LoopSpec => []LastRunOnly
<1>1. LoopInv => LastRunOnly
  BY DEF LoopInv, LateIsLast, LastRunOnly
<1> QED
  BY <1>1, LoopInvariant, PTL

-----------------------------------------------------------------------------
(* The program is a WorkerLoop                                              *)

(* What the threads do to the workers, each in its step.                    *)
LEMMA StopLoops ==
    ASSUME NEW t, Stop(t)
    PROVE  [LoopNext]_loopVars
<1>1. CASE StopPause(t)
  <2>1. SetPaused(FALSE) /\ FALSE \in BOOLEAN
    BY <1>1 DEF StopPause
  <2> QED
    BY <2>1 DEF LoopNext
<1>2. CASE StopRaise(t)
  BY <1>2 DEF StopRaise, LoopNext
<1>3. CASE StopJoin(t)
  BY <1>3 DEF StopJoin, LoopNext
<1>4. CASE StopReset(t)
  BY <1>4 DEF StopReset, LoopNext
<1>5. CASE StopService(t)
  BY <1>5 DEF StopService
<1> QED
  BY <1>1, <1>2, <1>3, <1>4, <1>5 DEF Stop

LEMMA DispatchLoops ==
    ASSUME NEW t, NEW c, Dispatch(t, c)
    PROVE  [LoopNext]_loopVars
<1>1. TRUE \in BOOLEAN /\ FALSE \in BOOLEAN
  OBVIOUS
<1>2. \/ SetPaused(TRUE) \/ SetPaused(FALSE) \/ UNCHANGED loopVars
  BY DEF Dispatch, Short
<1> QED
  BY <1>1, <1>2 DEF LoopNext

LEMMA MainLoops == MainNext => [LoopNext]_loopVars
<1>1. StartWorkers => LoopNext
  BY DEF StartWorkers, LoopNext
<1>2. StartFetch \/ StartEnter \/ StartServices \/ LoopEnd \/ ThreadEnds \/ LongStep(Main)
         \/ StopFile => UNCHANGED loopVars
  BY DEF StartFetch, StartEnter, StartServices, LoopEnd, ThreadEnds, LongStep, StopFile
<1>3. CommandFile => [LoopNext]_loopVars
  BY DispatchLoops DEF CommandFile
<1> QED
  BY <1>1, <1>2, <1>3, StopLoops DEF MainNext, MainSteps

LEMMA WindowLoops == CmdNext \/ Closes \/ User => [LoopNext]_loopVars
<1>1. ASSUME NEW t
      PROVE  StopHunterTakes(t) \/ StopHunterReturns(t) \/ LongStep(t) => UNCHANGED loopVars
  BY DEF StopHunterTakes, StopHunterReturns, LongStep
<1>2. TakeCommand => [LoopNext]_loopVars
  BY DispatchLoops DEF TakeCommand
<1>3. CmdLeaves \/ CmdJoined \/ User => UNCHANGED loopVars
  BY DEF CmdLeaves, CmdJoined, User, StartHunter, RequestStopHunter, Close, RunCommandAsync
<1> QED
  BY <1>1, <1>2, <1>3, StopLoops DEF CmdNext, Closes

LEMMA WorkersLoop ==
    ASSUME NEW w \in Worker, WorkerNext(w)
    PROVE  [LoopNext]_loopVars
<1>1. ScannerEnds \/ ScannerSkips => Loop(Scanner)
  BY DEF ScannerEnds, ScannerSkips, Loop
<1>2. ScannerLocks => UNCHANGED loopVars
  BY DEF ScannerLocks
<1> QED
  BY <1>1, <1>2 DEF WorkerNext, WorkerSteps, LoopNext

LEMMA StepLoops == [Next]_vars => [LoopNext]_loopVars
<1>1. UNCHANGED vars => UNCHANGED loopVars
  BY DEF vars, loopVars
<1>2. ASSUME NEW t, Breaks(t)
      PROVE  UNCHANGED loopVars
  BY <1>2 DEF Breaks
<1> QED
  BY <1>1, <1>2, MainLoops, WindowLoops, WorkersLoop DEF Next

(* Whatever the orchestrator's thread, the window and its commands do, in   *)
(* any order, the workers see one manager started, stopped and destroyed    *)
(* after another, and a pause flag that changes: stop() by two threads at   *)
(* once, a start in between, commands from the file.                        *)
THEOREM RefinesWorkerLoop == Spec => ImplementsWorkerLoop
<1>1. Init => LoopInit
  BY DEF Init
<1> QED
  BY <1>1, StepLoops, PTL DEF Spec, ImplementsWorkerLoop, LoopSpec

(* So what the workers' specification promises the program keeps: after a   *)
(* stop no worker begins more than the run a pause was holding back.        *)
THEOREM ProgramLastRun == Spec => []LastRunOnly
  BY RefinesWorkerLoop, OneLateRun DEF ImplementsWorkerLoop

-----------------------------------------------------------------------------
(* A stop is complete                                                       *)

Threads == {Main, Cmd, Ui}

(* A manager exists from the main loop to the end of the tail's stop, which *)
(* is of the workers only.                                                  *)
NoManager ==
    /\ pc[Main] \notin {"loop"} \cup Long /\ ~(pc[Main] = "tail" /\ stopAt[Main] # "no") =>
          manager = "none"
    /\ pc[Main] = "tail" => stopAt[Main] \in {"no", "raise", "join", "reset"}

(* A thread in a whole stop(), which the tail of start() is not.            *)
Whole(t, places) == stopAt[t] \in places /\ pc[t] # "tail"
WithWorkers == {"pause", "raise", "join", "reset"}

(* Since a stop met the session in its loop, what is still up is what one   *)
(* of those that stop it has not come to.                                   *)
Remains ==
    clean =>
        /\ pc[Main] \in {"loop", "tail", "off"} \cup Long
        /\ manager # "none" => \E t \in Threads : Whole(t, WithWorkers)
        /\ "ports" \in up => \E t \in Threads : Whole(t, WithWorkers \cup {"ports"})
        /\ "dpi" \in up => \E t \in Threads : Whole(t, WithWorkers \cup {"ports", "dpi"})
        /\ "balancers" \in up => \E t \in Threads : Whole(t, StopAt \ {"no"})

OwnTypes ==
    /\ {stopRequested, running, stopping, closing, deaf, clean} \subseteq BOOLEAN
    /\ owner \in {NoOne, Cmd, Ui}
    /\ cycle \in {NoOne, Main, Cmd, Scanner}
    /\ queue \in Seq(Posted \cup {"StopHunter"})
    /\ up \subseteq Service
    /\ sessions \in 0 .. MaxSessions /\ requests \in 0 .. MaxRequests

PlaceTypes ==
    /\ pc \in [Threads -> MainAt \cup Long \cup CmdAt \cup UiAt]
    /\ pc[Main] \in MainAt \cup Long
    /\ pc[Cmd] \in CmdAt \cup Long
    /\ pc[Ui] \in UiAt
    /\ stopAt \in [Threads -> StopAt]

Inv == LoopInv /\ OwnTypes /\ PlaceTypes /\ NoManager /\ Remains /\ broken \in BOOLEAN


LEMMA Apart ==
    /\ Main # Cmd /\ Main # Ui /\ Cmd # Ui
    /\ Threads \cap Worker = {} /\ NoOne \notin Worker \cup Threads /\ Scanner \in Worker
    /\ Posted \subseteq Command /\ Filed \subseteq Command
    /\ MaxSessions \in Nat /\ MaxRequests \in Nat
    /\ Main \in Threads /\ Cmd \in Threads /\ Ui \in Threads
  BY LifecycleAssumption DEF Threads

(* The steps by thread.                                                     *)
OwnStep(t) == LongStep(t) \/ Stop(t)
StartSteps == StartFetch \/ StartEnter \/ StartServices \/ StartWorkers \/ LoopEnd \/ ThreadEnds
AnyWorker == \E w \in Worker : WorkerNext(w)
HunterSteps == \E t \in {Cmd, Ui} : StopHunterTakes(t) \/ StopHunterReturns(t)
WindowSteps == CmdLeaves \/ CmdJoined \/ User

LEMMA Steps ==
    ASSUME [Next]_vars
    PROVE  \/ StartSteps \/ StopFile \/ CommandFile \/ TakeCommand \/ HunterSteps \/ WindowSteps
           \/ \E t \in Threads : OwnStep(t)
           \/ AnyWorker \/ (\E t \in Threads : Breaks(t)) \/ UNCHANGED vars
  BY DEF Next, MainNext, MainSteps, CmdNext, Closes, StartSteps, HunterSteps, WindowSteps,
         OwnStep, AnyWorker, Threads

LEMMA OwnTypesStep ==
    ASSUME OwnTypes, PlaceTypes, [Next]_vars
    PROVE  OwnTypes'
<1> USE Apart DEF OwnTypes, Service, window, locks, ghosts
<1>0. PlaceTypes
  OBVIOUS
<1>1. CASE StartSteps
  BY <1>1 DEF StartSteps, StartFetch, StartEnter, StartServices, StartWorkers, LoopEnd, ThreadEnds
<1>2. CASE StopFile
  <2>1. clean' \in BOOLEAN /\ stopRequested' \in BOOLEAN
    BY <1>2 DEF StopFile, StopBegin, Stoppable
  <2>2. requests' \in 0 .. MaxRequests
    BY <1>2 DEF StopFile
  <2> QED
    BY <1>2, <2>1, <2>2 DEF StopFile
<1>3. CASE CommandFile
  <2>1. stopRequested' \in {TRUE, stopRequested}
    BY <1>3 DEF CommandFile, Dispatch, Short
  <2>2. requests' = requests \/ (requests < MaxRequests /\ requests' = requests + 1)
    BY <1>3 DEF CommandFile
  <2>3. requests' \in 0 .. MaxRequests
    BY <2>2
  <2> QED
    BY <1>3, <2>1, <2>3 DEF CommandFile
<1>4. CASE TakeCommand
  <2>1. stopRequested' \in {TRUE, stopRequested}
    BY <1>4 DEF TakeCommand, Dispatch, Short
  <2>2. Tail(queue) \in Seq(Posted \cup {"StopHunter"})
    BY <1>4, HeadTailProperties DEF TakeCommand
  <2> QED
    BY <1>4, <2>1, <2>2 DEF TakeCommand
<1>5. ASSUME NEW t \in {Cmd, Ui}, StopHunterTakes(t) \/ StopHunterReturns(t)
      PROVE  OwnTypes'
  BY <1>5 DEF StopHunterTakes, StopHunterReturns, StopBegin, Stoppable
<1>6. CASE WindowSteps
  <2>1. queue' \in Seq(Posted \cup {"StopHunter"})
    <3>1. CASE RequestStopHunter
      BY <3>1, AppendProperties DEF RequestStopHunter
    <3>2. ASSUME NEW c \in Posted, RunCommandAsync(c)
          PROVE  queue' \in Seq(Posted \cup {"StopHunter"})
      BY <3>2, AppendProperties DEF RunCommandAsync
    <3> QED
      BY <1>6, <3>1, <3>2 DEF WindowSteps, CmdLeaves, CmdJoined, User, StartHunter, Close
  <2>2. UNCHANGED <<cycle, up, owner, stopRequested, clean>> \/ StartHunter
    BY <1>6 DEF WindowSteps, CmdLeaves, CmdJoined, User, RequestStopHunter, Close, RunCommandAsync
  <2>3. StartHunter => UNCHANGED <<cycle, up, owner, stopRequested>> /\ clean' = FALSE
    BY DEF StartHunter
  <2>4. deaf' \in BOOLEAN /\ running' \in BOOLEAN /\ stopping' \in BOOLEAN /\ closing' \in BOOLEAN
    BY <1>6 DEF WindowSteps, CmdLeaves, CmdJoined, User, StartHunter, RequestStopHunter, Close,
                RunCommandAsync, Calling
  <2>5. sessions' \in 0 .. MaxSessions /\ requests' \in 0 .. MaxRequests
    BY <1>6 DEF WindowSteps, CmdLeaves, CmdJoined, User, StartHunter, RequestStopHunter, Close,
                RunCommandAsync
  <2> QED
    BY <2>1, <2>2, <2>3, <2>4, <2>5
<1>7. ASSUME NEW t \in Threads, LongStep(t)
      PROVE  OwnTypes'
  <2>1. t = Ui => FALSE
    BY <1>0, <1>7 DEF PlaceTypes, UiAt, LongStep
  <2>2. cycle' \in {NoOne, Main, Cmd, Scanner}
    BY <1>7, <2>1 DEF LongStep, Threads
  <2>3. up' \subseteq Service /\ clean' \in BOOLEAN
    BY <1>7 DEF LongStep
  <2> QED
    BY <1>7, <2>2, <2>3 DEF LongStep
<1>8. ASSUME NEW t \in Threads, Stop(t)
      PROVE  OwnTypes'
  <2>1. CASE StopService(t)
    BY <1>8, <2>1 DEF StopService
  <2> QED
    BY <1>8, <2>1 DEF Stop, StopPause, StopRaise, StopJoin, StopReset
<1>9. CASE AnyWorker
  BY <1>9 DEF AnyWorker, WorkerNext, WorkerSteps, ScannerLocks, ScannerEnds, ScannerSkips
<1>10. CASE (\E t \in Threads : Breaks(t)) \/ UNCHANGED vars
  BY <1>10 DEF Breaks, vars
<1> QED
  BY <1>1, <1>2, <1>3, <1>4, <1>5, <1>6, <1>7, <1>8, <1>9, <1>10, Steps DEF HunterSteps, OwnStep

(* A command is short or has places of its own.                             *)
LEMMA DispatchPlace ==
    ASSUME NEW t \in Threads, NEW c \in Command, Dispatch(t, c)
    PROVE  \E p \in Long \cup {Home(t)} : Go(t, p)
  BY DEF Dispatch, Short

LEMMA Gone ==
    ASSUME PlaceTypes, NEW t \in Threads, NEW p, Go(t, p)
    PROVE  /\ pc'[t] = p /\ \A s \in Threads : s # t => pc'[s] = pc[s]
           /\ t = Main /\ p \in MainAt \cup Long => pc' \in [Threads -> MainAt \cup Long \cup CmdAt \cup UiAt]
           /\ t = Cmd /\ p \in CmdAt \cup Long => pc' \in [Threads -> MainAt \cup Long \cup CmdAt \cup UiAt]
           /\ t = Ui /\ p \in UiAt => pc' \in [Threads -> MainAt \cup Long \cup CmdAt \cup UiAt]
  BY Apart DEF PlaceTypes, Go

LEMMA StopGone ==
    ASSUME PlaceTypes, NEW t \in Threads, NEW p, StopGo(t, p)
    PROVE  /\ stopAt'[t] = p /\ \A s \in Threads : s # t => stopAt'[s] = stopAt[s]
           /\ p \in StopAt => stopAt' \in [Threads -> StopAt]
  BY DEF PlaceTypes, StopGo

LEMMA PlaceTypesStep ==
    ASSUME OwnTypes, PlaceTypes, [Next]_vars
    PROVE  PlaceTypes'
<1> USE Apart DEF PlaceTypes
<1>0. ASSUME NEW t \in Threads, NEW p, Go(t, p),
             p \in IF t = Ui THEN UiAt ELSE IF t = Cmd THEN CmdAt \cup Long ELSE MainAt \cup Long
      PROVE  /\ pc' \in [Threads -> MainAt \cup Long \cup CmdAt \cup UiAt]
             /\ pc'[Main] \in MainAt \cup Long
             /\ pc'[Cmd] \in CmdAt \cup Long
             /\ pc'[Ui] \in UiAt
  <2>1. t = Main \/ t = Cmd \/ t = Ui
    BY DEF Threads
  <2> QED
    BY <1>0, <2>1, Gone
<1>1. ASSUME NEW t \in Threads, NEW p \in StopAt, StopGo(t, p)
      PROVE  stopAt' \in [Threads -> StopAt]
  BY <1>1, StopGone
<1>2. CASE StartSteps
  <2>1. \E p \in MainAt : Go(Main, p)
    BY <1>2 DEF StartSteps, StartFetch, StartEnter, StartServices, StartWorkers, LoopEnd,
                ThreadEnds, MainAt
  <2>2. stopAt' = stopAt \/ StopGo(Main, "raise")
    BY <1>2 DEF StartSteps, StartFetch, StartEnter, StartServices, StartWorkers, LoopEnd, ThreadEnds
  <2>3. stopAt' \in [Threads -> StopAt]
    BY <1>1, <2>2 DEF StopAt
  <2> QED
    BY <1>0, <2>1, <2>3
<1>3. CASE StopFile
  BY <1>1, <1>3 DEF StopFile, StopBegin, StopAt
<1>4. CASE CommandFile
  <2>1. PICK p \in Long \cup {"loop"} : Go(Main, p)
    BY <1>4, DispatchPlace DEF CommandFile, Home
  <2>2. p \in MainAt \cup Long /\ stopAt' = stopAt
    BY <1>4 DEF CommandFile, MainAt
  <2> QED
    BY <1>0, <2>1, <2>2
<1>5. CASE TakeCommand
  <2>1. stopAt' = stopAt /\ Head(queue) \in Posted \cup {"StopHunter"}
    BY <1>5, HeadTailProperties DEF TakeCommand, OwnTypes
  <2>2. \E p \in Long \cup {"idle", "take"} : Go(Cmd, p)
    BY <1>5, <2>1, DispatchPlace DEF TakeCommand, Home
  <2>3. {"idle", "take"} \subseteq CmdAt
    BY DEF CmdAt
  <2> QED
    BY <1>0, <2>1, <2>2, <2>3
<1>6. ASSUME NEW t \in {Cmd, Ui}, StopHunterTakes(t) \/ StopHunterReturns(t)
      PROVE  PlaceTypes'
  <2>1. \E p \in {"joining", "idle", "closed"} :
           Go(t, p) /\ (p = "idle" => t = Cmd) /\ (p = "closed" => t = Ui)
    BY <1>6 DEF StopHunterTakes, StopHunterReturns
  <2>2. stopAt' = stopAt \/ StopGo(t, "pause")
    BY <1>6 DEF StopHunterTakes, StopHunterReturns, StopBegin
  <2>3. stopAt' \in [Threads -> StopAt]
    BY <1>1, <2>2 DEF StopAt
  <2> QED
    BY <1>0, <2>1, <2>3 DEF CmdAt, UiAt
<1>7. CASE WindowSteps
  <2>1. stopAt' = stopAt
    BY <1>7 DEF WindowSteps, CmdLeaves, CmdJoined, User, StartHunter, RequestStopHunter, Close,
                RunCommandAsync
  <2>2. \/ pc' = pc \/ Go(Cmd, "gone") \/ Go(Main, "begin") \/ \E p \in {"take", "joinWorker"} : Go(Ui, p)
    BY <1>7 DEF WindowSteps, CmdLeaves, CmdJoined, User, StartHunter, RequestStopHunter, Close,
                RunCommandAsync
  <2>3. "gone" \in CmdAt /\ "begin" \in MainAt /\ {"take", "joinWorker"} \subseteq UiAt
    BY DEF CmdAt, MainAt, UiAt
  <2> QED
    BY <1>0, <2>1, <2>2, <2>3
<1>8. ASSUME NEW t \in Threads, LongStep(t)
      PROVE  PlaceTypes'
  <2>1. t = Ui => FALSE
    BY <1>8 DEF UiAt, LongStep
  <2>2. \E p \in Long \cup {Home(t)} : Go(t, p)
    BY <1>8 DEF LongStep, Long
  <2>3. stopAt' = stopAt
    BY <1>8 DEF LongStep
  <2> QED
    BY <1>0, <2>1, <2>2, <2>3 DEF Home, MainAt, CmdAt, Threads
<1>9. ASSUME NEW t \in Threads, Stop(t)
      PROVE  PlaceTypes'
  <2>1. pc' = pc
    BY <1>9 DEF Stop, StopPause, StopRaise, StopJoin, StopReset, StopService
  <2>2. stopAt' = stopAt \/ \E p \in StopAt : StopGo(t, p)
    BY <1>9 DEF Stop, StopPause, StopRaise, StopJoin, StopReset, StopService, AfterWorkers, StopAt
  <2>3. stopAt' \in [Threads -> StopAt]
    BY <1>1, <2>2
  <2> QED
    BY <2>1, <2>3
<1>10. CASE AnyWorker
  BY <1>10 DEF AnyWorker, WorkerNext, WorkerSteps, ScannerLocks, ScannerEnds, ScannerSkips
<1>11. CASE (\E t \in Threads : Breaks(t)) \/ UNCHANGED vars
  <2>1. UNCHANGED <<pc, stopAt>> /\ manager' = manager
    BY <1>11 DEF Breaks, vars, loopVars
  <2> QED
    BY <2>1
<1> QED
  BY <1>2, <1>3, <1>4, <1>5, <1>6, <1>7, <1>8, <1>9, <1>10, <1>11, Steps DEF HunterSteps, OwnStep


(* What a step may do to what NoManager and Remains speak of.  Only Main    *)
(* makes a manager, and stopAll's end destroys it.                          *)
LEMMA ManagerKept ==
    ASSUME [LoopNext]_loopVars
    PROVE  (manager = "none" /\ manager' # "none") => StartAll
<1>1. ASSUME NEW w \in Worker, Loop(w)
      PROVE  manager' = manager
  BY <1>1 DEF Loop, Check, LeaveWait, EndRun, Count, LeaveHold, BeginRun, MoveTo
<1> QED
  BY <1>1 DEF LoopNext, RaiseStop, Join, Reset, SetPaused, loopVars

LEMMA StopIsNoStart ==
    ASSUME NEW t, Stop(t), manager = "none"
    PROVE  manager' = "none"
  BY DEF Stop, StopPause, StopRaise, StopJoin, StopReset, StopService, SetPaused, RaiseStop, Join,
         Reset, loopVars

(* Who raises the flag goes on; who finds no manager, or has destroyed it,  *)
(* is past the workers.                                                     *)
LEMMA StopMoves ==
    ASSUME PlaceTypes, NEW t \in Threads, Stop(t)
    PROVE  /\ pc' = pc /\ clean' = clean /\ stopAt[t] # "no"
           /\ \/ /\ stopAt[t] \in WithWorkers /\ stopAt'[t] \in WithWorkers /\ up' = up
              \/ /\ stopAt[t] \in WithWorkers /\ stopAt'[t] = AfterWorkers(t) /\ up' = up
                 /\ manager' = "none"
              \/ /\ stopAt[t] = "ports" /\ stopAt'[t] = "dpi" /\ up' = up \ {"ports"}
                 /\ manager' = manager
              \/ /\ stopAt[t] = "dpi" /\ stopAt'[t] = "balancers" /\ up' = up \ {"dpi"}
                 /\ manager' = manager
              \/ /\ stopAt[t] = "balancers" /\ stopAt'[t] = "no" /\ up' = up \ {"balancers"}
                 /\ manager' = manager
           /\ \A s \in Threads : s # t => stopAt'[s] = stopAt[s]
<1> USE DEF PlaceTypes, StopGo, WithWorkers, ghosts, loopVars
<1>1. CASE StopPause(t)
  BY <1>1 DEF StopPause
<1>2. CASE StopRaise(t)
  BY <1>2 DEF StopRaise
<1>3. CASE StopJoin(t)
  BY <1>3 DEF StopJoin
<1>4. CASE StopReset(t)
  BY <1>4 DEF StopReset, Reset
<1>5. CASE StopService(t)
  BY <1>5 DEF StopService
<1> QED
  BY <1>1, <1>2, <1>3, <1>4, <1>5 DEF Stop

LEMMA NoManagerStep ==
    ASSUME PlaceTypes, NoManager, [Next]_vars
    PROVE  NoManager'
<1> USE Apart DEF PlaceTypes, NoManager
<1>0. ASSUME NEW p, Go(Main, p)
      PROVE  pc'[Main] = p
  BY <1>0, Gone
<1>1. CASE StartSteps
  <2>1. CASE StartWorkers
    BY <2>1, <1>0 DEF StartWorkers
  <2>2. CASE LoopEnd
    <3>1. pc'[Main] = "tail" /\ stopAt'[Main] = "raise"
      BY <2>2, <1>0, StopGone DEF LoopEnd
    <3> QED
      BY <3>1
  <2>3. CASE StartFetch \/ StartEnter \/ StartServices \/ ThreadEnds
    <3>1. manager' = manager /\ stopAt' = stopAt /\ pc'[Main] # "tail"
      BY <2>3, <1>0 DEF StartFetch, StartEnter, StartServices, ThreadEnds, loopVars
    <3>2. pc[Main] \notin {"loop"} \cup Long /\ (pc[Main] = "tail" => stopAt[Main] = "no")
      BY <2>3 DEF StartFetch, StartEnter, StartServices, ThreadEnds, Free, Long
    <3> QED
      BY <3>1, <3>2
  <2> QED
    BY <1>1, <2>1, <2>2, <2>3 DEF StartSteps
<1>2. CASE StopFile
  BY <1>2 DEF StopFile, Free
<1>3. CASE CommandFile
  <2>1. PICK c \in Command : Dispatch(Main, c)
    BY <1>3 DEF CommandFile
  <2>2. pc'[Main] \in Long \cup {"loop"}
    BY <1>0, <2>1, DispatchPlace DEF Home
  <2> QED
    BY <2>2 DEF Long
<1>4. ASSUME pc'[Main] = pc[Main], stopAt'[Main] = stopAt[Main], ~StartAll \/ manager' = manager
      PROVE  NoManager'
  BY <1>4, StepLoops, ManagerKept
<1>5. CASE TakeCommand
  <2>1. stopAt' = stopAt /\ (manager = "none" => manager' = "none")
    BY <1>5 DEF TakeCommand, Dispatch, Short, SetPaused, loopVars
  <2>2. \E p : Go(Cmd, p)
    BY <1>5 DEF TakeCommand, Dispatch, Short
  <2>3. pc'[Main] = pc[Main]
    BY <2>2, Gone
  <2> QED
    BY <2>1, <2>3
<1>6. CASE HunterSteps
  <2>1. pc'[Main] = pc[Main] /\ stopAt'[Main] = stopAt[Main] /\ manager' = manager
    BY <1>6, Gone, StopGone
    DEF HunterSteps, StopHunterTakes, StopHunterReturns, StopBegin, loopVars, Threads
  <2> QED
    BY <2>1
<1>7. CASE WindowSteps
  <2>1. stopAt' = stopAt /\ manager' = manager
    BY <1>7 DEF WindowSteps, CmdLeaves, CmdJoined, User, StartHunter, RequestStopHunter, Close,
                RunCommandAsync, loopVars
  <2>2. pc'[Main] = pc[Main] \/ (pc[Main] = "off" /\ pc'[Main] = "begin")
    BY <1>7, Gone DEF WindowSteps, CmdLeaves, CmdJoined, User, StartHunter, RequestStopHunter, Close,
                RunCommandAsync
  <2> QED
    BY <2>1, <2>2 DEF Long
<1>8. ASSUME NEW t \in Threads, LongStep(t)
      PROVE  NoManager'
  <2>1. stopAt' = stopAt /\ manager' = manager
    BY <1>8 DEF LongStep, loopVars
  <2>2. \E p : Go(t, p)
    BY <1>8 DEF LongStep
  <2>3. t = Main => pc[Main] \in Long
    BY <1>8 DEF LongStep, Long
  <2>4. t = Main => pc'[Main] \in Long \cup {"loop"}
    BY <1>0, <1>8 DEF LongStep, Long, Home
  <2> QED
    BY <2>1, <2>2, <2>3, <2>4, Gone DEF Long
<1>9. ASSUME NEW t \in Threads, Stop(t)
      PROVE  NoManager'
  <2>1. manager = "none" => manager' = "none"
    BY <1>9, StopIsNoStart
  <2>2. pc' = pc /\ (stopAt'[Main] # "no" => stopAt[Main] # "no")
    BY <1>9, StopMoves
  <2>3. CASE t # Main
    BY <1>9, <2>1, <2>2, <2>3, StopMoves
  <2>4. CASE t = Main /\ pc[Main] = "tail"
    <3>1. stopAt'[Main] \in {"no", "raise", "join", "reset"}
      BY <1>9, <2>4 DEF Stop, StopPause, StopRaise, StopJoin, StopReset, StopService,
                        AfterWorkers, StopGo
    <3>2. stopAt'[Main] = "no" => manager' = "none"
      BY <1>9, <2>4, <3>1, StopMoves DEF WithWorkers
    <3> QED
      BY <2>1, <2>2, <3>1, <3>2
  <2>5. CASE pc[Main] # "tail"
    BY <2>1, <2>2, <2>5
  <2> QED
    BY <2>3, <2>4, <2>5
<1>10. CASE AnyWorker
  <2>1. UNCHANGED <<pc, stopAt>> /\ manager' = manager
    BY <1>10 DEF AnyWorker, WorkerNext, WorkerSteps, ScannerLocks, ScannerEnds, ScannerSkips,
        Loop, Check, LeaveWait, EndRun, Count, LeaveHold, BeginRun, MoveTo, loopVars
  <2> QED
    BY <2>1
<1>11. CASE (\E t \in Threads : Breaks(t)) \/ UNCHANGED vars
  <2>1. UNCHANGED <<pc, stopAt>> /\ manager' = manager
    BY <1>11 DEF Breaks, vars, loopVars
  <2> QED
    BY <2>1
<1> QED
  BY <1>1, <1>2, <1>3, <1>5, <1>6, <1>7, <1>8, <1>9, <1>10, <1>11, Steps DEF OwnStep


(* Who stops the program keeps his place, and another's step does not       *)
(* change it.                                                               *)
LEMMA WholeKept ==
    ASSUME NEW t \in Threads, NEW places, Whole(t, places), pc'[t] # "tail",
           stopAt'[t] = stopAt[t]
    PROVE  Whole(t, places)'
  BY DEF Whole

(* What is up, and the manager, shrink; nobody in a stop moves.             *)
LEMMA RemainsKept ==
    ASSUME Remains, clean' => clean, manager' # "none" => manager # "none", up' \subseteq up,
           stopAt' = stopAt,
           \A t \in Threads : stopAt[t] # "no" => pc'[t] = pc[t],
           clean => pc'[Main] \in {"loop", "tail", "off"} \cup Long
    PROVE  Remains'
<1>1. ASSUME NEW t \in Threads, NEW places, "no" \notin places, Whole(t, places)
      PROVE  Whole(t, places)'
  BY <1>1, WholeKept DEF Whole
<1>2. /\ "no" \notin WithWorkers /\ "no" \notin WithWorkers \cup {"ports"}
      /\ "no" \notin WithWorkers \cup {"ports", "dpi"} /\ "no" \notin StopAt \ {"no"}
  BY DEF WithWorkers
<1> QED
  BY <1>1, <1>2 DEF Remains, WithWorkers, StopAt

(* A stop begins: if it counts, all is still before it.                     *)
LEMMA RemainsBegins ==
    ASSUME PlaceTypes, NEW t \in Threads, StopBegin(t), OwnTypes', pc'[t] = "tail" => pc[Main] # "loop",
           pc'[Main] = pc[Main]
    PROVE  Remains'
<1>1. stopAt'[t] = "pause" /\ clean' = (pc[Main] = "loop")
  BY StopGone DEF StopBegin, Stoppable
<1>2. clean' => /\ Whole(t, WithWorkers)' /\ Whole(t, WithWorkers \cup {"ports"})'
                /\ Whole(t, WithWorkers \cup {"ports", "dpi"})' /\ Whole(t, StopAt \ {"no"})'
  BY <1>1 DEF Whole, WithWorkers, StopAt
<1>3. clean' => pc'[Main] \in {"loop", "tail", "off"} \cup Long
  BY <1>1
<1> QED
  BY <1>2, <1>3 DEF Remains

(* A step of a stop: what its thread goes past is down.                     *)
LEMMA RemainsGoesOn ==
    ASSUME PlaceTypes, Remains, NoManager, NEW t \in Threads, Stop(t)
    PROVE  Remains'
<1>1. SUFFICES ASSUME clean'
               PROVE  Remains'
  BY DEF Remains
<1>2. /\ pc' = pc /\ clean
      /\ manager' # "none" => manager # "none" /\ up' \subseteq up
      /\ up' \subseteq up
  BY <1>1, StopMoves, StopIsNoStart
<1>3. pc'[Main] \in {"loop", "tail", "off"} \cup Long
  BY <1>2 DEF Remains
<1>4. ASSUME NEW s \in Threads, NEW places, s # t, Whole(s, places)
      PROVE  Whole(s, places)'
  BY <1>2, <1>4, StopMoves DEF Whole
<1>5. ASSUME pc[t] = "tail", NEW places, NEW s \in Threads, Whole(s, places)
      PROVE  \E v \in Threads : Whole(v, places)'
  BY <1>4, <1>5 DEF Whole
<1>6. CASE pc[t] = "tail"
  BY <1>1, <1>2, <1>3, <1>5, <1>6 DEF Remains
<1>7. CASE pc[t] # "tail"
  <2>1. AfterWorkers(t) = "ports"
    BY <1>7 DEF AfterWorkers
  <2>2. manager' # "none" => \E s \in Threads : Whole(s, WithWorkers)'
    <3>1. ASSUME manager' # "none", Whole(t, WithWorkers)
          PROVE  Whole(t, WithWorkers)'
      BY <1>2, <1>7, <3>1, StopMoves DEF Whole, WithWorkers
    <3> QED
      BY <1>2, <1>4, <3>1 DEF Remains
  <2>3. "ports" \in up' => \E s \in Threads : Whole(s, WithWorkers \cup {"ports"})'
    <3>1. ASSUME "ports" \in up', Whole(t, WithWorkers \cup {"ports"})
          PROVE  Whole(t, WithWorkers \cup {"ports"})'
      BY <1>2, <1>7, <2>1, <3>1, StopMoves DEF Whole, WithWorkers
    <3> QED
      BY <1>2, <1>4, <3>1 DEF Remains
  <2>4. "dpi" \in up' => \E s \in Threads : Whole(s, WithWorkers \cup {"ports", "dpi"})'
    <3>1. ASSUME "dpi" \in up', Whole(t, WithWorkers \cup {"ports", "dpi"})
          PROVE  Whole(t, WithWorkers \cup {"ports", "dpi"})'
      BY <1>2, <1>7, <2>1, <3>1, StopMoves DEF Whole, WithWorkers
    <3> QED
      BY <1>2, <1>4, <3>1 DEF Remains
  <2>5. "balancers" \in up' => \E s \in Threads : Whole(s, StopAt \ {"no"})'
    <3>1. ASSUME "balancers" \in up', Whole(t, StopAt \ {"no"})
          PROVE  Whole(t, StopAt \ {"no"})'
      BY <1>2, <1>7, <2>1, <3>1, StopMoves DEF Whole, WithWorkers, StopAt
    <3> QED
      BY <1>2, <1>4, <3>1 DEF Remains
  <2> QED
    BY <1>3, <2>2, <2>3, <2>4, <2>5 DEF Remains
<1> QED
  BY <1>6, <1>7

LEMMA RemainsStep ==
    ASSUME LoopInv, OwnTypes, PlaceTypes, NoManager, Remains, OwnTypes', [Next]_vars
    PROVE  Remains'
<1> USE Apart DEF PlaceTypes
<1>1. CASE StartSteps
  <2>1. CASE LoopEnd
    <3>1. pc'[Main] = "tail" /\ stopAt[Main] = "no" /\ stopAt'[Main] = "raise"
          /\ \A s \in Threads : s # Main => pc'[s] = pc[s] /\ stopAt'[s] = stopAt[s]
      BY <2>1, Gone, StopGone DEF LoopEnd, Free
    <3>2. UNCHANGED <<clean, manager, up>>
      BY <2>1 DEF LoopEnd, loopVars, ghosts
    <3>3. ASSUME NEW t \in Threads, NEW places, "no" \notin places, Whole(t, places)
          PROVE  Whole(t, places)'
      BY <3>1, <3>3 DEF Whole
    <3>4. /\ "no" \notin WithWorkers /\ "no" \notin WithWorkers \cup {"ports"}
          /\ "no" \notin WithWorkers \cup {"ports", "dpi"} /\ "no" \notin StopAt \ {"no"}
      BY DEF WithWorkers
    <3> QED
      BY <3>1, <3>2, <3>3, <3>4 DEF Remains, WithWorkers, StopAt
  <2>2. CASE ThreadEnds
    <3>1. pc'[Main] = "off" /\ \A s \in Threads : s # Main => pc'[s] = pc[s]
      BY <2>2, Gone DEF ThreadEnds
    <3>2. UNCHANGED <<clean, manager, up, stopAt>> /\ stopAt[Main] = "no"
      BY <2>2 DEF ThreadEnds, Free, loopVars, ghosts
    <3> QED
      BY <3>1, <3>2, RemainsKept
  <2>3. CASE StartFetch \/ StartEnter \/ StartServices \/ StartWorkers
    <3>1. pc[Main] \notin {"loop", "tail", "off"} \cup Long /\ clean' = clean
      BY <2>3 DEF StartFetch, StartEnter, StartServices, StartWorkers, Free, Long, ghosts
    <3> QED
      BY <3>1 DEF Remains
  <2> QED
    BY <1>1, <2>1, <2>2, <2>3 DEF StartSteps
<1>2. CASE StopFile
  <2>1. StopBegin(Main) /\ pc' = pc /\ pc[Main] = "loop"
    BY <1>2 DEF StopFile, Free
  <2> QED
    BY <2>1, RemainsBegins
<1>3. ASSUME NEW t \in {Main, Cmd}, NEW c \in Command, Dispatch(t, c), stopAt[t] = "no",
             pc[t] = Home(t), UNCHANGED <<stopAt, up, clean>>
      PROVE  Remains'
  <2>1. t \in Threads
    BY DEF Threads
  <2>2. PICK p \in Long \cup {Home(t)} : Go(t, p)
    BY <1>3, <2>1, DispatchPlace
  <2>3. pc'[t] = p /\ \A s \in Threads : s # t => pc'[s] = pc[s]
    BY <2>1, <2>2, Gone
  <2>4. manager' = manager
    BY <1>3 DEF Dispatch, Short, SetPaused, loopVars
  <2>5. clean => pc'[Main] \in {"loop", "tail", "off"} \cup Long
    BY <2>2, <2>3 DEF Remains, Home
  <2> QED
    BY <1>3, <2>3, <2>4, <2>5, RemainsKept
<1>4. CASE CommandFile
  BY <1>3, <1>4 DEF CommandFile, Free, Home, ghosts
<1>5. CASE TakeCommand
  <2>1. CASE Head(queue) = "StopHunter" /\ Go(Cmd, "take") /\ UNCHANGED loopVars
    <3>1. \A s \in Threads : s # Cmd => pc'[s] = pc[s]
      BY <2>1, Gone
    <3>2. stopAt[Cmd] = "no" /\ UNCHANGED <<stopAt, up, clean, manager>>
      BY <1>5, <2>1 DEF TakeCommand, Free, loopVars, ghosts
    <3>3. clean => pc'[Main] \in {"loop", "tail", "off"} \cup Long
      BY <3>1 DEF Remains
    <3> QED
      BY <3>1, <3>2, <3>3, RemainsKept
  <2>2. CASE Head(queue) # "StopHunter" /\ Dispatch(Cmd, Head(queue))
    <3>1. Head(queue) \in Command
      BY <1>5, <2>2, HeadTailProperties DEF TakeCommand, OwnTypes
    <3> QED
      BY <1>3, <1>5, <2>2, <3>1 DEF TakeCommand, Free, Home, ghosts
  <2> QED
    BY <1>5, <2>1, <2>2 DEF TakeCommand
<1>6. ASSUME NEW t \in {Cmd, Ui}, StopHunterTakes(t)
      PROVE  Remains'
  <2>1. t \in Threads /\ t # Main
    BY DEF Threads
  <2>2. StopBegin(t) /\ Go(t, "joining")
    BY <1>6 DEF StopHunterTakes
  <2>3. pc'[t] = "joining" /\ pc'[Main] = pc[Main]
    BY <2>1, <2>2, Gone
  <2> QED
    BY <2>1, <2>2, <2>3, RemainsBegins
<1>7. ASSUME NEW t \in {Cmd, Ui}, StopHunterReturns(t)
      PROVE  Remains'
  <2>1. t \in Threads /\ t # Main /\ \E p : Go(t, p)
    BY <1>7 DEF Threads, StopHunterReturns
  <2>2. \A s \in Threads : s # t => pc'[s] = pc[s]
    BY <2>1, Gone
  <2>3. stopAt[t] = "no" /\ UNCHANGED <<stopAt, up, clean, manager>>
    BY <1>7 DEF StopHunterReturns, Free, loopVars, ghosts
  <2>4. clean => pc'[Main] \in {"loop", "tail", "off"} \cup Long
    BY <2>1, <2>2 DEF Remains
  <2> QED
    BY <2>2, <2>3, <2>4, RemainsKept
<1>8. CASE WindowSteps
  <2>1. CASE StartHunter
    BY <2>1 DEF StartHunter, Remains
  <2>2. CASE CmdLeaves \/ CmdJoined \/ Close
    <3>1. PICK t \in {Cmd, Ui} : (\E p : Go(t, p)) /\ stopAt[t] = "no"
      BY <2>2 DEF CmdLeaves, CmdJoined, Close, Free
    <3>2. t \in Threads /\ t # Main
      BY DEF Threads
    <3>3. \A s \in Threads : s # t => pc'[s] = pc[s]
      BY <3>1, <3>2, Gone
    <3>4. UNCHANGED <<stopAt, up, clean, manager>>
      BY <2>2 DEF CmdLeaves, CmdJoined, Close, loopVars, ghosts
    <3>5. clean => pc'[Main] \in {"loop", "tail", "off"} \cup Long
      BY <3>2, <3>3 DEF Remains
    <3> QED
      BY <3>1, <3>3, <3>4, <3>5, RemainsKept
  <2>3. CASE RequestStopHunter \/ \E c \in Posted : RunCommandAsync(c)
    <3>1. UNCHANGED <<pc, stopAt, up, clean, manager>>
      BY <2>3 DEF RequestStopHunter, RunCommandAsync, loopVars, ghosts
    <3> QED
      BY <3>1, RemainsKept DEF Remains
  <2> QED
    BY <1>8, <2>1, <2>2, <2>3 DEF WindowSteps, User
<1>9. ASSUME NEW t \in Threads, LongStep(t)
      PROVE  Remains'
  <2>1. stopAt[t] = "no" /\ stopAt' = stopAt /\ manager' = manager
    BY <1>9 DEF LongStep, loopVars
  <2>2. PICK p \in Long \cup {Home(t)} : Go(t, p)
    BY <1>9 DEF LongStep, Long
  <2>3. pc'[t] = p /\ \A s \in Threads : s # t => pc'[s] = pc[s]
    BY <2>2, Gone
  <2>4. clean' = FALSE \/ (clean' = clean /\ up' \subseteq up)
    BY <1>9 DEF LongStep
  <2>5. clean => pc'[Main] \in {"loop", "tail", "off"} \cup Long
    BY <2>2, <2>3 DEF Remains, Home
  <2>6. CASE clean' = FALSE
    BY <2>6 DEF Remains
  <2>7. CASE clean' = clean /\ up' \subseteq up
    BY <2>1, <2>3, <2>5, <2>7, RemainsKept
  <2> QED
    BY <2>4, <2>6, <2>7
<1>10. CASE AnyWorker
  <2>1. UNCHANGED <<pc, stopAt, clean>> /\ manager' = manager
    BY <1>10 DEF AnyWorker, WorkerNext, WorkerSteps, ScannerLocks, ScannerEnds, ScannerSkips,
        Loop, Check, LeaveWait, EndRun, Count, LeaveHold, BeginRun, MoveTo, loopVars, ghosts
  <2>2. CASE ~ScannerEnds
    <3>1. up' = up
      BY <1>10, <2>2 DEF AnyWorker, WorkerNext, WorkerSteps, ScannerLocks, ScannerSkips
    <3> QED
      BY <2>1, <3>1, RemainsKept DEF Remains
  <2>3. CASE ScannerEnds
    <3>1. up' = up \cup {"ports"} /\ at[Scanner] = "run"
      BY <2>3 DEF ScannerEnds
    <3>2. manager # "none"
      BY <3>1 DEF LoopInv, NoWorkerOutlives
    <3>3. clean => \E t \in Threads : Whole(t, WithWorkers)
      BY <3>2 DEF Remains
    <3>4. \A t \in Threads : \A places : Whole(t, places)' <=> Whole(t, places)
      BY <2>1 DEF Whole
    <3> QED
      BY <2>1, <3>1, <3>3, <3>4 DEF Remains, Whole
  <2> QED
    BY <2>2, <2>3
<1>11. CASE (\E t \in Threads : Breaks(t)) \/ UNCHANGED vars
  <2>1. UNCHANGED <<pc, stopAt, clean, up, manager>>
    BY <1>11 DEF Breaks, vars, loopVars, ghosts
  <2> QED
    BY <2>1, RemainsKept DEF Remains
<1> QED
  BY <1>1, <1>2, <1>4, <1>5, <1>6, <1>7, <1>8, <1>9, <1>10, <1>11, Steps, RemainsGoesOn
  DEF OwnStep, HunterSteps

LEMMA InvInit == Init => Inv
<1> SUFFICES ASSUME Init PROVE Inv
  OBVIOUS
<1> USE Apart DEF Init
<1>1. LoopInv
  BY InitLoop
<1>2. PlaceTypes
  BY DEF PlaceTypes, Threads, MainAt, CmdAt, UiAt, StopAt
<1>3. OwnTypes
  <2>1. queue \in Seq(Posted \cup {"StopHunter"})
    OBVIOUS
  <2>2. {stopRequested, running, stopping, closing, deaf, clean} \subseteq BOOLEAN
    <3>1. FALSE \in BOOLEAN
      OBVIOUS
    <3> QED
      BY <3>1
  <2>3. sessions \in 0 .. MaxSessions /\ requests \in 0 .. MaxRequests
    OBVIOUS
  <2>4. owner \in {NoOne, Cmd, Ui} /\ cycle \in {NoOne, Main, Cmd, Scanner} /\ up \subseteq Service
    OBVIOUS
  <2> QED
    BY <2>1, <2>2, <2>3, <2>4 DEF OwnTypes
<1>4. NoManager
  BY <1>2 DEF NoManager, LoopInit, Threads
<1>5. Remains
  BY DEF Remains
<1> QED
  BY <1>1, <1>2, <1>3, <1>4, <1>5 DEF Inv

(* The program is intact or it is not.                                      *)
LEMMA BrokenStep ==
    ASSUME broken \in BOOLEAN, [Next]_vars
    PROVE  broken' \in BOOLEAN
  BY DEF Next, MainNext, MainSteps, CmdNext, Closes, User, WorkerNext, Intact, Breaks, vars

(* The inductive invariant: who has a manager, and what is up since a stop. *)
THEOREM ProgramInvariant == Spec => []Inv
<1>1. Init => Inv
  BY InvInit
<1>2. LoopInv /\ [LoopNext]_loopVars => LoopInv'
  BY LoopStep
<1>3. Inv /\ [Next]_vars => Inv'
  BY <1>2, StepLoops, OwnTypesStep, PlaceTypesStep, NoManagerStep, RemainsStep, BrokenStep
  DEF Inv
<1> QED
  BY <1>1, <1>3, PTL DEF Spec

(* A session that has ended has left no manager and no worker, and after a  *)
(* StopHunter that met it in its loop no service is up: whatever commands,  *)
(* workers and second stops were under way, for any number of each.         *)
THEOREM StopLeavesNothing == Spec => []StopIsClean
<1>1. Inv => TypeOK
  BY DEF Inv, LoopInv, OwnTypes, PlaceTypes, TypeOK, Threads
<1>2. Inv /\ pc[Main] = "off" => manager = "none" /\ \A w \in Worker : at[w] = "none"
  BY DEF Inv, NoManager, Long, LoopInv, NoWorkerOutlives
<1>3. Inv /\ clean /\ stopAt = [t \in {Main, Cmd, Ui} |-> "no"] => up = {}
  <2>1. SUFFICES ASSUME Inv, clean, stopAt = [t \in {Main, Cmd, Ui} |-> "no"]
                 PROVE  up = {}
    OBVIOUS
  <2>2. \A t \in Threads : stopAt[t] = "no"
    BY <2>1 DEF Threads
  <2>3. "ports" \notin up /\ "dpi" \notin up /\ "balancers" \notin up
    BY <2>1, <2>2 DEF Inv, Remains, Whole, WithWorkers
  <2> QED
    BY <2>1, <2>3 DEF Inv, OwnTypes, Service
<1>4. Inv => StopIsClean
  BY <1>1, <1>2, <1>3 DEF StopIsClean
<1> QED
  BY <1>4, ProgramInvariant, PTL


=============================================================================
