------------------------ MODULE WindowNetworkProofs ------------------------
(***************************************************************************)
(* Proofs about the two modules that put independent parts side by side,   *)
(* Window and Network: for any sources, settings, machines, sizes of the   *)
(* log's ring and batches, numbers of failures a circuit takes, editions   *)
(* of a file and changes of the network.                                   *)
(*                                                                         *)
(* Each part is proved apart: a step of another one leaves its variables   *)
(* alone.  The parts of Window come first, those of Network after them.    *)
(***************************************************************************)
EXTENDS Window, Network, FiniteSetTheorems, SequenceTheorems, TLAPS

-----------------------------------------------------------------------------
(* The tasks of the window.                                                *)

(* The tasks the destructor has waited for when it is at a stage.          *)
WaitedFor(k) ==
    IF k = "probe" THEN {"discovery", "bypass", "closed", "gone"}
    ELSE IF k = "discovery" THEN {"bypass", "closed", "gone"}
    ELSE {"closed", "gone"}

(* A task that was waited for touches the window no more: no other begins  *)
(* once the window closes.                                                 *)
TaskInv ==
    /\ TaskTypeOK
    /\ TasksOwned
    /\ \A k \in Task : window \in WaitedFor(k) => thread[k] \notin Working

LEMMA CloseIs ==
    ASSUME Close
    PROVE  /\ \/ window = "open" /\ window' = "probe"
              \/ window = "probe" /\ window' = "discovery" /\ thread["probe"] \notin Working
              \/ window = "discovery" /\ window' = "bypass" /\ thread["discovery"] \notin Working
              \/ window = "bypass" /\ window' = "closed" /\ thread["bypass"] \notin Working
              \/ window = "closed" /\ window' = "gone"
           /\ UNCHANGED <<inFlight, entry, thread, loose, caller, result, hasResult, apply,
                          inputs, elevated, handoff, other, tasks>>
<1>1. PICK i \in 1 .. 5 :
          /\ window = Destruction[i] /\ window' = Destruction[i + 1]
          /\ window \in Task => thread[window] \notin Working
          /\ UNCHANGED <<inFlight, entry, thread, loose, caller, discovery,
                         elevated, handoff, other, tasks>>
  BY DEF Close
<1>2. i = 1 \/ i = 2 \/ i = 3 \/ i = 4 \/ i = 5
  OBVIOUS
<1> QED  BY <1>1, <1>2 DEF Destruction, Task, discovery

LEMMA Stages == {Destruction[i] : i \in 1 .. 6} =
                    {"open", "probe", "discovery", "bypass", "closed", "gone"}
<1>1. \A i \in 1 .. 6 : i = 1 \/ i = 2 \/ i = 3 \/ i = 4 \/ i = 5 \/ i = 6
  OBVIOUS
<1>2. \A i \in 1 .. 6 : Destruction[i] \in {"open", "probe", "discovery", "bypass", "closed", "gone"}
  BY <1>1 DEF Destruction
<1>3. /\ Destruction[1] = "open" /\ Destruction[2] = "probe" /\ Destruction[3] = "discovery"
      /\ Destruction[4] = "bypass" /\ Destruction[5] = "closed" /\ Destruction[6] = "gone"
  BY DEF Destruction
<1> QED  BY <1>2, <1>3

LEMMA TasksInit == TaskInit => TaskInv
<1> SUFFICES ASSUME TaskInit PROVE TaskInv
  OBVIOUS
<1>1. /\ elevated \in BOOLEAN /\ result = 0 /\ hasResult = FALSE /\ apply = FALSE /\ inputs = 0
      /\ caller = NoCaller /\ handoff = 0 /\ other = "none" /\ window = "open" /\ tasks = 0
  BY DEF TaskInit
<1>2. \A k \in Task : inFlight[k] = FALSE /\ entry[k] = FALSE /\ thread[k] = "over" /\ loose[k] = "over"
  BY DEF TaskInit
<1>3. /\ inFlight \in [Task -> BOOLEAN] /\ entry \in [Task -> BOOLEAN]
      /\ thread \in [Task -> Working \cup {"over"}] /\ loose \in [Task -> Working \cup {"over"}]
  BY DEF TaskInit
<1>4. "over" \notin Working
  BY DEF Working
<1>5. {result, inputs, handoff, tasks} \subseteq 0 .. MaxTasks
  BY <1>1, TasksAssumption
<1>6. window \in {Destruction[i] : i \in 1 .. 6} /\ other \in {"none", "starting", "ended", "resumed"}
  BY <1>1, Stages
<1>7. TaskTypeOK
  BY <1>1, <1>3, <1>5, <1>6 DEF TaskTypeOK
<1>8. TasksOwned
  BY <1>2, <1>4 DEF TasksOwned
<1> QED  BY <1>2, <1>4, <1>7, <1>8 DEF TaskInv

LEMMA WorkIs ==
    /\ "probe" \in Task /\ "discovery" \in Task /\ "bypass" \in Task
    /\ \A k \in Task : k = "probe" \/ k = "discovery" \/ k = "bypass"
    /\ \A k \in Task : k \in Caller \cup {NoCaller} /\ "open" \notin WaitedFor(k)
    /\ "command" \in Caller /\ "snapshot" \in Caller /\ NoCaller \in Caller \cup {NoCaller}
    /\ "over" \notin Working
    /\ "begin" \in Working /\ "call" \in Working /\ "store" \in Working
    /\ "publish" \in Working /\ "close entry" \in Working /\ "lower flag" \in Working
BY DEF Task, Working, Caller, NoCaller, WaitedFor

(* A task is started while the window is open and its last thread is over, *)
(* or was detached with nothing left to do.                                *)
LEMMA Launched ==
    ASSUME TaskInv, NEW k \in Task, window = "open", ~inFlight[k],
           Launch(k), window' = window,
           loose' \in {loose, [loose EXCEPT ![k] = thread[k]]}
    PROVE  /\ inFlight' \in [Task -> BOOLEAN] /\ entry' \in [Task -> BOOLEAN]
           /\ thread' \in [Task -> Working \cup {"over"}]
           /\ loose' \in [Task -> Working \cup {"over"}]
           /\ TasksOwned'
           /\ \A j \in Task : window' \in WaitedFor(j) => thread'[j] \notin Working
<1>1. inFlight' \in [Task -> BOOLEAN] /\ entry' \in [Task -> BOOLEAN]
  BY DEF Launch, TaskInv, TaskTypeOK
<1>2. thread' \in [Task -> Working \cup {"over"}]
  BY WorkIs DEF Launch, TaskInv, TaskTypeOK
<1>3. thread[k] \notin Working /\ thread[k] \in Working \cup {"over"}
  BY DEF TaskInv, TaskTypeOK, TasksOwned
<1>4. loose' \in [Task -> Working \cup {"over"}] /\ \A j \in Task : loose'[j] \notin Working
  BY <1>3 DEF TaskInv, TaskTypeOK, TasksOwned
<1>5. \A j \in Task : /\ inFlight'[j] = IF j = k THEN TRUE ELSE inFlight[j]
                      /\ entry'[j] = IF j = k THEN TRUE ELSE entry[j]
                      /\ thread'[j] = IF j = k THEN "begin" ELSE thread[j]
  BY DEF Launch, TaskInv, TaskTypeOK
<1>6. "begin" \in Working \ {"lower flag"}
  BY WorkIs
<1>7. \A j \in Task : window' \notin WaitedFor(j)
  BY WorkIs
<1>8. window' \notin {"closed", "gone"}
  OBVIOUS
<1>9. TasksOwned'
  BY <1>4, <1>5, <1>6, <1>8, WorkIs DEF TasksOwned, TaskInv
<1> QED  BY <1>1, <1>2, <1>4, <1>7, <1>9

(* A thread goes on from where it uses the window.                         *)
LEMMA GoesOn ==
    ASSUME TaskInv, NEW k \in Task, NEW from \in Working \ {"lower flag"},
           NEW to \in Working \ {"lower flag"}, Go(k, from, to),
           UNCHANGED <<inFlight, entry, loose, window>>
    PROVE  /\ thread' \in [Task -> Working \cup {"over"}]
           /\ TasksOwned'
           /\ \A j \in Task : window' \in WaitedFor(j) => thread'[j] \notin Working
<1>1. thread' \in [Task -> Working \cup {"over"}]
  BY DEF Go, TaskInv, TaskTypeOK
<1>2. \A j \in Task : thread'[j] = IF j = k THEN to ELSE thread[j]
  BY DEF Go, TaskInv, TaskTypeOK
<1>3. thread[k] = from
  BY DEF Go
<1>4. TasksOwned'
  BY <1>2, <1>3 DEF TasksOwned, TaskInv
<1>5. \A j \in Task : window' \in WaitedFor(j) => thread'[j] \notin Working
  BY <1>2, <1>3 DEF TaskInv
<1> QED  BY <1>1, <1>4, <1>5

(* A step that moves no thread keeps what is said of them.                 *)
LEMMA ThreadsRest ==
    ASSUME TaskInv, UNCHANGED <<inFlight, entry, thread, loose, window>>
    PROVE  /\ TasksOwned'
           /\ \A j \in Task : window' \in WaitedFor(j) => thread'[j] \notin Working
BY DEF TasksOwned, TaskInv

LEMMA TasksStep == TaskInv /\ [TaskNext]_taskVars => TaskInv'
<1> SUFFICES ASSUME TaskInv, [TaskNext]_taskVars PROVE TaskInv'
  OBVIOUS
<1> USE DEF discovery, elsewhere
<1>1. CASE RunProbeAsync
<2>1. tasks + 1 \in 0 .. MaxTasks
  BY <1>1, TasksAssumption DEF RunProbeAsync, Chosen, TaskInv, TaskTypeOK
<2>2. /\ window = "open" /\ ~inFlight["probe"] /\ Launch("probe") /\ window' = window
      /\ loose' \in {loose, [loose EXCEPT !["probe"] = thread["probe"]]}
  BY <1>1 DEF RunProbeAsync, Chosen
<2>3. /\ inFlight' \in [Task -> BOOLEAN] /\ entry' \in [Task -> BOOLEAN]
      /\ thread' \in [Task -> Working \cup {"over"}]
      /\ loose' \in [Task -> Working \cup {"over"}]
      /\ TasksOwned'
      /\ \A j \in Task : window' \in WaitedFor(j) => thread'[j] \notin Working
  BY <2>2, Launched, WorkIs
<2>4. TaskTypeOK'
  BY <1>1, <2>1, <2>3 DEF RunProbeAsync, Chosen, TaskInv, TaskTypeOK
<2> QED  BY <2>3, <2>4 DEF TaskInv
<1>2. CASE RunDiscoveryAsync
<2>1. tasks + 1 \in 0 .. MaxTasks
  BY <1>2, TasksAssumption DEF RunDiscoveryAsync, Chosen, TaskInv, TaskTypeOK
<2>2. /\ window = "open" /\ ~inFlight["discovery"] /\ Launch("discovery") /\ window' = window
      /\ loose' \in {loose, [loose EXCEPT !["discovery"] = thread["discovery"]]}
  BY <1>2 DEF RunDiscoveryAsync, Chosen
<2>3. /\ inFlight' \in [Task -> BOOLEAN] /\ entry' \in [Task -> BOOLEAN]
      /\ thread' \in [Task -> Working \cup {"over"}]
      /\ loose' \in [Task -> Working \cup {"over"}]
      /\ TasksOwned'
      /\ \A j \in Task : window' \in WaitedFor(j) => thread'[j] \notin Working
  BY <2>2, Launched, WorkIs
<2>4. TaskTypeOK'
  BY <1>2, <2>1, <2>3 DEF RunDiscoveryAsync, Chosen, TaskInv, TaskTypeOK
<2> QED  BY <2>3, <2>4 DEF TaskInv
<1>3. CASE RunEdgeBypassAsync
<2>1. tasks + 1 \in 0 .. MaxTasks
  BY <1>3, TasksAssumption DEF RunEdgeBypassAsync, Chosen, TaskInv, TaskTypeOK
<2>2. /\ window = "open" /\ ~inFlight["bypass"] /\ Launch("bypass") /\ window' = window
      /\ loose' \in {loose, [loose EXCEPT !["bypass"] = thread["bypass"]]}
  BY <1>3 DEF RunEdgeBypassAsync, Chosen
<2>3. /\ inFlight' \in [Task -> BOOLEAN] /\ entry' \in [Task -> BOOLEAN]
      /\ thread' \in [Task -> Working \cup {"over"}]
      /\ loose' \in [Task -> Working \cup {"over"}]
      /\ TasksOwned'
      /\ \A j \in Task : window' \in WaitedFor(j) => thread'[j] \notin Working
  BY <2>2, Launched, WorkIs
<2>4. TaskTypeOK'
  BY <1>3, <2>1, <2>3 DEF RunEdgeBypassAsync, Chosen, TaskInv, TaskTypeOK
<2> QED  BY <2>3, <2>4 DEF TaskInv
<1>4. CASE RelaunchElevated
<2>1. tasks + 1 \in 0 .. MaxTasks /\ 0 \in 0 .. MaxTasks
  BY <1>4, TasksAssumption DEF RelaunchElevated, Chosen, TaskInv, TaskTypeOK
<2>2. TaskTypeOK'
  BY <1>4, <2>1 DEF RelaunchElevated, Chosen, TaskInv, TaskTypeOK
<2> QED  BY <1>4, <2>2, ThreadsRest DEF RelaunchElevated, TaskInv
<1>5. CASE ElevatedStart
<2>1. TaskTypeOK'
  BY <1>5, TasksAssumption DEF ElevatedStart, TaskInv, TaskTypeOK
<2> QED  BY <1>5, <2>1, ThreadsRest DEF ElevatedStart, TaskInv
<1>6. ASSUME NEW k \in Task, LockCall(k) PROVE TaskInv'
<2>1. UNCHANGED <<inFlight, entry, loose, window>> /\ Go(k, "begin", "call")
  BY <1>6 DEF LockCall
<2>2. TaskTypeOK'
  BY <1>6, <2>1, GoesOn, WorkIs DEF LockCall, TaskInv, TaskTypeOK
<2> QED  BY <2>1, <2>2, GoesOn, WorkIs DEF TaskInv
<1>7. ASSUME NEW k \in Task, Return(k) PROVE TaskInv'
<2>1. /\ UNCHANGED <<inFlight, entry, loose, window>>
      /\ Go(k, "call", "store") \/ Go(k, "call", "close entry")
  BY <1>7 DEF Return
<2>2. TaskTypeOK'
  BY <1>7, <2>1, GoesOn, WorkIs DEF Return, TaskInv, TaskTypeOK
<2> QED  BY <2>1, <2>2, GoesOn, WorkIs DEF TaskInv
<1>8. ASSUME NEW k \in Task, Store(k) PROVE TaskInv'
<2>1. UNCHANGED <<inFlight, entry, loose, window>> /\ Go(k, "store", "publish")
  BY <1>8 DEF Store
<2>2. TaskTypeOK'
  BY <1>8, <2>1, GoesOn, WorkIs DEF Store, TaskInv, TaskTypeOK
<2> QED  BY <2>1, <2>2, GoesOn, WorkIs DEF TaskInv
<1>9. ASSUME NEW k \in Task, Publish(k) PROVE TaskInv'
<2>1. UNCHANGED <<inFlight, entry, loose, window>> /\ Go(k, "publish", "close entry")
  BY <1>9 DEF Publish
<2>2. TaskTypeOK'
  BY <1>9, <2>1, GoesOn, WorkIs DEF Publish, TaskInv, TaskTypeOK
<2> QED  BY <2>1, <2>2, GoesOn, WorkIs DEF TaskInv
<1>10. ASSUME NEW k \in Task, CompleteProgress(k) PROVE TaskInv'
<2>1. TaskTypeOK'
  BY <1>10, WorkIs DEF CompleteProgress, Go, TaskInv, TaskTypeOK
<2>2. \A j \in Task : /\ entry'[j] = IF j = k THEN FALSE ELSE entry[j]
                      /\ thread'[j] = IF j = k THEN "lower flag" ELSE thread[j]
  BY <1>10 DEF CompleteProgress, Go, TaskInv, TaskTypeOK
<2>3. thread[k] \in Working /\ UNCHANGED <<inFlight, loose, window>>
  BY <1>10, WorkIs DEF CompleteProgress, Go
<2> QED  BY <2>1, <2>2, <2>3 DEF TasksOwned, TaskInv
<1>11. ASSUME NEW k \in Task, LowerFlag(k) PROVE TaskInv'
<2>1. TaskTypeOK'
  BY <1>11, WorkIs DEF LowerFlag, Go, TaskInv, TaskTypeOK
<2>2. \A j \in Task : /\ inFlight'[j] = IF j = k THEN FALSE ELSE inFlight[j]
                      /\ thread'[j] = IF j = k THEN "over" ELSE thread[j]
  BY <1>11 DEF LowerFlag, Go, TaskInv, TaskTypeOK
<2>3. thread[k] = "lower flag" /\ UNCHANGED <<entry, loose, window>>
  BY <1>11 DEF LowerFlag, Go
<2> QED  BY <2>1, <2>2, <2>3, WorkIs DEF TasksOwned, TaskInv
<1>12. ASSUME NEW c \in {"command", "snapshot"}, CallOrchestrator(c) \/ EndCall(c)
       PROVE  TaskInv'
<2>1. TaskTypeOK'
  BY <1>12, WorkIs DEF CallOrchestrator, EndCall, TaskInv, TaskTypeOK
<2> QED  BY <1>12, <2>1, ThreadsRest DEF CallOrchestrator, EndCall, TaskInv
<1>13. CASE Frame
<2>1. TaskTypeOK'
  BY <1>13 DEF Frame, TaskInv, TaskTypeOK
<2> QED  BY <1>13, <2>1, ThreadsRest DEF Frame, TaskInv
<1>14. CASE Close
<2>1. TaskTypeOK'
  BY <1>14, CloseIs, Stages DEF TaskInv, TaskTypeOK
<2>2. UNCHANGED <<inFlight, entry, thread, loose>>
  BY <1>14, CloseIs
<2>3. \A j \in Task : window' \in WaitedFor(j) => thread[j] \notin Working
  BY <1>14, CloseIs, WorkIs DEF TaskInv, WaitedFor
<2>4. \A j \in Task : window' \in {"closed", "gone"} => window' \in WaitedFor(j)
  BY DEF WaitedFor
<2> QED  BY <2>1, <2>2, <2>3, <2>4 DEF TaskInv, TasksOwned
<1>15. CASE UNCHANGED taskVars
<2>1. TaskTypeOK'
  BY <1>15 DEF taskVars, TaskInv, TaskTypeOK
<2> QED  BY <1>15, <2>1, ThreadsRest DEF taskVars, TaskInv
<1> QED
  BY <1>1, <1>2, <1>3, <1>4, <1>5, <1>6, <1>7, <1>8, <1>9, <1>10, <1>11, <1>12, <1>13,
     <1>14, <1>15 DEF TaskNext, End

(* A thread that can still touch the window belongs to the task in flight, *)
(* is shown until it is about to end and is waited for, for any number of  *)
(* tasks (TasksOwned; RunProbeAsync, RunDiscoveryAsync,                    *)
(* RunEdgeBypassAsync, ~ImGuiApp).                                         *)
THEOREM TasksBelong == Spec => []TasksOwned
<1>1. Init => TaskInv
  BY TasksInit DEF Init
<1>2. TaskInv /\ [Next]_vars => TaskInv'
<2>1. [Next]_vars => [TaskNext]_taskVars
  BY DEF Next, vars
<2> QED  BY <2>1, TasksStep
<1>3. TaskInv => TasksOwned
  BY DEF TaskInv
<1> QED  BY <1>1, <1>2, <1>3, PTL DEF Spec

-----------------------------------------------------------------------------
(* The speed of the tests.                                                 *)

(* What a commander has still to store is in the ranges already.           *)
SpeedInv ==
    /\ SpeedTypeOK
    /\ SpeedInRange
    /\ \A c \in Commander :
          /\ plan[c]["threads"] \in 1 .. 50
          /\ plan[c]["timeout"] \in 1 .. 10
          /\ plan[c]["chunk"] \in 1 .. 50

LEMMA FieldIs ==
    /\ "threads" \in Field /\ "timeout" \in Field /\ "chunk" \in Field
    /\ \A f \in Field : f = "threads" \/ f = "timeout" \/ f = "chunk"
BY DEF Field

(* What a profile becomes before it is stored is in the ranges, on any     *)
(* number of processors.                                                   *)
LEMMA KeptInRange ==
    ASSUME NEW n \in Nat, NEW level
    PROVE  /\ Kept(Profile(level, n)) \in [Field -> Int]
           /\ Kept(Profile(level, n)).threads \in 1 .. 50
           /\ Kept(Profile(level, n)).timeout \in 1 .. 10
           /\ Kept(Profile(level, n)).chunk \in 1 .. 50
<1>1. PICK p : p = Profile(level, n)
  OBVIOUS
<1>2. p.threads \in Int /\ p.timeout \in Int /\ p.chunk \in Int
  BY <1>1 DEF Profile, Clamp, AtLeast, AtMost
<1>3. /\ Clamp(p.threads, 1, 50) \in 1 .. 50 /\ Clamp(p.timeout, 1, 10) \in 1 .. 10
      /\ Clamp(p.chunk, 1, 50) \in 1 .. 50
  BY <1>2 DEF Clamp, AtLeast, AtMost
<1>4. Kept(p) \in [Field -> Int]
  BY <1>3 DEF Kept, Field
<1> QED  BY <1>1, <1>3, <1>4 DEF Kept

(* The io pool has ten threads or more, whatever the machine.              *)
LEMMA PoolNotSmall ==
    ASSUME NEW n \in Nat \ {0}, NEW r \in 0 .. 100
    PROVE  /\ Snapshot(n, r) \in [cpu : Nat \ {0}, ram : 0 .. 100, io : Nat]
           /\ Snapshot(n, r).io >= 10 /\ Snapshot(n, r).cpu = n
<1>1. AtLeast(4, n) \in Nat /\ AtLeast(4, n) \div 2 \in Nat
  BY DEF AtLeast
<1>2. PICK b \in Nat : b = AtLeast(4, n) /\ b \div 2 \in Nat
  BY <1>1
<1>3. PICK h \in Nat : h = b \div 2
  BY <1>2
<1>4. IoPool(n, r) =
        IF r >= 95 THEN AtLeast(10, h)
        ELSE IF r >= 90 THEN AtLeast(10, b)
        ELSE IF r >= 85 THEN AtLeast(10, b + 2)
        ELSE IF r >= 80 THEN AtMost(48, AtLeast(18, 2 * b))
        ELSE IF r >= 70 THEN AtMost(80, AtLeast(24, 3 * b))
        ELSE IF r >= 60 THEN AtMost(96, AtLeast(32, 4 * b))
        ELSE AtMost(128, AtLeast(40, 5 * b))
  BY <1>2, <1>3 DEF IoPool
<1>5. IoPool(n, r) \in Nat /\ IoPool(n, r) >= 10
  BY <1>4 DEF AtLeast, AtMost
<1> QED  BY <1>5 DEF Snapshot

LEMMA BatchBounds ==
    ASSUME NEW chunk \in 1 .. 50, NEW r \in 0 .. 100, NEW b \in Nat, NEW threads \in Nat
    PROVE  /\ BatchSize(chunk, r, b, threads) \in 4 .. 50
           /\ Pressed(b, threads) \in BOOLEAN
<1>1. Clamp(2 * chunk, 5, 50) \in 5 .. 50
  BY DEF Clamp, AtLeast, AtMost
<1>2. PICK s \in Int : s = Spared(Clamp(2 * chunk, 5, 50), r) /\ 4 <= s /\ s <= 50
  BY <1>1 DEF Spared, AtMost
<1>3. BatchSize(chunk, r, b, threads) = IF Pressed(b, threads) THEN AtLeast(4, AtMost(threads, s)) ELSE s
  BY <1>2 DEF BatchSize
<1>4. BatchSize(chunk, r, b, threads) \in 4 .. 50
  BY <1>2, <1>3 DEF AtLeast, AtMost
<1>5. Pressed(b, threads) \in BOOLEAN
  BY DEF Pressed, AtLeast
<1> QED  BY <1>4, <1>5

LEMMA SpeedInitInv ==
    ASSUME NEW n \in Nat \ {0}, NEW r \in 0 .. 100, SpeedInit(n, r)
    PROVE  SpeedInv
<1>1. Usual \in [Field -> Int]
  BY DEF Usual, Field
<1>2. Usual.threads = 10 /\ Usual.timeout = 5 /\ Usual.chunk = 15
  BY DEF Usual
<1>3. /\ hw \in [cpu : Nat \ {0}, ram : 0 .. 100, io : Nat]
      /\ hw.io >= 10 /\ pool = hw.io
  BY PoolNotSmall DEF SpeedInit
<1>4. batch \in [at : Reader, size : Int, timeout : Int, pressed : BOOLEAN, parallel : Int]
  BY DEF SpeedInit, Reader
<1>5. SpeedTypeOK
<2>1. speed \in [Field -> Int] /\ plan \in [Commander -> [Field -> Int]]
  BY <1>1 DEF SpeedInit
<2>2. owed \in [Commander -> SUBSET Field] /\ pool \in Nat
  BY <1>3 DEF SpeedInit
<2>3. interval \in Nat
  BY DEF SpeedInit
<2>5. started \in BOOLEAN
  BY DEF SpeedInit
<2>4. orders \in 0 .. MaxOrders
  BY SpeedAssumption DEF SpeedInit
<2> QED  BY <2>1, <2>2, <2>3, <2>4, <2>5, <1>3, <1>4 DEF SpeedTypeOK
<1>6. SpeedInRange
  BY <1>2, <1>3 DEF SpeedInit, SpeedInRange
<1> QED  BY <1>2, <1>5, <1>6 DEF SpeedInv, SpeedInit

(* A plan in the ranges may be taken.                                      *)
LEMMA AcceptInv ==
    ASSUME SpeedInv, NEW c \in Commander, NEW p \in [Field -> Int], NEW fields \in SUBSET Field,
           p.threads \in 1 .. 50, p.timeout \in 1 .. 10, p.chunk \in 1 .. 50,
           Accept(c, p, fields),
           started' \in BOOLEAN, orders' \in 0 .. MaxOrders
    PROVE  SpeedInv'
<1>1. UNCHANGED <<speed, hw, pool, batch, interval>>
  BY DEF Accept
<1>2. plan' \in [Commander -> [Field -> Int]] /\ owed' \in [Commander -> SUBSET Field]
  BY DEF Accept, SpeedInv, SpeedTypeOK
<1>3. SpeedTypeOK'
  BY <1>1, <1>2 DEF SpeedInv, SpeedTypeOK
<1>4. SpeedInRange'
  BY <1>1 DEF SpeedInv, SpeedInRange
<1>5. \A d \in Commander : plan'[d] = IF d = c THEN p ELSE plan[d]
  BY DEF Accept, SpeedInv, SpeedTypeOK
<1> QED  BY <1>3, <1>4, <1>5 DEF SpeedInv

LEMMA StoreInv ==
    ASSUME SpeedInv, NEW c \in Commander, NEW f \in Field, StoreField(c, f)
    PROVE  SpeedInv'
<1>1. UNCHANGED <<hw, pool, batch, interval, started, orders>>
  BY DEF StoreField
<1>2. Usual \in [Field -> Int] /\ Usual.threads = 10 /\ Usual.timeout = 5 /\ Usual.chunk = 15
  BY DEF Usual, Field
<1>3. /\ plan' \in [Commander -> [Field -> Int]]
      /\ \A d \in Commander : plan'[d] = plan[d] \/ plan'[d] = Usual
  BY <1>2 DEF StoreField, SpeedInv, SpeedTypeOK
<1>4. owed' \in [Commander -> SUBSET Field]
  BY DEF StoreField, SpeedInv, SpeedTypeOK
<1>5. plan[c][f] \in Int
  BY DEF SpeedInv, SpeedTypeOK
<1>6. speed' \in [Field -> Int]
  BY <1>5 DEF StoreField, SpeedInv, SpeedTypeOK
<1>7. \A g \in Field : speed'[g] = IF g = f THEN plan[c][f] ELSE speed[g]
  BY DEF StoreField, SpeedInv, SpeedTypeOK
<1>8. SpeedTypeOK'
  BY <1>1, <1>3, <1>4, <1>6 DEF SpeedInv, SpeedTypeOK
<1>9. speed'.threads \in 1 .. 50 /\ speed'.timeout \in 1 .. 10 /\ speed'.chunk \in 1 .. 50
  BY <1>7, FieldIs DEF SpeedInv, SpeedInRange
<1>10. SpeedInRange'
  BY <1>1, <1>9 DEF SpeedInv, SpeedInRange
<1> QED  BY <1>2, <1>3, <1>8, <1>10 DEF SpeedInv

(* The records a batch may be, after one or two of its fields changed.     *)
LEMMA BatchType ==
    ASSUME NEW b \in [at : Reader, size : Int, timeout : Int, pressed : BOOLEAN, parallel : Int],
           NEW where \in Reader, NEW n \in Int
    PROVE  /\ [b EXCEPT !.at = where, !.timeout = n]
                  \in [at : Reader, size : Int, timeout : Int, pressed : BOOLEAN, parallel : Int]
           /\ [b EXCEPT !.at = where, !.timeout = n].timeout = n
           /\ [b EXCEPT !.at = where, !.timeout = n].size = b.size
           /\ [b EXCEPT !.at = where, !.timeout = n].parallel = b.parallel
           /\ [b EXCEPT !.at = where, !.parallel = n]
                  \in [at : Reader, size : Int, timeout : Int, pressed : BOOLEAN, parallel : Int]
           /\ [b EXCEPT !.at = where, !.parallel = n].parallel = n
           /\ [b EXCEPT !.at = where, !.parallel = n].size = b.size
           /\ [b EXCEPT !.at = where, !.parallel = n].timeout = b.timeout
OBVIOUS

LEMMA ReaderIs == "idle" \in Reader /\ "sized" \in Reader /\ "asked" \in Reader
BY DEF Reader

LEMMA SpeedStep == SpeedInv /\ [SpeedNext]_speedVars => SpeedInv'
<1> SUFFICES ASSUME SpeedInv, [SpeedNext]_speedVars PROVE SpeedInv'
  OBVIOUS
<1>0. hw.cpu \in Nat \ {0} /\ hw.ram \in 0 .. 100 /\ pool \in Nat
  BY DEF SpeedInv, SpeedTypeOK
<1>1. ASSUME NEW c \in Commander, NEW level \in Level, SpeedProfile(c, level)
      PROVE  SpeedInv'
<2>1. /\ Accept(c, Kept(Profile(level, hw.cpu)), Field)
      /\ started' \in BOOLEAN /\ orders' \in 0 .. MaxOrders
  BY <1>1, SpeedAssumption DEF SpeedProfile, Order, SpeedInv, SpeedTypeOK
<2> QED  BY <1>0, <2>1, KeptInRange, AcceptInv
<1>2. ASSUME NEW c \in Commander, NEW t \in Asked, NEW o \in Asked, NEW k \in Asked,
             SetSpeed(c, t, o, k)
      PROVE  SpeedInv'
<2>1. PICK p : p = [threads |-> t, timeout |-> o, chunk |-> Clamp(IF k < 1 THEN t ELSE k, 1, 50)]
  OBVIOUS
<2>2. /\ Accept(c, p, Field)
      /\ started' \in BOOLEAN /\ orders' \in 0 .. MaxOrders
      /\ t \in 1 .. 50 /\ o \in 1 .. 10
  BY <1>2, <2>1, SpeedAssumption DEF SetSpeed, Order, SpeedInv, SpeedTypeOK
<2>3. Clamp(IF k < 1 THEN t ELSE k, 1, 50) \in 1 .. 50
  BY <2>2, SpeedAssumption DEF Clamp, AtLeast, AtMost
<2>4. p \in [Field -> Int] /\ p.threads \in 1 .. 50 /\ p.timeout \in 1 .. 10 /\ p.chunk \in 1 .. 50
  BY <2>1, <2>2, <2>3 DEF Field
<2> QED  BY <2>2, <2>4, AcceptInv
<1>3. ASSUME NEW c \in Commander, NEW t \in Asked, SetThreads(c, t)
      PROVE  SpeedInv'
<2>1. PICK p : p = [Usual EXCEPT !.threads = t, !.chunk = Clamp(t, 1, 50)]
  OBVIOUS
<2>5. p = [threads |-> t, timeout |-> 5, chunk |-> Clamp(t, 1, 50)]
  BY <2>1 DEF Usual
<2>2. /\ Accept(c, p, {"threads", "chunk"})
      /\ started' \in BOOLEAN /\ orders' \in 0 .. MaxOrders
      /\ t \in 1 .. 50
  BY <1>3, <2>1, SpeedAssumption DEF SetThreads, Order, SpeedInv, SpeedTypeOK
<2>3. Clamp(t, 1, 50) \in 1 .. 50
  BY <2>2 DEF Clamp, AtLeast, AtMost
<2>4. p \in [Field -> Int] /\ p.threads \in 1 .. 50 /\ p.timeout \in 1 .. 10 /\ p.chunk \in 1 .. 50
  BY <2>5, <2>2, <2>3 DEF Field
<2> QED  BY <2>2, <2>4, AcceptInv DEF Field
<1>4. ASSUME NEW c \in Commander, NEW o \in Asked, SetTimeout(c, o)
      PROVE  SpeedInv'
<2>1. PICK p : p = [Usual EXCEPT !.timeout = o]
  OBVIOUS
<2>2. /\ Accept(c, p, {"timeout"})
      /\ started' \in BOOLEAN /\ orders' \in 0 .. MaxOrders
      /\ o \in 1 .. 10
  BY <1>4, <2>1, SpeedAssumption DEF SetTimeout, Order, SpeedInv, SpeedTypeOK
<2>3. p \in [Field -> Int] /\ p.threads \in 1 .. 50 /\ p.timeout \in 1 .. 10 /\ p.chunk \in 1 .. 50
  BY <2>1, <2>2 DEF Field, Usual
<2> QED  BY <2>2, <2>3, AcceptInv DEF Field
<1>5. ASSUME NEW c \in Commander, NEW f \in Field, StoreField(c, f)
      PROVE  SpeedInv'
  BY <1>5, StoreInv
<1>6. CASE StartupProfile
<2>1. /\ Accept("main", Kept(Profile(LevelFor(hw.cpu), hw.cpu)), Field)
      /\ started' \in BOOLEAN /\ orders' \in 0 .. MaxOrders /\ "main" \in Commander
  BY <1>6 DEF StartupProfile, SpeedInv, SpeedTypeOK, Commander
<2> QED  BY <1>0, <2>1, KeptInRange, AcceptInv
<1>7. ASSUME NEW r \in Ram, GetHardware(r) PROVE SpeedInv'
<2>1. /\ hw' \in [cpu : Nat \ {0}, ram : 0 .. 100, io : Nat] /\ hw'.io >= 10
      /\ UNCHANGED <<speed, plan, owed, pool, batch, interval, started, orders>>
  BY <1>0, <1>7, PoolNotSmall, SpeedAssumption DEF GetHardware
<2> QED  BY <2>1 DEF SpeedInv, SpeedTypeOK, SpeedInRange
<1>8. CASE MaybeResize
<2>1. /\ pool' \in Nat /\ pool' >= 10
      /\ UNCHANGED <<speed, plan, owed, hw, batch, interval, started, orders>>
  BY <1>8 DEF MaybeResize, SpeedInv, SpeedTypeOK, SpeedInRange
<2> QED  BY <2>1 DEF SpeedInv, SpeedTypeOK, SpeedInRange
<1>9. ASSUME NEW b \in Backlog, SizeBatch(b) PROVE SpeedInv'
<2>1. speed["chunk"] \in 1 .. 50 /\ b \in Nat
  BY SpeedAssumption DEF SpeedInv, SpeedInRange
<2>2. /\ BatchSize(speed["chunk"], hw.ram, b, pool) \in 4 .. 50
      /\ Pressed(b, pool) \in BOOLEAN
  BY <1>0, <2>1, BatchBounds
<2>3. /\ batch' \in [at : Reader, size : Int, timeout : Int, pressed : BOOLEAN, parallel : Int]
      /\ batch'.size \in 4 .. 50
      /\ batch'.timeout = batch.timeout /\ batch'.parallel = batch.parallel
      /\ UNCHANGED <<speed, plan, owed, hw, pool, interval, started, orders>>
  BY <1>9, <2>2 DEF SizeBatch, SpeedInv, SpeedTypeOK, Reader
<2> QED  BY <2>3 DEF SpeedInv, SpeedTypeOK, SpeedInRange
<1>10. CASE AskTimeout
<2>1. speed["timeout"] \in 1 .. 10
  BY DEF SpeedInv, SpeedInRange
<2>2. PICK o \in 1 .. 10 : o = speed["timeout"]
  BY <2>1
<2>3. /\ batch' = [batch EXCEPT !.at = "asked", !.timeout = o]
      /\ UNCHANGED <<speed, plan, owed, hw, pool, interval, started, orders>>
  BY <1>10, <2>2 DEF AskTimeout
<2>4. /\ batch' \in [at : Reader, size : Int, timeout : Int, pressed : BOOLEAN, parallel : Int]
      /\ batch'.timeout \in 1 .. 10
      /\ batch'.size = batch.size /\ batch'.parallel = batch.parallel
<3>1. batch \in [at : Reader, size : Int, timeout : Int, pressed : BOOLEAN, parallel : Int]
  BY DEF SpeedInv, SpeedTypeOK
<3>2. o \in Int
  BY <2>2
<3> QED  BY <2>3, <2>2, <3>1, <3>2, BatchType, ReaderIs, Zenon
<2> QED  BY <2>3, <2>4 DEF SpeedInv, SpeedTypeOK, SpeedInRange
<1>11. CASE AskThreads
<2>1. speed["threads"] \in 1 .. 50
  BY DEF SpeedInv, SpeedInRange
<2>2. PICK n \in 1 .. 50 :
         n = IF batch.pressed THEN AtLeast(2, AtMost(pool, speed["threads"])) ELSE speed["threads"]
  BY <1>0, <2>1 DEF AtLeast, AtMost
<2>3. /\ batch' = [batch EXCEPT !.at = "idle", !.parallel = n]
      /\ UNCHANGED <<speed, plan, owed, hw, pool, interval, started, orders>>
  BY <1>11, <2>2 DEF AskThreads
<2>4. /\ batch' \in [at : Reader, size : Int, timeout : Int, pressed : BOOLEAN, parallel : Int]
      /\ batch'.parallel \in 1 .. 50
      /\ batch'.size = batch.size /\ batch'.timeout = batch.timeout
<3>1. batch \in [at : Reader, size : Int, timeout : Int, pressed : BOOLEAN, parallel : Int]
  BY DEF SpeedInv, SpeedTypeOK
<3>2. n \in Int
  BY <2>2
<3> QED  BY <2>3, <2>2, <3>1, <3>2, BatchType, ReaderIs, Zenon
<2> QED  BY <2>3, <2>4 DEF SpeedInv, SpeedTypeOK, SpeedInRange
<1>12. ASSUME NEW v \in {0, 1, 5}, AfterScan(v) PROVE SpeedInv'
<2>1. ScanInterval(hw.ram, v) \in 60 .. 1800
<3>1. v \in Nat
  BY <1>12
<3> QED  BY <1>0, <3>1, SpeedAssumption DEF ScanInterval, AtLeast
<2>2. /\ interval' \in 60 .. 1800
      /\ UNCHANGED <<speed, plan, owed, hw, pool, batch, started, orders>>
  BY <1>12, <2>1 DEF AfterScan
<2> QED  BY <2>2 DEF SpeedInv, SpeedTypeOK, SpeedInRange
<1>13. CASE UNCHANGED speedVars
  BY <1>13 DEF speedVars, SpeedInv, SpeedTypeOK, SpeedInRange
<1> QED
  BY <1>1, <1>2, <1>3, <1>4, <1>5, <1>6, <1>7, <1>8, <1>9, <1>10, <1>11, <1>12, <1>13
     DEF SpeedNext

-----------------------------------------------------------------------------
(* The log.                                                                *)

LEMMA Places ==
    ASSUME NEW C \in Nat \ {0}, NEW a \in Nat
    PROVE  a % C \in 0 .. C - 1
OBVIOUS

(* Fewer lines than the ring has places do not meet in one of them.        *)
LEMMA PlacesDiffer ==
    ASSUME NEW C \in Nat \ {0}, NEW a \in Nat, NEW b \in Nat, a < b, b < a + C
    PROVE  a % C # b % C
<1> SUFFICES ASSUME a % C = b % C PROVE FALSE
  OBVIOUS
<1>0. a \div C \in Int /\ b \div C \in Int
  OBVIOUS
<1>1. a = C * (a \div C) + (a % C) /\ b = C * (b \div C) + (b % C)
  OBVIOUS
<1>2. PICK p \in Int : p = a \div C
  BY <1>0
<1>3. PICK q \in Int : q = b \div C
  BY <1>0
<1>4. PICK k \in Int : k = q - p
  OBVIOUS
<1>5. b - a = C * k
  BY <1>1, <1>2, <1>3, <1>4
<1>6. k <= 0 \/ k >= 1
  OBVIOUS
<1>7. k <= 0 => C * k <= 0
  OBVIOUS
<1>8. k >= 1 => C * k >= C
  OBVIOUS
<1> QED  BY <1>5, <1>6, <1>7, <1>8

(* The ring holds the last lines written, each at its place; what the      *)
(* window shows is from before the point up to which it has read.          *)
LogInv ==
    /\ LogTypeOK
    /\ LatestShown
    /\ shown \in Seq(Line) /\ polled \in Seq(Line)
    /\ \A m \in Nat : m < written /\ written <= m + Capacity => buf[m % Capacity].n = m
    /\ \A i \in DOMAIN shown : shown[i].n < generation
    /\ download.at = "source" => download.done < Sources
    /\ posted <= clicks

LEMMA LastOfIs ==
    ASSUME NEW S, NEW s \in Seq(S), NEW max \in Nat
    PROVE  /\ LastOf(s, max) \in Seq(S)
           /\ Len(LastOf(s, max)) = Lesser(Len(s), max)
           /\ \A i \in 1 .. Lesser(Len(s), max) :
                  LastOf(s, max)[i] = s[Len(s) - Lesser(Len(s), max) + i]
<1>1. Len(s) \in Nat
  BY LenProperties
<1>2. PICK l \in Nat : l = Lesser(Len(s), max) /\ l <= Len(s)
  BY <1>1 DEF Lesser
<1>3. Len(s) - l + 1 \in 1 .. Len(s) + 1 /\ Len(s) \in (Len(s) - l + 1) - 1 .. Len(s)
  BY <1>1, <1>2
<1>4. /\ SubSeq(s, Len(s) - l + 1, Len(s)) \in Seq(S)
      /\ Len(SubSeq(s, Len(s) - l + 1, Len(s))) = Len(s) - (Len(s) - l + 1) + 1
      /\ \A i \in 1 .. Len(s) - (Len(s) - l + 1) + 1 :
             SubSeq(s, Len(s) - l + 1, Len(s))[i] = s[(Len(s) - l + 1) + i - 1]
  BY <1>3, SubSeqProperties
<1>5. /\ Len(s) - (Len(s) - l + 1) + 1 = l
      /\ \A i \in Int : (Len(s) - l + 1) + i - 1 = Len(s) - l + i
  BY <1>1, <1>2
<1>6. LastOf(s, max) = SubSeq(s, Len(s) - l + 1, Len(s))
  BY <1>2 DEF LastOf
<1>7. ASSUME NEW i \in 1 .. l
      PROVE  LastOf(s, max)[i] = s[Len(s) - l + i]
  BY <1>4, <1>5, <1>6
<1>8. LastOf(s, max) \in Seq(S) /\ Len(LastOf(s, max)) = l
  BY <1>4, <1>5, <1>6
<1> QED  BY <1>2, <1>7, <1>8

(* What a reader takes: the last lines written since it read, in order.    *)
LEMMA Fetched ==
    ASSUME LogInv, NEW since \in 0 .. written, NEW max \in Nat \ {0}
    PROVE  \E a \in Nat :
              /\ a = Lesser(Lesser(written - since, Capacity), max)
              /\ a <= written - since
              /\ FetchSince(since, max) \in Seq(Line)
              /\ Len(FetchSince(since, max)) = a
              /\ \A i \in 1 .. a : FetchSince(since, max)[i].n = written - a + i - 1
<1>1. /\ written \in Nat /\ since \in Nat /\ since <= written
      /\ Capacity \in Nat \ {0} /\ buf \in [0 .. Capacity - 1 -> Line]
  BY LogViewAssumption DEF LogInv, LogTypeOK
<1>2. PICK a \in Nat : /\ a = Lesser(Lesser(written - since, Capacity), max)
                       /\ a <= written - since /\ a <= Capacity
<2>1. PICK w \in Nat : w = written - since
  BY <1>1
<2>2. Lesser(Lesser(w, Capacity), max) \in Nat
  BY <1>1, <2>1 DEF Lesser
<2>3. Lesser(Lesser(w, Capacity), max) <= w /\ Lesser(Lesser(w, Capacity), max) <= Capacity
  BY <1>1, <2>1 DEF Lesser
<2> QED  BY <2>1, <2>2, <2>3
<1>3. FetchSince(since, max) = [i \in 1 .. a |-> buf[(written - a + i - 1) % Capacity]]
  BY <1>2 DEF FetchSince
<1>4. ASSUME NEW i \in 1 .. a
      PROVE  /\ buf[(written - a + i - 1) % Capacity] \in Line
             /\ buf[(written - a + i - 1) % Capacity].n = written - a + i - 1
<2>1. PICK m \in Nat : m = written - a + i - 1 /\ m < written /\ written <= m + Capacity
  BY <1>1, <1>2
<2>2. m % Capacity \in 0 .. Capacity - 1
  BY <1>1, <2>1, Places
<2>3. buf[m % Capacity] \in Line
  BY <1>1, <2>2
<2>4. buf[m % Capacity].n = m
  BY <2>1 DEF LogInv
<2> QED  BY <2>1, <2>3, <2>4
<1>5. [i \in 1 .. a |-> buf[(written - a + i - 1) % Capacity]] \in [1 .. a -> Line]
  BY <1>4
<1>6. /\ FetchSince(since, max) \in Seq(Line)
      /\ Len(FetchSince(since, max)) = a
  BY <1>3, <1>5
<1> QED  BY <1>2, <1>3, <1>4, <1>6

(* A line goes to the place of the oldest one.                             *)
LEMMA PushKeeps ==
    ASSUME LogInv, NEW kind \in Kind, NEW count \in 0 .. Sources, Push(kind, count)
    PROVE  /\ buf' \in [0 .. Capacity - 1 -> Line]
           /\ written' = written + 1 /\ written' \in 0 .. MaxLines
           /\ \A m \in Nat : m < written' /\ written' <= m + Capacity =>
                                   buf'[m % Capacity].n = m
<1>1. /\ written \in Nat /\ MaxLines \in Nat
      /\ Capacity \in Nat \ {0} /\ buf \in [0 .. Capacity - 1 -> Line]
  BY LogViewAssumption DEF LogInv, LogTypeOK
<1>2. written' = written + 1 /\ written' \in 0 .. MaxLines
  BY <1>1 DEF Push
<1>3. PICK l : l = [n |-> written, kind |-> kind, count |-> count]
  OBVIOUS
<1>4. l \in Line /\ l.n = written
  BY <1>1, <1>3 DEF Line
<1>5. written % Capacity \in 0 .. Capacity - 1
  BY <1>1, Places
<1>6. /\ buf' \in [0 .. Capacity - 1 -> Line]
      /\ \A p \in 0 .. Capacity - 1 :
             buf'[p] = IF p = written % Capacity THEN l ELSE buf[p]
  BY <1>1, <1>3, <1>4, <1>5 DEF Push
<1>7. ASSUME NEW m \in Nat, m < written', written' <= m + Capacity
      PROVE  buf'[m % Capacity].n = m
<2>1. m % Capacity \in 0 .. Capacity - 1
  BY <1>1, Places
<2>2. CASE m = written
  BY <1>4, <1>6, <2>1, <2>2
<2>3. CASE m < written
<3>0. m < written /\ written < m + Capacity /\ written <= m + Capacity
  BY <1>1, <1>2, <1>7, <2>3
<3>1. m % Capacity # written % Capacity
  BY <1>1, <3>0, PlacesDiffer
<3>2. buf[m % Capacity].n = m
  BY <3>0 DEF LogInv
<3> QED  BY <1>6, <2>1, <3>1, <3>2
<2> QED  BY <1>1, <1>2, <1>7, <2>2, <2>3
<1> QED  BY <1>2, <1>6, <1>7

(* A frame: what is shown grows at its end, and loses at its beginning.    *)
LEMMA FrameShows ==
    ASSUME LogInv, ConsumeNewLogs
    PROVE  /\ shown' \in Seq(Line)
           /\ \A i \in DOMAIN shown' : shown'[i].n < generation'
           /\ LatestShown'
<1>1. /\ written \in Nat /\ generation \in Nat /\ generation < written /\ generation' = written
      /\ cleared \in Nat /\ cleared <= generation /\ cleared' = cleared
      /\ FrameMax \in Nat \ {0} /\ MaxUiLogs \in Nat \ {0} /\ Capacity \in Nat \ {0}
      /\ FrameMax <= Capacity /\ FrameMax <= MaxUiLogs
  BY LogViewAssumption DEF LogInv, LogTypeOK, ConsumeNewLogs
<1>2. PICK a \in Nat :
          /\ a = Lesser(Lesser(written - generation, Capacity), FrameMax)
          /\ a <= written - generation
          /\ FetchSince(generation, FrameMax) \in Seq(Line)
          /\ Len(FetchSince(generation, FrameMax)) = a
          /\ \A i \in 1 .. a : FetchSince(generation, FrameMax)[i].n = written - a + i - 1
<2>1. generation \in 0 .. written
  BY <1>1
<2> QED  BY <1>1, <2>1, Fetched
<1>3. a = FrameMax \/ a = written - generation
  BY <1>1, <1>2 DEF Lesser
<1>4. PICK F \in Seq(Line) : F = FetchSince(generation, FrameMax) /\ Len(F) = a
  BY <1>2
<1>5. shown \in Seq(Line) /\ Len(shown) \in Nat /\ DOMAIN shown = 1 .. Len(shown)
  BY LenProperties DEF LogInv
<1>6. PICK n \in Nat : n = Len(shown)
  BY <1>5
<1>7. PICK s \in Seq(Line) : s = shown \o F
  BY <1>4, <1>5, ConcatProperties
<1>8. /\ Len(s) = n + a
      /\ \A i \in 1 .. n + a : s[i] = IF i <= n THEN shown[i] ELSE F[i - n]
  BY <1>4, <1>5, <1>6, <1>7, ConcatProperties
<1>9. PICK l \in Nat : l = Lesser(n + a, MaxUiLogs)
  BY <1>1 DEF Lesser
<1>10. l <= n + a /\ l <= MaxUiLogs /\ (l = n + a \/ l = MaxUiLogs)
  BY <1>1, <1>9 DEF Lesser
<1>11. shown' = LastOf(s, MaxUiLogs)
  BY <1>4, <1>7 DEF ConsumeNewLogs
<1>12. /\ shown' \in Seq(Line)
       /\ Len(shown') = l
       /\ \A i \in 1 .. l : shown'[i] = s[n + a - l + i]
<2>1. Lesser(Len(s), MaxUiLogs) = l /\ Len(s) = n + a
  BY <1>8, <1>9
<2>2. PICK v : v = LastOf(s, MaxUiLogs)
  OBVIOUS
<2>3. /\ v \in Seq(Line)
      /\ Len(v) = Lesser(Len(s), MaxUiLogs)
      /\ \A i \in 1 .. Lesser(Len(s), MaxUiLogs) :
             v[i] = s[Len(s) - Lesser(Len(s), MaxUiLogs) + i]
  BY <1>1, <2>2, LastOfIs
<2>4. v \in Seq(Line) /\ Len(v) = l /\ \A i \in 1 .. l : v[i] = s[n + a - l + i]
  BY <2>1, <2>3
<2> QED  BY <1>11, <2>2, <2>4
<1>13. DOMAIN shown' = 1 .. l
<2>1. PICK v \in Seq(Line) : v = shown'
  BY <1>12
<2>2. DOMAIN v = 1 .. Len(v)
  BY LenProperties
<2> QED  BY <1>12, <2>1, <2>2
<1>14. ASSUME NEW i \in 1 .. n
       PROVE  shown[i].n \in Nat /\ shown[i].n < generation /\ shown[i].n >= cleared
<2>1. i \in 1 .. Len(shown) /\ i \in DOMAIN shown
  BY <1>5, <1>6
<2>2. shown[i] \in Line
  BY <1>5, <2>1, ElementOfSeq
<2>3. shown[i].n \in Nat
  BY <2>2 DEF Line
<2> QED  BY <2>1, <2>3 DEF LogInv, LatestShown
<1>15. \A i \in 1 .. n, j \in 1 .. n : i < j => shown[i].n < shown[j].n
  BY <1>5, <1>6 DEF LogInv, LatestShown
(* the numbers of the lines, before the oldest are dropped *)
<1>16. /\ \A i \in 1 .. n + a : i <= n => s[i].n = shown[i].n
       /\ \A i \in 1 .. n + a : i > n => s[i].n = written - a + (i - n) - 1
<2>1. ASSUME NEW i \in 1 .. n + a, i > n
      PROVE  s[i].n = written - a + (i - n) - 1
<3>1. i - n \in 1 .. a
  BY <2>1
<3>2. F[i - n].n = written - a + (i - n) - 1
  BY <1>2, <1>4, <3>1
<3> QED  BY <1>8, <2>1, <3>2
<2> QED  BY <1>8, <2>1
<1>17. ASSUME NEW i \in 1 .. n + a PROVE s[i].n < written /\ s[i].n >= cleared
<2>1. CASE i <= n
<3>1. i \in 1 .. n
  BY <2>1
<3>2. /\ shown[i].n \in Nat /\ shown[i].n < generation /\ s[i].n = shown[i].n
      /\ shown[i].n >= cleared
  BY <1>14, <1>16, <2>1, <3>1
<3> QED  BY <1>1, <3>2
<2>2. CASE i > n
<3>1. s[i].n = written - a + (i - n) - 1
  BY <1>16, <2>2
<3> QED  BY <1>1, <1>2, <2>2, <3>1
<2> QED  BY <2>1, <2>2
<1>18. \A i \in 1 .. n + a, j \in 1 .. n + a : i < j => s[i].n < s[j].n
<2>1. SUFFICES ASSUME NEW i \in 1 .. n + a, NEW j \in 1 .. n + a, i < j
               PROVE  s[i].n < s[j].n
  OBVIOUS
<2>2. CASE j <= n
<3>1. i \in 1 .. n /\ j \in 1 .. n
  BY <2>1, <2>2
<3>2. shown[i].n < shown[j].n
  BY <1>15, <2>1, <3>1
<3>3. s[i].n = shown[i].n /\ s[j].n = shown[j].n
  BY <1>16, <2>1, <3>1
<3> QED  BY <3>2, <3>3
<2>3. CASE i <= n /\ j > n
<3>1. i \in 1 .. n
  BY <2>3
<3>2. shown[i].n \in Nat /\ shown[i].n < generation /\ s[i].n = shown[i].n
  BY <1>14, <1>16, <3>1
<3>3. s[j].n = written - a + (j - n) - 1
  BY <1>16, <2>3
<3>4. PICK x \in Nat : x = shown[i].n /\ x < generation
  BY <3>2
<3>6. written - a >= generation /\ j - n >= 1
  BY <1>1, <1>2, <2>3
<3>7. PICK y \in Int : y = written - a
  BY <1>1
<3>8. PICK z \in Int : z = j - n
  BY <1>2
<3>9. generation \in Nat
  BY <1>1
<3>10. y >= generation /\ z >= 1
  BY <3>6, <3>7, <3>8
<3>11. x < y + z - 1
  BY <3>4, <3>7, <3>8, <3>9, <3>10
<3>5. x < written - a + (j - n) - 1
<4>1. y + z - 1 = written - a + (j - n) - 1
  BY <3>7, <3>8
<4> QED  BY <3>11, <4>1
<3> QED  BY <3>2, <3>3, <3>4, <3>5
<2>4. CASE i > n
<3>1. s[i].n = written - a + (i - n) - 1 /\ s[j].n = written - a + (j - n) - 1
  BY <1>16, <2>1, <2>4
<3> QED  BY <1>1, <2>1, <3>1
<2> QED  BY <2>1, <2>2, <2>3, <2>4
<1>19. \A i \in 1 .. l : n + a - l + i \in 1 .. n + a
  BY <1>10
<1>20. \A i \in DOMAIN shown' : shown'[i].n < generation' /\ shown'[i].n >= cleared'
  BY <1>1, <1>12, <1>13, <1>17, <1>19
<1>21. \A i, j \in DOMAIN shown' : i < j => shown'[i].n < shown'[j].n
<2>1. SUFFICES ASSUME NEW i \in 1 .. l, NEW j \in 1 .. l, i < j
               PROVE  shown'[i].n < shown'[j].n
  BY <1>13
<2>2. shown'[i] = s[n + a - l + i] /\ shown'[j] = s[n + a - l + j]
  BY <1>12
<2>3. n + a - l + i < n + a - l + j
  BY <2>1
<2> QED  BY <1>18, <1>19, <2>2, <2>3
<1>22. ASSUME NEW k \in 1 .. Lesser(FrameMax, written - cleared)
       PROVE  Len(shown') >= k /\ shown'[Len(shown') - k + 1].n = written - k
<2>1. k \in Nat /\ k >= 1 /\ k <= FrameMax /\ k <= written - cleared
  BY <1>1 DEF Lesser
<2>2. CASE k <= a
<3>1. k <= l
  BY <1>1, <1>10, <2>1, <2>2
<3>2. shown'[l - k + 1] = s[n + a - k + 1]
<4>1. l - k + 1 \in 1 .. l /\ n + a - l + (l - k + 1) = n + a - k + 1
  BY <2>1, <3>1
<4> QED  BY <1>12, <4>1
<3>3. s[n + a - k + 1].n = written - k
<4>1. PICK i \in 1 .. n + a : i = n + a - k + 1 /\ i > n
  BY <2>1, <2>2
<4>2. s[i].n = written - a + (i - n) - 1
  BY <1>16, <4>1
<4>3. written - a + (i - n) - 1 = written - k
  BY <1>1, <2>1, <4>1
<4> QED  BY <4>1, <4>2, <4>3
<3> QED  BY <1>12, <3>1, <3>2, <3>3
<2>3. CASE k > a
<3>1. a = written - generation
  BY <1>3, <2>1, <2>3
<3>2. PICK m \in Nat : m = k - a /\ m >= 1 /\ m <= FrameMax /\ m <= generation - cleared
  BY <1>1, <2>1, <2>3, <3>1
<3>3. m \in 1 .. Lesser(FrameMax, generation - cleared)
  BY <1>1, <3>2 DEF Lesser
<3>4. n >= m /\ shown[n - m + 1].n = generation - m
  BY <1>6, <3>3 DEF LogInv, LatestShown
<3>5. k <= n + a /\ k <= l
  BY <1>1, <1>10, <2>1, <3>2, <3>4
<3>6. shown'[l - k + 1] = s[n + a - k + 1]
<4>1. l - k + 1 \in 1 .. l /\ n + a - l + (l - k + 1) = n + a - k + 1
  BY <2>1, <3>5
<4> QED  BY <1>12, <4>1
<3>7. s[n - m + 1].n = generation - m
<4>1. n - m + 1 \in 1 .. n + a /\ n - m + 1 <= n
  BY <3>2, <3>4
<4> QED  BY <1>16, <3>4, <4>1
<3>8. n + a - k + 1 = n - m + 1 /\ generation - m = written - k
  BY <1>1, <2>1, <3>1, <3>2
<3> QED  BY <1>12, <3>5, <3>6, <3>7, <3>8
<2> QED  BY <2>1, <2>2, <2>3
<1>23. LatestShown'
  BY <1>1, <1>20, <1>21, <1>22 DEF LatestShown
<1> QED  BY <1>12, <1>20, <1>23

LEMMA LogInitInv == LogInit => LogInv
<1> SUFFICES ASSUME LogInit PROVE LogInv
  OBVIOUS
<1>1. /\ Sources \in Nat /\ MaxLines \in Nat /\ MaxClicks \in Nat
      /\ Capacity \in Nat \ {0} /\ FrameMax \in Nat \ {0}
  BY LogViewAssumption
<1>2. PICK l : l = [n |-> 0, kind |-> "other", count |-> 0]
  OBVIOUS
<1>3. l \in Line
  BY <1>1, <1>2 DEF Line, Kind
<1>4. buf \in [0 .. Capacity - 1 -> Line]
  BY <1>2, <1>3 DEF LogInit
<1>5. shown \in Seq(Line) /\ polled \in Seq(Line) /\ DOMAIN shown = {} /\ DOMAIN polled = {}
  BY EmptySeq DEF LogInit
<1>6. /\ written = 0 /\ generation = 0 /\ cleared = 0 /\ pollFrom = 0 /\ polling = FALSE
      /\ progress = [active |-> FALSE, count |-> 0]
      /\ posted = 0 /\ download = NoDownload /\ clicks = 0
  BY DEF LogInit
<1>7. progress \in [active : BOOLEAN, count : 0 .. Sources]
  BY <1>1, <1>6
<1>8. /\ download \in [at : {"off", "start", "next", "source"}, done : 0 .. Sources]
      /\ download.at # "source"
  BY <1>1, <1>6 DEF NoDownload
<1>9. LogTypeOK
<2>1. /\ written \in 0 .. MaxLines /\ generation \in 0 .. written /\ pollFrom \in 0 .. written
      /\ cleared \in 0 .. generation /\ posted \in 0 .. MaxClicks /\ clicks \in 0 .. MaxClicks
  BY <1>1, <1>6
<2>2. polling \in BOOLEAN
  BY <1>6
<2> QED  BY <1>4, <1>5, <1>7, <1>8, <2>1, <2>2 DEF LogTypeOK
<1>10. LatestShown
<2>1. Lesser(FrameMax, generation - cleared) = 0
  BY <1>1, <1>6 DEF Lesser
<2> QED  BY <1>5, <2>1 DEF LatestShown
<1> QED  BY <1>5, <1>6, <1>8, <1>9, <1>10 DEF LogInv

(* A step that leaves what is shown and adds a line at most.               *)
LEMMA ShownRests ==
    ASSUME LogInv, UNCHANGED <<shown, generation, cleared>>
    PROVE  /\ LatestShown' /\ shown' \in Seq(Line)
           /\ \A i \in DOMAIN shown' : shown'[i].n < generation' /\ shown'[i] \in Line
BY DEF LogInv, LogTypeOK, LatestShown

(* What a line does to the state of the download.                          *)
LEMMA ParsedType ==
    ASSUME LogInv, NEW l \in Line
    PROVE  (CASE l.kind = "progress" -> [progress EXCEPT !.count = l.count]
              [] l.kind \in {"completed", "finished"} -> [active |-> FALSE, count |-> l.count]
              [] OTHER -> progress) \in [active : BOOLEAN, count : 0 .. Sources]
<1>1. progress \in [active : BOOLEAN, count : 0 .. Sources] /\ l.count \in 0 .. Sources
  BY DEF LogInv, LogTypeOK, Line
<1>2. /\ [progress EXCEPT !.count = l.count] \in [active : BOOLEAN, count : 0 .. Sources]
      /\ [active |-> FALSE, count |-> l.count] \in [active : BOOLEAN, count : 0 .. Sources]
  BY <1>1
<1>3. CASE l.kind = "progress"
  BY <1>2, <1>3, Zenon
<1>4. CASE l.kind \in {"completed", "finished"} /\ l.kind # "progress"
  BY <1>2, <1>4, Zenon
<1>5. CASE l.kind \notin {"completed", "finished"} /\ l.kind # "progress"
  BY <1>1, <1>5, Zenon
<1> QED  BY <1>3, <1>4, <1>5

(* A progress line of the download.                                        *)
LEMMA Emitted ==
    ASSUME LogInv, NEW from, NEW kind \in Kind, NEW count \in 0 .. Sources, NEW to,
           to \in [at : {"off", "start", "next", "source"}, done : 0 .. Sources],
           to.at = "source" => to.done < Sources,
           Emit(from, kind, count, to)
    PROVE  LogInv'
<1>1. /\ Push(kind, count) /\ download' = to
      /\ UNCHANGED <<generation, shown, cleared, pollFrom, polled, polling, progress, posted, clicks>>
  BY DEF Emit
<1>2. /\ buf' \in [0 .. Capacity - 1 -> Line]
      /\ written' = written + 1 /\ written' \in 0 .. MaxLines
      /\ \A m \in Nat : m < written' /\ written' <= m + Capacity => buf'[m % Capacity].n = m
  BY <1>1, PushKeeps
<1>3. generation' \in 0 .. written' /\ pollFrom' \in 0 .. written'
  BY <1>1, <1>2, LogViewAssumption DEF LogInv, LogTypeOK
<1>4. LogTypeOK'
  BY <1>1, <1>2, <1>3 DEF LogInv, LogTypeOK
<1>5. /\ LatestShown' /\ shown' \in Seq(Line)
      /\ \A i \in DOMAIN shown' : shown'[i].n < generation'
  BY <1>1, ShownRests
<1> QED  BY <1>1, <1>2, <1>4, <1>5 DEF LogInv

LEMMA LogStep == LogInv /\ [LogNext]_logVars => LogInv'
<1> SUFFICES ASSUME LogInv, [LogNext]_logVars PROVE LogInv'
  OBVIOUS
<1>0. /\ written \in 0 .. MaxLines /\ MaxLines \in Nat /\ Sources \in Nat /\ MaxClicks \in Nat
      /\ generation \in 0 .. written /\ pollFrom \in 0 .. written
      /\ cleared \in 0 .. generation
      /\ download \in [at : {"off", "start", "next", "source"}, done : 0 .. Sources]
  BY LogViewAssumption DEF LogInv, LogTypeOK
<1>1. CASE Log
<2>1. /\ Push("other", 0)
      /\ UNCHANGED <<generation, shown, cleared, pollFrom, polled, polling, progress, posted,
                      download, clicks>>
  BY <1>1 DEF Log
<2>2. /\ buf' \in [0 .. Capacity - 1 -> Line]
      /\ written' = written + 1 /\ written' \in 0 .. MaxLines
      /\ \A m \in Nat : m < written' /\ written' <= m + Capacity => buf'[m % Capacity].n = m
<3>1. "other" \in Kind /\ 0 \in 0 .. Sources
  BY <1>0 DEF Kind
<3> QED  BY <2>1, <3>1, PushKeeps
<2>3. generation' \in 0 .. written' /\ pollFrom' \in 0 .. written'
  BY <1>0, <2>1, <2>2
<2>4. LogTypeOK'
  BY <2>1, <2>2, <2>3 DEF LogInv, LogTypeOK
<2>5. /\ LatestShown' /\ shown' \in Seq(Line)
      /\ \A i \in DOMAIN shown' : shown'[i].n < generation'
  BY <2>1, ShownRests
<2> QED  BY <2>1, <2>2, <2>4, <2>5 DEF LogInv
<1>2. CASE ConsumeNewLogs
<2>1. /\ shown' \in Seq(Line)
      /\ \A i \in DOMAIN shown' : shown'[i].n < generation'
      /\ LatestShown'
  BY <1>2, FrameShows
<2>2. /\ generation' = written
      /\ UNCHANGED <<cleared, buf, written, pollFrom, polled, polling, progress, posted,
                      download, clicks>>
  BY <1>2 DEF ConsumeNewLogs
<2>3. \A i \in DOMAIN shown' : shown'[i] \in Line
<3>1. PICK v \in Seq(Line) : v = shown'
  BY <2>1
<3>2. DOMAIN v = 1 .. Len(v) /\ \A i \in 1 .. Len(v) : v[i] \in Line
  BY LenProperties, ElementOfSeq
<3> QED  BY <3>1, <3>2
<2>4. generation' \in 0 .. written' /\ cleared' \in 0 .. generation'
  BY <1>0, <2>2
<2>5. LogTypeOK'
  BY <2>2, <2>3, <2>4 DEF LogInv, LogTypeOK
<2> QED  BY <2>1, <2>2, <2>5 DEF LogInv
<1>3. CASE Poll
<2>1. /\ polled' = FetchSince(pollFrom, PollMax) /\ polling' = TRUE /\ pollFrom' = written
      /\ UNCHANGED <<buf, written, generation, shown, cleared, progress, posted, download, clicks>>
  BY <1>3 DEF Poll
<2>2. polled' \in Seq(Line)
  BY <1>0, <2>1, Fetched, LogViewAssumption
<2>3. \A i \in DOMAIN polled' : polled'[i] \in Line
<3>1. PICK v \in Seq(Line) : v = polled'
  BY <2>2
<3>2. DOMAIN v = 1 .. Len(v) /\ \A i \in 1 .. Len(v) : v[i] \in Line
  BY LenProperties, ElementOfSeq
<3> QED  BY <3>1, <3>2
<2>4. pollFrom' \in 0 .. written'
  BY <1>0, <2>1
<2>5. LogTypeOK'
  BY <2>1, <2>3, <2>4 DEF LogInv, LogTypeOK
<2>6. /\ LatestShown' /\ shown' \in Seq(Line)
      /\ \A i \in DOMAIN shown' : shown'[i].n < generation'
  BY <2>1, ShownRests
<2> QED  BY <2>1, <2>2, <2>5, <2>6 DEF LogInv
<1>4. CASE ParseLine
<2>1. /\ polled # <<>> /\ polled' = Tail(polled)
      /\ UNCHANGED <<buf, written, generation, shown, cleared, pollFrom, polling, posted, download, clicks>>
  BY <1>4 DEF ParseLine
<2>2. Head(polled) \in Line /\ polled' \in Seq(Line)
  BY <2>1, HeadTailProperties DEF LogInv
<2>3. progress' \in [active : BOOLEAN, count : 0 .. Sources]
  BY <1>4, <2>2, ParsedType, Zenon DEF ParseLine
<2>4. \A i \in DOMAIN polled' : polled'[i] \in Line
<3>1. PICK v \in Seq(Line) : v = polled'
  BY <2>2
<3>2. DOMAIN v = 1 .. Len(v) /\ \A i \in 1 .. Len(v) : v[i] \in Line
  BY LenProperties, ElementOfSeq
<3> QED  BY <3>1, <3>2
<2>5. LogTypeOK'
  BY <2>1, <2>3, <2>4 DEF LogInv, LogTypeOK
<2>6. /\ LatestShown' /\ shown' \in Seq(Line)
      /\ \A i \in DOMAIN shown' : shown'[i].n < generation'
  BY <2>1, ShownRests
<2> QED  BY <2>1, <2>2, <2>5, <2>6 DEF LogInv
<1>5. CASE Polled
<2>1. /\ polling' = FALSE /\ pollFrom' = written
      /\ UNCHANGED <<buf, written, generation, shown, cleared, polled, progress, posted, download, clicks>>
  BY <1>5 DEF Polled
<2>2. pollFrom' \in 0 .. written'
  BY <1>0, <2>1
<2>3. LogTypeOK'
  BY <2>1, <2>2 DEF LogInv, LogTypeOK
<2>4. /\ LatestShown' /\ shown' \in Seq(Line)
      /\ \A i \in DOMAIN shown' : shown'[i].n < generation'
  BY <2>1, ShownRests
<2> QED  BY <2>1, <2>3, <2>4 DEF LogInv
<1>6. CASE DownloadConfigsFromSources
<2>1. /\ clicks < MaxClicks /\ clicks' = clicks + 1 /\ posted' = posted + 1
      /\ progress' = [active |-> TRUE, count |-> 0]
      /\ UNCHANGED <<buf, written, generation, shown, cleared, pollFrom, polled, polling, download>>
  BY <1>6 DEF DownloadConfigsFromSources
<2>2. /\ progress' \in [active : BOOLEAN, count : 0 .. Sources]
      /\ clicks' \in 0 .. MaxClicks /\ posted' \in 0 .. MaxClicks /\ posted' <= clicks'
  BY <1>0, <2>1 DEF LogInv, LogTypeOK
<2>3. LogTypeOK'
  BY <2>1, <2>2 DEF LogInv, LogTypeOK
<2>4. /\ LatestShown' /\ shown' \in Seq(Line)
      /\ \A i \in DOMAIN shown' : shown'[i].n < generation'
  BY <2>1, ShownRests
<2> QED  BY <2>1, <2>2, <2>3, <2>4 DEF LogInv
<1>7. CASE StartDownload
<2>1. /\ posted > 0 /\ posted' = posted - 1
      /\ download' \in {NoDownload, [at |-> "start", done |-> 0], download}
      /\ UNCHANGED <<buf, written, generation, shown, cleared, pollFrom, polled, polling, progress, clicks>>
  BY <1>7 DEF StartDownload
<2>2. /\ download' \in [at : {"off", "start", "next", "source"}, done : 0 .. Sources]
      /\ download'.at = "source" => download'.done < Sources
  BY <1>0, <2>1 DEF LogInv, NoDownload
<2>3. posted' \in 0 .. MaxClicks /\ posted' <= clicks'
  BY <1>0, <2>1 DEF LogInv, LogTypeOK
<2>4. LogTypeOK'
  BY <2>1, <2>2, <2>3 DEF LogInv, LogTypeOK
<2>5. /\ LatestShown' /\ shown' \in Seq(Line)
      /\ \A i \in DOMAIN shown' : shown'[i].n < generation'
  BY <2>1, ShownRests
<2> QED  BY <2>1, <2>2, <2>3, <2>4, <2>5 DEF LogInv
<1>8. CASE Starting
<2>1. PICK to : to = [download EXCEPT !.at = "next"]
  OBVIOUS
<2>2. /\ to \in [at : {"off", "start", "next", "source"}, done : 0 .. Sources]
      /\ to.at # "source" /\ 0 \in 0 .. Sources
  BY <1>0, <2>1
<2> QED  BY <1>8, <2>1, <2>2, Emitted DEF Starting, Kind
<1>9. CASE Downloading
<2>1. PICK to : to = [download EXCEPT !.at = "source"]
  OBVIOUS
<2>2. /\ to \in [at : {"off", "start", "next", "source"}, done : 0 .. Sources]
      /\ to.done < Sources /\ download.done \in 0 .. Sources
  BY <1>0, <1>9, <2>1 DEF Downloading
<2> QED  BY <1>9, <2>1, <2>2, Emitted DEF Downloading, Kind
<1>10. CASE SourceDone
<2>1. PICK kind \in {"completed", "progress"} :
          Emit("source", kind, download.done + 1, [at |-> "next", done |-> download.done + 1])
  BY <1>10 DEF SourceDone
<2>2. download.at = "source"
  BY <2>1 DEF Emit
<2>3. PICK d \in 0 .. Sources : d = download.done + 1
  BY <1>0, <2>2 DEF LogInv
<2>4. PICK to : to = [at |-> "next", done |-> d]
  OBVIOUS
<2>5. /\ to \in [at : {"off", "start", "next", "source"}, done : 0 .. Sources]
      /\ to.at # "source"
  BY <2>4
<2>6. Emit("source", kind, d, to)
  BY <2>1, <2>3, <2>4
<2> QED  BY <2>5, <2>6, Emitted DEF Kind
<1>11. CASE Stopped
<2>1. /\ NoDownload \in [at : {"off", "start", "next", "source"}, done : 0 .. Sources]
      /\ NoDownload.at # "source" /\ download.done \in 0 .. Sources
  BY <1>0 DEF NoDownload
<2> QED  BY <1>11, <2>1, Emitted DEF Stopped, Kind
<1>12. CASE Finished
<2>1. /\ NoDownload \in [at : {"off", "start", "next", "source"}, done : 0 .. Sources]
      /\ NoDownload.at # "source" /\ Sources \in 0 .. Sources
  BY <1>0 DEF NoDownload
<2> QED  BY <1>12, <2>1, Emitted DEF Finished, Kind
<1>13. CASE UNCHANGED logVars
<2>1. UNCHANGED <<buf, written, generation, shown, cleared, pollFrom, polled, polling, progress,
                  posted, download, clicks>>
  BY <1>13 DEF logVars
<2>2. LogTypeOK'
  BY <2>1 DEF LogInv, LogTypeOK
<2>3. /\ LatestShown' /\ shown' \in Seq(Line)
      /\ \A i \in DOMAIN shown' : shown'[i].n < generation'
  BY <2>1, ShownRests
<2> QED  BY <2>1, <2>2, <2>3 DEF LogInv
<1>14. CASE Clear
<2>1. /\ shown' = <<>> /\ cleared' = generation
      /\ UNCHANGED <<buf, written, generation, pollFrom, polled, polling, progress, posted,
                      download, clicks>>
  BY <1>14 DEF Clear
<2>2. shown' \in Seq(Line) /\ DOMAIN shown' = {}
  BY <2>1, EmptySeq
<2>3. cleared' \in 0 .. generation' /\ generation' - cleared' = 0
  BY <1>0, <2>1
<2>4. LogTypeOK'
  BY <2>1, <2>2, <2>3 DEF LogInv, LogTypeOK
<2>5. Lesser(FrameMax, generation' - cleared') = 0
  BY <2>3, LogViewAssumption DEF Lesser
<2>6. LatestShown'
  BY <2>2, <2>5 DEF LatestShown
<2> QED  BY <2>1, <2>2, <2>4, <2>6 DEF LogInv
<1> QED
  BY <1>1, <1>2, <1>3, <1>4, <1>5, <1>6, <1>7, <1>8, <1>9, <1>10, <1>11, <1>12, <1>13, <1>14
     DEF LogNext

-----------------------------------------------------------------------------
(* The settings and the sources.                                           *)

Status == {"no", "off", "on"}
CommandRecord == [at : Nat, keys : {<<>>, Keys, <<"path">>}, new : Config, changed : BOOLEAN]

(* The type invariant, with the commands and the form in full.             *)
PrefShape ==
    /\ list \in [Url -> Status] /\ tsv \in [Url -> Status]
    /\ text \in (SUBSET Url) \cup {Garbled}
    /\ conf \in Config /\ file \in Config
    /\ engine \in Path \cup {""} /\ asked \in Path \cup {"", Unknown}
    /\ form \in [at : 0 .. 5, new : Config]
    /\ queue \in Seq(Config) /\ Len(queue) <= MaxQueue
    /\ form.at # 0 => Len(queue) < MaxQueue
    /\ command \in [Thread -> CommandRecord]
    /\ \A t \in Thread : command[t].at <= Len(command[t].keys) + 1
    /\ command["window"].at # 0 => command["window"].keys = Keys
    /\ acts \in 0 .. MaxActs

(* What the two files say of the sources together, but for the moment in   *)
(* which Apply has written one of them.                                    *)
Remembered ==
    form.at # 5 /\ file.urls \notin {Unset, {}} =>
        \A u \in Url : list[u] # "no" => Loaded(tsv, Reread(file))[u] = list[u]

(* The path the user applied last is at the end of the queue, then with    *)
(* the command worker, and then in the configuration, where a form that is *)
(* being stored may replace it.                                            *)
PathInHand ==
    asked \in Path =>
        /\ command["file"].at = 0
        /\ queue # <<>> => queue[Len(queue)].path = asked
        /\ queue = <<>> /\ command["window"].at # 0 => command["window"].new.path = asked
        /\ queue = <<>> /\ command["window"].at # 1 /\ form.at <= 1 => conf.path = asked

PrefInv == PrefShape /\ Remembered /\ PathInHand

LEMMA SeededType ==
    ASSUME NEW rows \in [Url -> Status]
    PROVE  /\ Seeded(rows) \in [Url -> Status]
           /\ Seeded(Seeded(rows)) = Seeded(rows)
           /\ \A u \in Url : rows[u] # "no" => Seeded(rows) = rows
<1>1. StandardList \in [Url -> Status]
  BY DEF StandardList, Status
<1>2. \A r : (\E u \in Url : r[u] # "no") => Seeded(r) = r
  BY DEF Seeded
<1>3. \A r : ~(\E u \in Url : r[u] # "no") => Seeded(r) = StandardList
  BY DEF Seeded
<1>4. Seeded(rows) = rows \/ Seeded(rows) = StandardList
  BY <1>2, <1>3
<1>5. Seeded(StandardList) = StandardList
  BY <1>2, <1>3
<1>6. Seeded(Seeded(rows)) = Seeded(rows)
  BY <1>2, <1>3, <1>5
<1> QED  BY <1>1, <1>2, <1>4, <1>6

(* LoadSourceManager without cases.                                        *)
LEMMA LoadedIs ==
    ASSUME NEW rows \in [Url -> Status], NEW c, NEW u \in Url
    PROVE  Loaded(rows, c)[u] =
             IF u \in GithubUrls(c) THEN "on"
             ELSE IF Seeded(rows)[u] # "no"
                  THEN IF GithubUrls(c) \cap Url = {} THEN Seeded(rows)[u] ELSE "off"
                  ELSE IF u \in Standard THEN "on" ELSE "no"
<1> DEFINE base == Seeded(rows)
           configured == GithubUrls(c) \cap Url
           One(v) == CASE v \in configured -> "on"
                       [] v \notin configured /\ base[v] # "no" ->
                              IF configured = {} THEN base[v] ELSE "off"
                       [] OTHER -> IF v \in Standard THEN "on" ELSE "no"
<1>1. Loaded(rows, c) = [v \in Url |-> One(v)]
  BY Zenon DEF Loaded
<1>2. Loaded(rows, c)[u] = One(u)
  <2> HIDE DEF One
  <2> QED  BY <1>1
<1>3. u \in configured => One(u) = "on"
  BY Zenon
<1>4. u \notin configured /\ base[u] # "no" => One(u) = IF configured = {} THEN base[u] ELSE "off"
  BY Zenon
<1>5. u \notin configured /\ base[u] = "no" => One(u) = IF u \in Standard THEN "on" ELSE "no"
  BY Zenon
<1> HIDE DEF One, base
<1>6. u \in configured <=> u \in GithubUrls(c)
  OBVIOUS
<1>7. base = Seeded(rows)
  BY DEF base
<1> QED  BY <1>2, <1>3, <1>4, <1>5, <1>6, <1>7

LEMMA LoadedType ==
    ASSUME NEW rows \in [Url -> Status], NEW c
    PROVE  Loaded(rows, c) \in [Url -> Status]
<1>1. DOMAIN Loaded(rows, c) = Url /\ Loaded(rows, c) = [u \in Url |-> Loaded(rows, c)[u]]
  BY DEF Loaded
<1>2. ASSUME NEW u \in Url PROVE Loaded(rows, c)[u] \in Status
  BY LoadedIs, SeededType DEF Status
<1> QED  BY <1>1, <1>2

(* The configurations a stored value makes.                                *)
Urls == (SUBSET Url) \cup {Unset, Garbled}

LEMMA ConfigIs ==
    /\ Config = [path : Path \cup {""}, total : Total \cup {0}, urls : Urls]
    /\ Unset \in Urls /\ Garbled \in Urls /\ \A S \in SUBSET Url : S \in Urls
BY DEF Config, Urls

LEMMA ConfigEdits ==
    ASSUME NEW c \in Config
    PROVE  /\ \A v \in Urls : /\ [c EXCEPT !.urls = v] \in Config
                             /\ [c EXCEPT !.urls = v].path = c.path
                             /\ [c EXCEPT !.urls = v].urls = v
           /\ \A v \in Total \cup {0} : /\ [c EXCEPT !.total = v] \in Config
                                      /\ [c EXCEPT !.total = v].path = c.path
                                      /\ [c EXCEPT !.total = v].urls = c.urls
           /\ \A v \in Path \cup {""} : /\ [c EXCEPT !.path = v] \in Config
                                      /\ [c EXCEPT !.path = v].path = v
                                      /\ [c EXCEPT !.path = v].urls = c.urls
<1>1. PICK P, T : P = Path \cup {""} /\ T = Total \cup {0}
  OBVIOUS
<1>2. Config = [path : P, total : T, urls : Urls]
  BY <1>1, ConfigIs
<1>3. c \in [path : P, total : T, urls : Urls]
  BY <1>2
<1>4. \A v \in Urls : /\ [c EXCEPT !.urls = v] \in [path : P, total : T, urls : Urls]
                     /\ [c EXCEPT !.urls = v].path = c.path
                     /\ [c EXCEPT !.urls = v].urls = v
  BY <1>3
<1>5. \A v \in T : /\ [c EXCEPT !.total = v] \in [path : P, total : T, urls : Urls]
                  /\ [c EXCEPT !.total = v].path = c.path
                  /\ [c EXCEPT !.total = v].urls = c.urls
  BY <1>3
<1>6. \A v \in P : /\ [c EXCEPT !.path = v] \in [path : P, total : T, urls : Urls]
                  /\ [c EXCEPT !.path = v].path = v
                  /\ [c EXCEPT !.path = v].urls = c.urls
  BY <1>3
<1> QED  BY <1>1, <1>2, <1>4, <1>5, <1>6

(* A list that has been through the configuration file names no source.    *)
LEMMA GarbledIs ==
    ASSUME NEW c \in Config
    PROVE  /\ Reread(c) \in Config
           /\ GithubUrls(Reread(c)) \in (SUBSET Url) \cup {Garbled}
           /\ c.urls \notin {Unset, {}} => GithubUrls(Reread(c)) = Garbled
           /\ Garbled \cap Url = {}
<1>1. Garbled \cap Url = {}
  BY PreferencesAssumption DEF Garbled, Url
<1>2. Garbled \notin {Unset, {}}
  BY DEF Garbled, Unset
<1>3. Reread(c) \in Config
<2>1. PICK v : v = IF c.urls \in {Unset, {}} THEN c.urls ELSE Garbled
  OBVIOUS
<2>2. Reread(c) = [c EXCEPT !.urls = v]
  BY <2>1 DEF Reread
<2>3. v \in Urls
  BY <2>1, ConfigIs
<2> QED  BY <2>2, <2>3, ConfigEdits
<1>4. c.urls \notin {Unset, {}} => Reread(c).urls = Garbled
  BY DEF Reread, Config
<1>5. c.urls \in {Unset, {}} => Reread(c).urls = c.urls
  BY DEF Reread, Config
<1>6. Standard \in SUBSET Url
  BY DEF Url
<1>7. c.urls \notin {Unset, {}} => GithubUrls(Reread(c)) = Garbled
  BY <1>2, <1>4 DEF GithubUrls
<1>8. c.urls \in {Unset, {}} => GithubUrls(Reread(c)) = Standard
  BY <1>5 DEF GithubUrls
<1>9. GithubUrls(Reread(c)) \in {Standard, Garbled}
  BY <1>7, <1>8
<1>10. Standard \in (SUBSET Url) \cup {Garbled}
  BY <1>6
<1>11. Garbled \in (SUBSET Url) \cup {Garbled}
  OBVIOUS
<1> QED  BY <1>1, <1>3, <1>7, <1>9, <1>10, <1>11

(* What the files bring back of a source.                                  *)
LEMMA BroughtBack ==
    ASSUME NEW rows \in [Url -> Status], NEW c \in Config, c.urls \notin {Unset, {}},
           NEW u \in Url
    PROVE  Loaded(rows, Reread(c))[u] =
             IF Seeded(rows)[u] # "no" THEN Seeded(rows)[u]
             ELSE IF u \in Standard THEN "on" ELSE "no"
<1>1. GithubUrls(Reread(c)) = Garbled /\ Garbled \cap Url = {}
  BY GarbledIs
<1>2. u \notin Garbled
  BY <1>1
<1> QED  BY <1>1, <1>2, LoadedIs

LEMMA NoFormType == NoForm \in [at : 0 .. 5, new : Config] /\ NoForm.at = 0
<1>1. Defaults \in Config
<2>1. "first" \in Path \cup {""} /\ Plenty \in Total \cup {0}
  BY DEF Path, Total
<2> QED  BY <2>1, ConfigIs DEF Defaults
<1> QED  BY <1>1 DEF NoForm

LEMMA NoCommandType ==
    /\ NoCommand \in CommandRecord /\ NoCommand.at = 0 /\ NoCommand.keys = <<>>
    /\ Defaults \in Config
<1>1. Defaults \in Config
<2>1. "first" \in Path \cup {""} /\ Plenty \in Total \cup {0}
  BY DEF Path, Total
<2> QED  BY <2>1, ConfigIs DEF Defaults
<1> QED  BY <1>1 DEF NoCommand, CommandRecord

LEMMA PrefInitInv == PrefInit => PrefInv
<1> SUFFICES ASSUME PrefInit PROVE PrefInv
  OBVIOUS
<1>1. /\ file = Defaults /\ conf = Defaults /\ tsv = StandardList /\ list = Loaded(tsv, conf)
      /\ text = GithubUrls(conf) /\ engine = Defaults.path /\ form = NoForm /\ queue = <<>>
      /\ asked = Unknown /\ acts = 0 /\ command = [t \in Thread |-> NoCommand]
  BY DEF PrefInit
<1>2. /\ Defaults \in Config /\ Defaults.path = "first" /\ Defaults.urls = Unset
<2>1. "first" \in Path \cup {""} /\ Plenty \in Total \cup {0}
  BY DEF Path, Total
<2> QED  BY <2>1, ConfigIs DEF Defaults
<1>3. GithubUrls(Defaults) = Standard /\ Standard \in SUBSET Url
  BY <1>2 DEF GithubUrls, Url
<1>4. tsv \in [Url -> Status] /\ list \in [Url -> Status]
  BY <1>1, LoadedType DEF StandardList, Status
<1>5. form \in [at : 0 .. 5, new : Config] /\ form.at = 0
  BY <1>1, <1>2 DEF NoForm
<1>6. /\ NoCommand \in CommandRecord /\ NoCommand.at = 0 /\ NoCommand.keys = <<>>
  BY <1>2 DEF NoCommand, CommandRecord
<1>7. /\ command \in [Thread -> CommandRecord]
      /\ \A t \in Thread : command[t].at = 0 /\ command[t].keys = <<>>
  BY <1>1, <1>6
<1>8. queue \in Seq(Config) /\ Len(queue) = 0 /\ DOMAIN queue = {}
  BY <1>1, EmptySeq
<1>10. PrefShape
<2>1. Len(queue) <= MaxQueue /\ acts \in 0 .. MaxActs
  BY <1>1, <1>8, PreferencesAssumption
<2>2. engine \in Path \cup {""} /\ asked \in Path \cup {"", Unknown}
  BY <1>1, <1>2 DEF Path
<2>3. \A t \in Thread : command[t].at <= Len(command[t].keys) + 1
  BY <1>7, EmptySeq
<2>4. text \in (SUBSET Url) \cup {Garbled} /\ conf \in Config /\ file \in Config
  BY <1>1, <1>2, <1>3
<2> QED  BY <1>4, <1>5, <1>7, <1>8, <2>1, <2>2, <2>3, <2>4 DEF PrefShape, Thread
<1>11. Remembered
  BY <1>1, <1>2 DEF Remembered
<1>12. PathInHand
  BY <1>1 DEF PathInHand, Path, Unknown
<1> QED  BY <1>10, <1>11, <1>12 DEF PrefInv

LEMMA ShapeTypes == PrefShape => PrefTypeOK
<1> SUFFICES ASSUME PrefShape PROVE PrefTypeOK
  OBVIOUS
<1>1. \A i \in DOMAIN queue : queue[i] \in Config
  BY LenProperties, ElementOfSeq DEF PrefShape
<1>2. ASSUME NEW r \in CommandRecord PROVE r.at \in Nat /\ Len(r.keys) \in Nat
<2>1. r.keys = <<>> \/ r.keys = Keys \/ r.keys = <<"path">>
  BY DEF CommandRecord
<2>2. Len(<<>>) = 0 /\ Len(Keys) = 3 /\ Len(<<"path">>) = 1
  BY DEF Keys
<2> QED  BY <2>1, <2>2 DEF CommandRecord
<1>3. ASSUME NEW t \in Thread PROVE command[t].at \in 0 .. Len(command[t].keys) + 1
<2>1. command[t] \in CommandRecord /\ command[t].at <= Len(command[t].keys) + 1
  BY DEF PrefShape
<2>2. command[t].at \in Nat /\ Len(command[t].keys) \in Nat
  BY <1>2, <2>1
<2> QED  BY <2>1, <2>2
<1>4. form.at \in 0 .. 5 /\ form.new \in Config
  BY DEF PrefShape
<1> QED  BY <1>1, <1>3, <1>4 DEF PrefShape, PrefTypeOK, Status

(* The file of sources and the list are written together.                  *)
LEMMA SavedTogether ==
    ASSUME PrefInv, NEW l \in [Url -> Status], SaveSources(l), file' = file
    PROVE  /\ list' \in [Url -> Status] /\ tsv' \in [Url -> Status]
           /\ text' \in (SUBSET Url) \cup {Garbled}
           /\ conf' \in Config /\ conf'.path = conf.path
           /\ file'.urls \notin {Unset, {}} =>
                 \A u \in Url : list'[u] # "no" => Loaded(tsv', Reread(file'))[u] = list'[u]
<1>1. list' = l /\ tsv' = l /\ text' = Enabled(l) /\ conf' = [conf EXCEPT !.urls = Enabled(l)]
  BY DEF SaveSources
<1>2. Enabled(l) \in SUBSET Url
  BY DEF Enabled
<1>3. conf \in Config /\ file \in Config
  BY DEF PrefInv, PrefShape
<1>4. conf' \in Config /\ conf'.path = conf.path
  BY <1>1, <1>2, <1>3, ConfigIs, ConfigEdits
<1>5. ASSUME file.urls \notin {Unset, {}}, NEW u \in Url, l[u] # "no"
      PROVE  Loaded(l, Reread(file))[u] = l[u]
<2>1. Seeded(l) = l
  BY <1>5, SeededType
<2> QED  BY <1>3, <1>5, <2>1, BroughtBack
<1> QED  BY <1>1, <1>2, <1>4, <1>5

LEMMA SourcesChanged ==
    ASSUME PrefInv, NEW l \in [Url -> Status], ChangeSources(l)
    PROVE  PrefInv'
<1>1. /\ form.at = 0 /\ acts < MaxActs /\ acts' = acts + 1
      /\ SaveSources(l) /\ UNCHANGED <<file, engine, form, queue, command, asked>>
  BY DEF ChangeSources, Acts
<1>2. /\ list' \in [Url -> Status] /\ tsv' \in [Url -> Status]
      /\ text' \in (SUBSET Url) \cup {Garbled}
      /\ conf' \in Config /\ conf'.path = conf.path
      /\ file'.urls \notin {Unset, {}} =>
            \A u \in Url : list'[u] # "no" => Loaded(tsv', Reread(file'))[u] = list'[u]
  BY <1>1, SavedTogether
<1>0. acts \in 0 .. MaxActs
  BY DEF PrefInv, PrefShape
<1>3. acts' \in 0 .. MaxActs
  BY <1>0, <1>1, PreferencesAssumption
<1>4. PrefShape'
  BY <1>1, <1>2, <1>3 DEF PrefInv, PrefShape
<1>5. Remembered'
  BY <1>2 DEF Remembered
<1>6. PathInHand'
  BY <1>1, <1>2 DEF PrefInv, PathInHand
<1> QED  BY <1>4, <1>5, <1>6 DEF PrefInv

(* ApplyAdvancedSettings has begun with the values d.                      *)
LEMMA FormBegun ==
    ASSUME PrefInv, NEW d \in Config, form' = [at |-> 1, new |-> d], form.at = 0,
           text' \in (SUBSET Url) \cup {Garbled}, acts < MaxActs, acts' = acts + 1,
           Len(queue) < MaxQueue,
           UNCHANGED <<list, conf, file, tsv, engine, queue, command, asked>>
    PROVE  PrefInv'
<1>1. /\ list' = list /\ conf' = conf /\ file' = file /\ tsv' = tsv /\ engine' = engine
      /\ queue' = queue /\ command' = command /\ asked' = asked
  OBVIOUS
<1>2. form' \in [at : 0 .. 5, new : Config] /\ form'.at = 1
  OBVIOUS
<1>3. acts \in 0 .. MaxActs
  BY DEF PrefInv, PrefShape
<1>4. acts' \in 0 .. MaxActs
  BY <1>3, PreferencesAssumption
<1>5. PrefShape'
  BY <1>1, <1>2, <1>4 DEF PrefInv, PrefShape
<1>6. Remembered'
  BY <1>1, <1>2 DEF PrefInv, Remembered
<1>7. PathInHand'
  BY <1>1, <1>2 DEF PrefInv, PathInHand
<1> QED  BY <1>5, <1>6, <1>7 DEF PrefInv

LEMMA Applied ==
    ASSUME PrefInv, NEW p \in Path \cup {""}, NEW n \in Total \cup {0}, Apply(p, n)
    PROVE  PrefInv'
<1>1. PICK us : us = IF Enabled(list) # {} THEN Enabled(list) ELSE text
  OBVIOUS
<1>2. /\ form.at = 0 /\ acts < MaxActs /\ acts' = acts + 1 /\ text' = us
      /\ Len(queue) < MaxQueue
      /\ UNCHANGED <<list, conf, file, tsv, engine, queue, command, asked>>
  BY <1>1 DEF Apply, Acts
<1>3. form' = [at |-> 1, new |-> [path |-> p, total |-> n, urls |-> us]]
  BY <1>1 DEF Apply
<1>4. Enabled(list) \in SUBSET Url /\ text \in (SUBSET Url) \cup {Garbled}
  BY DEF Enabled, PrefInv, PrefShape
<1>5. us \in (SUBSET Url) \cup {Garbled} /\ us \in Urls
  BY <1>1, <1>4, ConfigIs
<1>6. [path |-> p, total |-> n, urls |-> us] \in Config
  BY <1>5, ConfigIs
<1> QED  BY Zenon, FormBegun, <1>2, <1>3, <1>5, <1>6

LEMMA KeyIs ==
    /\ DOMAIN Keys = 1 .. 3 /\ Len(Keys) = 3
    /\ Keys[1] = "path" /\ Keys[2] = "total" /\ Keys[3] = "urls"
    /\ DOMAIN <<"path">> = 1 .. 1 /\ Len(<<"path">>) = 1
    /\ Len(<<>>) = 0 /\ DOMAIN <<>> = {}
    /\ \A i \in 1 .. 3 : i = 1 \/ i = 2 \/ i = 3
<1>1. DOMAIN <<>> = {}
  BY EmptySeq
<1> QED  BY <1>1 DEF Keys

(* Storing one value of a configuration.                                   *)
LEMMA StoredKey ==
    ASSUME NEW c \in Config, NEW d \in Config, NEW k \in {"path", "total", "urls"}
    PROVE  /\ [c EXCEPT ![k] = d[k]] \in Config
           /\ [c EXCEPT ![k] = d[k]].path = IF k = "path" THEN d.path ELSE c.path
<1>1. d.path \in Path \cup {""} /\ d.total \in Total \cup {0} /\ d.urls \in Urls
  BY ConfigIs
<1>2. CASE k = "path"
<2>1. [c EXCEPT ![k] = d[k]] = [c EXCEPT !.path = d.path]
  BY <1>2
<2>2. [c EXCEPT !.path = d.path] \in Config /\ [c EXCEPT !.path = d.path].path = d.path
  BY <1>1, ConfigEdits
<2> QED  BY <1>2, <2>1, <2>2
<1>3. CASE k = "total"
<2>1. [c EXCEPT ![k] = d[k]] = [c EXCEPT !.total = d.total]
  BY <1>3
<2>2. [c EXCEPT !.total = d.total] \in Config /\ [c EXCEPT !.total = d.total].path = c.path
  BY <1>1, ConfigEdits
<2> QED  BY <1>3, <2>1, <2>2
<1>4. CASE k = "urls"
<2>1. [c EXCEPT ![k] = d[k]] = [c EXCEPT !.urls = d.urls]
  BY <1>4
<2>2. [c EXCEPT !.urls = d.urls] \in Config /\ [c EXCEPT !.urls = d.urls].path = c.path
  BY <1>1, ConfigEdits
<2> QED  BY <1>4, <2>1, <2>2
<1> QED  BY <1>2, <1>3, <1>4

LEMMA FormKeyStored ==
    ASSUME PrefInv, ApplyKey
    PROVE  PrefInv'
<1>1. /\ form.at \in DOMAIN Keys
      /\ conf' = [conf EXCEPT ![Keys[form.at]] = form.new[Keys[form.at]]]
      /\ form' = [form EXCEPT !.at = @ + 1]
      /\ UNCHANGED <<list, text, file, tsv, engine, queue, command, asked, acts>>
  BY DEF ApplyKey
<1>2. conf \in Config /\ form \in [at : 0 .. 5, new : Config]
  BY DEF PrefInv, PrefShape
<1>3. form.at \in 1 .. 3 /\ Keys[form.at] \in {"path", "total", "urls"}
  BY <1>1, KeyIs
<1>4. conf' \in Config
  BY <1>1, <1>2, <1>3, StoredKey
<1>5. form' \in [at : 0 .. 5, new : Config] /\ form'.at = form.at + 1
  BY <1>1, <1>2, <1>3
<1>6. form'.at > 1 /\ form'.at # 5 /\ form.at # 5
  BY <1>3, <1>5
<1>10. form.at # 0 => Len(queue) < MaxQueue
  BY DEF PrefInv, PrefShape
<1>11. queue' = queue /\ form.at # 0
  BY <1>1, <1>3
<1>7. PrefShape'
<2>1. form'.at # 0 => Len(queue') < MaxQueue
  BY <1>10, <1>11
<2> QED  BY <1>1, <1>4, <1>5, <2>1 DEF PrefInv, PrefShape
<1>8. Remembered'
  BY <1>1, <1>6 DEF PrefInv, Remembered
<1>9. PathInHand'
  BY <1>1, <1>6 DEF PrefInv, PathInHand
<1> QED  BY <1>7, <1>8, <1>9 DEF PrefInv

LEMMA FormSaved ==
    ASSUME PrefInv, SaveConfigToDisk
    PROVE  PrefInv'
<1>1. /\ form.at = 4 /\ file' = conf /\ form' = [form EXCEPT !.at = 5]
      /\ UNCHANGED <<list, text, conf, tsv, engine, queue, command, asked, acts>>
  BY DEF SaveConfigToDisk
<1>6. form \in [at : 0 .. 5, new : Config]
  BY DEF PrefInv, PrefShape
<1>2. form' \in [at : 0 .. 5, new : Config] /\ form'.at = 5
  BY <1>1, <1>6
<1>7. form.at # 0 => Len(queue) < MaxQueue
  BY DEF PrefInv, PrefShape
<1>3. PrefShape'
<2>1. form'.at # 0 => Len(queue') < MaxQueue
  BY <1>1, <1>7
<2> QED  BY <1>1, <1>2, <2>1 DEF PrefInv, PrefShape
<1>4. Remembered'
  BY <1>2 DEF Remembered
<1>5. PathInHand'
  BY <1>1, <1>2 DEF PrefInv, PathInHand
<1> QED  BY <1>3, <1>4, <1>5 DEF PrefInv

(* The command worker and the window, at the end of Apply.                 *)
LEMMA QueueGrows ==
    ASSUME NEW S, NEW q \in Seq(S), NEW d \in S
    PROVE  /\ Append(q, d) \in Seq(S) /\ Append(q, d) # <<>>
           /\ Len(Append(q, d)) = Len(q) + 1
           /\ Append(q, d)[Len(Append(q, d))] = d
BY AppendProperties, LenProperties

LEMMA QueueShrinks ==
    ASSUME NEW S, NEW q \in Seq(S), q # <<>>
    PROVE  /\ Tail(q) \in Seq(S) /\ Len(Tail(q)) = Len(q) - 1
           /\ Head(q) \in S
           /\ Tail(q) = <<>> => Head(q) = q[Len(q)]
           /\ Tail(q) # <<>> => Tail(q)[Len(Tail(q))] = q[Len(q)]
<1>1. Tail(q) \in Seq(S) /\ Len(Tail(q)) = Len(q) - 1 /\ Head(q) \in S /\ Head(q) = q[1]
  BY HeadTailProperties
<1>2. Len(q) \in Nat /\ Len(q) # 0
  BY LenProperties, EmptySeq
<1>3. Tail(q) = <<>> => Len(q) = 1
<2>1. Tail(q) = <<>> => Len(Tail(q)) = 0
  BY EmptySeq
<2> QED  BY <1>1, <1>2, <2>1
<1>4. ASSUME Tail(q) # <<>> PROVE Tail(q)[Len(Tail(q))] = q[Len(q)]
<2>1. Len(Tail(q)) \in Nat /\ Len(Tail(q)) # 0
  BY <1>1, <1>4, LenProperties, EmptySeq
<2>2. \A i \in 1 .. Len(Tail(q)) : Tail(q)[i] = q[i + 1]
  BY HeadTailProperties
<2> QED  BY <1>1, <1>2, <2>1, <2>2
<1> QED  BY <1>1, <1>2, <1>3, <1>4

LEMMA Sent ==
    ASSUME PrefInv, RunCommandAsync
    PROVE  PrefInv'
<1>1. /\ form.at = 5 /\ SaveSources(list) /\ queue' = Append(queue, form.new)
      /\ form' = NoForm
      /\ asked' = IF command["file"].at = 0 THEN form.new.path ELSE Unknown
      /\ UNCHANGED <<file, engine, command, acts>>
  BY DEF RunCommandAsync
<1>12. form.at # 0 => Len(queue) < MaxQueue
  BY DEF PrefInv, PrefShape
<1>13. Len(queue) < MaxQueue
  BY <1>1, <1>12
<1>2. /\ list \in [Url -> Status] /\ form \in [at : 0 .. 5, new : Config]
      /\ queue \in Seq(Config)
  BY DEF PrefInv, PrefShape
<1>3. form.new \in Config /\ form.new.path \in Path \cup {""}
  BY <1>2, ConfigIs
<1>4. /\ list' \in [Url -> Status] /\ tsv' \in [Url -> Status]
      /\ text' \in (SUBSET Url) \cup {Garbled}
      /\ conf' \in Config /\ conf'.path = conf.path
      /\ file'.urls \notin {Unset, {}} =>
            \A u \in Url : list'[u] # "no" => Loaded(tsv', Reread(file'))[u] = list'[u]
  BY <1>1, <1>2, SavedTogether
<1>15. /\ Append(queue, form.new) \in Seq(Config) /\ Append(queue, form.new) # <<>>
       /\ Len(Append(queue, form.new)) = Len(queue) + 1
       /\ Append(queue, form.new)[Len(Append(queue, form.new))] = form.new
<2>1. queue \in Seq(Config) /\ form.new \in Config
  BY <1>2, <1>3
<2> QED  BY <2>1, QueueGrows
<1>5. /\ queue' \in Seq(Config) /\ queue' # <<>> /\ Len(queue') = Len(queue) + 1
      /\ queue'[Len(queue')] = form.new
  BY Zenon, <1>1, <1>15
<1>14. Len(queue) \in Nat
  BY <1>2, LenProperties
<1>6. Len(queue') <= MaxQueue
  BY <1>5, <1>13, <1>14, PreferencesAssumption
<1>7. form' \in [at : 0 .. 5, new : Config] /\ form'.at = 0
  BY <1>1, NoFormType
<1>8. asked' \in Path \cup {"", Unknown} /\ (asked' \in Path => command["file"].at = 0 /\ asked' = form.new.path)
  BY <1>1, <1>3 DEF Path, Unknown
<1>9. PrefShape'
  BY <1>1, <1>4, <1>5, <1>6, <1>7, <1>8 DEF PrefInv, PrefShape
<1>10. Remembered'
  BY <1>4 DEF Remembered
<1>11. PathInHand'
  BY <1>1, <1>5, <1>8 DEF PathInHand
<1> QED  BY <1>9, <1>10, <1>11 DEF PrefInv

(* A thread begins with a command; nothing is stored yet.                  *)
LEMMA Begun ==
    ASSUME PrefInv, NEW t \in Thread, NEW keys \in {Keys, <<"path">>}, NEW d \in Config,
           Begin(t, keys, d)
    PROVE  /\ command' \in [Thread -> CommandRecord]
           /\ command'[t].at = 1 /\ command'[t].keys = keys /\ command'[t].new = d
           /\ \A u \in Thread : u # t => command'[u] = command[u]
           /\ \A u \in Thread : command'[u].at <= Len(command'[u].keys) + 1
           /\ UNCHANGED <<list, text, conf, file, tsv, engine, form>>
<1>1. PICK r : r = [at |-> 1, keys |-> keys, new |-> d, changed |-> FALSE]
  OBVIOUS
<1>2. r \in CommandRecord /\ r.at = 1 /\ r.keys = keys /\ r.new = d
  BY <1>1 DEF CommandRecord
<1>3. command' = [command EXCEPT ![t] = r]
  BY <1>1 DEF Begin
<1>4. command \in [Thread -> CommandRecord]
  BY DEF PrefInv, PrefShape
<1>5. /\ command' \in [Thread -> CommandRecord] /\ command'[t] = r
      /\ \A u \in Thread : u # t => command'[u] = command[u]
  BY <1>2, <1>3, <1>4
<1>6. r.at <= Len(r.keys) + 1
  BY <1>2, KeyIs
<1>7. \A u \in Thread : command[u].at <= Len(command[u].keys) + 1
  BY DEF PrefInv, PrefShape
<1>8. \A u \in Thread : command'[u].at <= Len(command'[u].keys) + 1
  BY <1>5, <1>6, <1>7
<1>9. UNCHANGED <<list, text, conf, file, tsv, engine, form>>
  BY DEF Begin
<1> QED  BY <1>2, <1>5, <1>8, <1>9

LEMMA Taken ==
    ASSUME PrefInv, TakeCommand
    PROVE  PrefInv'
<1>1. /\ queue # <<>> /\ queue' = Tail(queue) /\ asked' = asked /\ acts' = acts
      /\ Begin("window", Keys, Head(queue))
  BY DEF TakeCommand
<1>2. queue \in Seq(Config) /\ Len(queue) <= MaxQueue
  BY DEF PrefInv, PrefShape
<1>3. /\ queue' \in Seq(Config) /\ Len(queue') = Len(queue) - 1 /\ Head(queue) \in Config
      /\ queue' = <<>> => Head(queue) = queue[Len(queue)]
      /\ queue' # <<>> => queue'[Len(queue')] = queue[Len(queue)]
  BY <1>1, <1>2, QueueShrinks
<1>4. Len(queue) \in Nat
  BY <1>2, LenProperties
<1>5. /\ command' \in [Thread -> CommandRecord]
      /\ command'["window"].at = 1 /\ command'["window"].keys = Keys
      /\ command'["window"].new = Head(queue) /\ command'["file"] = command["file"]
      /\ \A u \in Thread : command'[u].at <= Len(command'[u].keys) + 1
      /\ UNCHANGED <<list, text, conf, file, tsv, engine, form>>
<2>1. "window" \in Thread /\ "file" \in Thread
  BY DEF Thread
<2>2. Keys \in {Keys, <<"path">>}
  OBVIOUS
<2>3. Begin("window", Keys, Head(queue)) /\ Head(queue) \in Config
  BY <1>1, <1>3
<2>4. "file" # "window"
  OBVIOUS
<2> QED  BY Zenon, <2>1, <2>2, <2>3, <2>4, Begun
<1>6. form.at # 0 => Len(queue) < MaxQueue
  BY DEF PrefInv, PrefShape
<1>7. PrefShape'
<2>1. Len(queue') <= MaxQueue /\ (form'.at # 0 => Len(queue') < MaxQueue)
  BY <1>2, <1>3, <1>4, <1>5, <1>6, PreferencesAssumption
<2> QED  BY <1>1, <1>3, <1>5, <2>1 DEF PrefInv, PrefShape
<1>8. Remembered'
  BY <1>5 DEF PrefInv, Remembered
<1>9. PathInHand'
  BY <1>1, <1>3, <1>5 DEF PrefInv, PathInHand
<1> QED  BY <1>7, <1>8, <1>9 DEF PrefInv

LEMMA OneActMore ==
    ASSUME NEW a \in 0 .. MaxActs, a < MaxActs
    PROVE  a + 1 \in 0 .. MaxActs
BY PreferencesAssumption

LEMMA FileTaken ==
    ASSUME PrefInv, NEW p \in Path \cup {""}, FileCommand(p)
    PROVE  PrefInv'
<1>1. /\ acts < MaxActs /\ acts' = acts + 1 /\ asked' = Unknown /\ queue' = queue
      /\ Begin("file", <<"path">>, [Defaults EXCEPT !.path = p])
  BY DEF FileCommand
<1>2. [Defaults EXCEPT !.path = p] \in Config
  BY NoCommandType, ConfigEdits
<1>3. /\ command' \in [Thread -> CommandRecord]
      /\ command'["window"] = command["window"]
      /\ \A u \in Thread : command'[u].at <= Len(command'[u].keys) + 1
      /\ UNCHANGED <<list, text, conf, file, tsv, engine, form>>
<2>1. "window" \in Thread /\ "file" \in Thread /\ <<"path">> \in {Keys, <<"path">>}
  BY DEF Thread
<2>2. "file" # "window"
  OBVIOUS
<2> QED  BY Zenon, <1>1, <1>2, <2>1, <2>2, Begun
<1>4. acts \in 0 .. MaxActs
  BY DEF PrefInv, PrefShape
<1>5. acts' \in 0 .. MaxActs
  BY Zenon, <1>1, <1>4, OneActMore
<1>6. Unknown \notin Path
  BY DEF Path, Unknown
<1>7. PrefShape'
<2>1. queue' = queue /\ form' = form
  BY <1>1, <1>3
<2>2. queue \in Seq(Config) /\ Len(queue) <= MaxQueue
  BY DEF PrefInv, PrefShape
<2>3. form.at # 0 => Len(queue) < MaxQueue
  BY DEF PrefInv, PrefShape
<2>4. /\ queue' \in Seq(Config) /\ Len(queue') <= MaxQueue
      /\ form'.at # 0 => Len(queue') < MaxQueue
  BY <2>1, <2>2, <2>3
<2>5. asked' \in Path \cup {"", Unknown}
  BY <1>1
<2> QED  BY <1>3, <1>5, <2>4, <2>5 DEF PrefInv, PrefShape
<1>8. Remembered'
  BY <1>3 DEF PrefInv, Remembered
<1>9. PathInHand'
  BY <1>1, <1>6 DEF PathInHand
<1> QED  BY <1>7, <1>8, <1>9 DEF PrefInv

LEMMA PathRefused ==
    ASSUME NEW k, NEW v, k = "path", v # ""
    PROVE  Valid(k, v)
<1>1. k # "total"
<2>1. "path" # "total"
  OBVIOUS
<2> QED  BY Zenon, <2>1
<1> QED  BY Zenon, <1>1 DEF Valid

LEMMA CommandGoesOn ==
    ASSUME NEW c \in CommandRecord, NEW b \in BOOLEAN
    PROVE  LET r == [c EXCEPT !.at = @ + 1, !.changed = b]
           IN  r \in CommandRecord /\ r.at = c.at + 1 /\ r.keys = c.keys /\ r.new = c.new
<1>1. PICK K, C, B, x : K = {<<>>, Keys, <<"path">>} /\ C = Config /\ B = BOOLEAN /\ x = c.at + 1
  OBVIOUS
<1>2. CommandRecord = [at : Nat, keys : K, new : C, changed : B]
  BY Zenon, <1>1 DEF CommandRecord
<1>3. c \in [at : Nat, keys : K, new : C, changed : B] /\ b \in B
  BY <1>1, <1>2
<1>4. x \in Nat
  BY <1>1, <1>3
<1>5. PICK r : r = [c EXCEPT !.at = x, !.changed = b]
  OBVIOUS
<1>6. r \in [at : Nat, keys : K, new : C, changed : B] /\ r.at = x /\ r.keys = c.keys /\ r.new = c.new
  BY Zenon, <1>3, <1>4, <1>5
<1> QED  BY Zenon, <1>1, <1>2, <1>5, <1>6

(* The record of a command that is being processed.                        *)
LEMMA CommandAt ==
    ASSUME PrefInv, NEW t \in Thread
    PROVE  /\ command[t] \in CommandRecord /\ command[t].at \in Nat
           /\ command[t].at <= Len(command[t].keys) + 1
           /\ command[t].new \in Config
           /\ command[t].keys = <<>> \/ command[t].keys = Keys \/ command[t].keys = <<"path">>
           /\ t = "window" /\ command[t].at # 0 => command[t].keys = Keys
           /\ t = "window" \/ t = "file"
<1>1. command \in [Thread -> CommandRecord]
  BY DEF PrefInv, PrefShape
<1>2. command[t] \in CommandRecord
  BY <1>1
<1>3. /\ command[t].at \in Nat /\ command[t].new \in Config
      /\ command[t].keys = <<>> \/ command[t].keys = Keys \/ command[t].keys = <<"path">>
  BY <1>2 DEF CommandRecord
<1>4. t = "window" \/ t = "file"
  BY DEF Thread
<1>5. /\ command[t].at <= Len(command[t].keys) + 1
      /\ t = "window" /\ command[t].at # 0 => command[t].keys = Keys
  BY DEF PrefInv, PrefShape
<1> QED  BY <1>2, <1>3, <1>4, <1>5

(* A command that goes on, ends, or is refused.                            *)
LEMMA CommandMoves ==
    ASSUME PrefInv, NEW t \in Thread, NEW r \in CommandRecord, r.at <= Len(r.keys) + 1,
           t = "window" /\ r.at # 0 => r.keys = Keys,
           command' = [command EXCEPT ![t] = r],
           conf' \in Config, engine' \in Path \cup {""},
           UNCHANGED <<list, text, file, tsv, form, queue, asked, acts>>,
           asked \in Path => t # "file",
           asked \in Path /\ t = "window" /\ queue = <<>> =>
              /\ r.at # 0 => r.new.path = asked
              /\ r.at # 1 /\ form.at <= 1 => conf'.path = asked
    PROVE  PrefInv'
<1>1. command \in [Thread -> CommandRecord]
  BY DEF PrefInv, PrefShape
<1>2. /\ command' \in [Thread -> CommandRecord] /\ command'[t] = r
      /\ \A u \in Thread : u # t => command'[u] = command[u]
  BY <1>1
<1>3. \A u \in Thread : command[u].at <= Len(command[u].keys) + 1
  BY DEF PrefInv, PrefShape
<1>4. \A u \in Thread : command'[u].at <= Len(command'[u].keys) + 1
  BY <1>2, <1>3
<1>5. "window" \in Thread /\ "file" \in Thread /\ (t = "window" \/ t = "file")
  BY DEF Thread
<1>6. command["window"].at # 0 => command["window"].keys = Keys
  BY DEF PrefInv, PrefShape
<1>7. command'["window"].at # 0 => command'["window"].keys = Keys
  BY <1>2, <1>5, <1>6
<1>8. /\ form' = form /\ queue' = queue /\ list' = list /\ text' = text /\ file' = file
      /\ tsv' = tsv /\ asked' = asked /\ acts' = acts
  OBVIOUS
<1>9. PrefShape'
<2>1. form.at # 0 => Len(queue) < MaxQueue
  BY DEF PrefInv, PrefShape
<2>2. form'.at # 0 => Len(queue') < MaxQueue
  BY <1>8, <2>1
<2> QED  BY <1>2, <1>4, <1>7, <1>8, <2>2 DEF PrefInv, PrefShape
<1>10. Remembered'
  BY <1>8 DEF PrefInv, Remembered
<1>11. PathInHand'
<2> SUFFICES ASSUME asked \in Path PROVE PathInHand'
  BY <1>8 DEF PathInHand
<2>1. t = "window" /\ command'["file"] = command["file"] /\ command'["window"] = r
  BY <1>2, <1>5
<2> QED  BY <1>8, <2>1 DEF PrefInv, PathInHand
<1> QED  BY <1>9, <1>10, <1>11 DEF PrefInv

LEMMA ValueStored ==
    ASSUME PrefInv, NEW t \in Thread, UpdateKey(t)
    PROVE  PrefInv'
<1>1. PICK c : c = command[t]
  OBVIOUS
<1>2. /\ c \in CommandRecord /\ c.at \in Nat /\ c.new \in Config
      /\ c.keys = <<>> \/ c.keys = Keys \/ c.keys = <<"path">>
      /\ t = "window" /\ c.at # 0 => c.keys = Keys
      /\ t = "window" \/ t = "file"
  BY <1>1, CommandAt
<1>3. PICK k : k = c.keys[c.at]
  OBVIOUS
<1>4. /\ c.at \in DOMAIN c.keys
      /\ \/ /\ Valid(k, c.new[k]) /\ conf' = [conf EXCEPT ![k] = c.new[k]]
            /\ command' = [command EXCEPT ![t].at = @ + 1,
                   ![t].changed = @ \/ (k = "path" /\ c.new[k] # conf.path)]
         \/ /\ ~Valid(k, c.new[k]) /\ command' = [command EXCEPT ![t] = NoCommand]
            /\ conf' = conf
      /\ UNCHANGED <<list, text, file, tsv, engine, form, queue, asked, acts>>
  BY <1>1, <1>3 DEF UpdateKey
<1>5. /\ c.at \in 1 .. 3 /\ c.at <= Len(c.keys) /\ c.keys # <<>> /\ Len(c.keys) \in Nat
      /\ k \in {"path", "total", "urls"} /\ (k = "path" <=> c.at = 1)
<2>4. c.at \in DOMAIN c.keys
  BY <1>4
<2>1. CASE c.keys = Keys
<3>1. c.at \in 1 .. 3 /\ Len(c.keys) = 3 /\ k = Keys[c.at]
  BY <1>3, <2>1, <2>4, KeyIs
<3>2. c.at <= Len(c.keys) /\ Len(c.keys) \in Nat
  BY <3>1
<3>3. c.at = 1 \/ c.at = 2 \/ c.at = 3
  BY <3>1
<3>4. k \in {"path", "total", "urls"} /\ (k = "path" <=> c.at = 1)
<4>1. 1 # 2 /\ 1 # 3 /\ "total" # "path" /\ "urls" # "path"
  OBVIOUS
<4>2. Keys[1] = "path" /\ Keys[2] = "total" /\ Keys[3] = "urls"
  BY KeyIs
<4>3. k = Keys[c.at]
  BY <3>1
<4> QED  BY Zenon, <3>3, <4>1, <4>2, <4>3
<3>5. c.keys # <<>>
  BY <2>4, KeyIs
<3> QED  BY <3>1, <3>2, <3>4, <3>5
<2>2. CASE c.keys = <<"path">>
<3>1. c.at \in 1 .. 1 /\ Len(c.keys) = 1
  BY <2>2, <2>4, KeyIs
<3>2. c.at = 1
  BY <3>1
<3>3. k = "path"
  BY <1>3, <2>2, <3>2
<3> QED  BY <2>2, <3>1, <3>2, <3>3, KeyIs
<2>3. c.keys # <<>>
  BY <2>4, KeyIs
<2> QED  BY <1>2, <2>1, <2>2, <2>3
<1>6. conf \in Config /\ engine \in Path \cup {""} /\ engine' = engine
  BY <1>4 DEF PrefInv, PrefShape
<1>7. /\ asked \in Path => command["file"].at = 0
      /\ asked \in Path /\ queue = <<>> /\ command["window"].at # 0 =>
            command["window"].new.path = asked
      /\ asked \in Path /\ queue = <<>> /\ command["window"].at # 1 /\ form.at <= 1 =>
            conf.path = asked
  BY DEF PrefInv, PathInHand
<1>8. asked \in Path => t # "file"
  BY <1>1, <1>5, <1>7
<1>9. asked \in Path /\ t = "window" /\ queue = <<>> => c.new.path = asked
  BY <1>1, <1>5, <1>7
<1>10. asked \in Path /\ t = "window" /\ queue = <<>> /\ c.at # 1 /\ form.at <= 1 =>
          conf.path = asked
  BY <1>1, <1>7
<1>11. CASE /\ Valid(k, c.new[k]) /\ conf' = [conf EXCEPT ![k] = c.new[k]]
            /\ command' = [command EXCEPT ![t].at = @ + 1,
                   ![t].changed = @ \/ (k = "path" /\ c.new[k] # conf.path)]
<2>1. PICK b \in BOOLEAN : b = (c.changed \/ (k = "path" /\ c.new[k] # conf.path))
  OBVIOUS
<2>2. PICK r : r = [c EXCEPT !.at = @ + 1, !.changed = b]
  OBVIOUS
<2>3. r \in CommandRecord /\ r.at = c.at + 1 /\ r.keys = c.keys /\ r.new = c.new
<3>1. c \in CommandRecord /\ b \in BOOLEAN
  BY <1>2, <2>1
<3> QED  BY <2>2, <3>1, CommandGoesOn
<2>11. /\ c = command[t] /\ b = (c.changed \/ (k = "path" /\ c.new[k] # conf.path))
       /\ command' = [command EXCEPT ![t].at = @ + 1,
              ![t].changed = @ \/ (k = "path" /\ c.new[k] # conf.path)]
  BY <1>1, <1>11, <2>1
<2>4. command' = [command EXCEPT ![t] = r]
  BY Zenon, <2>2, <2>11
<2>5. conf' \in Config /\ conf'.path = IF k = "path" THEN c.new.path ELSE conf.path
  BY <1>2, <1>5, <1>6, <1>11, StoredKey
<2>6. r.at <= Len(r.keys) + 1 /\ r.at # 0 /\ r.at # 1
  BY <1>5, <2>3
<2>7. t = "window" => r.keys = Keys
  BY <1>2, <1>5, <2>3
<2>8. asked \in Path /\ t = "window" /\ queue = <<>> => r.new.path = asked
  BY <1>9, <2>3
<2>9. asked \in Path /\ t = "window" /\ queue = <<>> /\ form.at <= 1 => conf'.path = asked
  BY <1>5, <1>9, <1>10, <2>5
<2>10. engine' \in Path \cup {""}
  BY <1>6
<2> QED  BY Zenon, <1>4, <1>8, <2>3, <2>4, <2>5, <2>6, <2>7, <2>8, <2>9, <2>10, CommandMoves
<1>12. CASE /\ ~Valid(k, c.new[k]) /\ command' = [command EXCEPT ![t] = NoCommand]
            /\ conf' = conf
<2>1. NoCommand \in CommandRecord /\ NoCommand.at = 0 /\ NoCommand.at <= Len(NoCommand.keys) + 1
  BY NoCommandType, KeyIs
<2>2. k = "path" => c.new.path = ""
  BY <1>12, PathRefused
<2>3. asked \in Path /\ t = "window" /\ queue = <<>> => c.at # 1
  BY <1>5, <1>9, <2>2 DEF Path
<2>4. asked \in Path /\ t = "window" /\ queue = <<>> /\ form.at <= 1 => conf'.path = asked
  BY <1>10, <1>12, <2>3
<2>5. conf' \in Config /\ engine' \in Path \cup {""}
  BY <1>6, <1>12
<2> QED  BY Zenon, <1>4, <1>8, <1>12, <2>1, <2>4, <2>5, CommandMoves
<1> QED  BY <1>4, <1>11, <1>12

LEMMA PathsApplied ==
    ASSUME PrefInv, NEW t \in Thread, ApplyEnginePaths(t)
    PROVE  PrefInv'
<1>1. /\ command[t].at = Len(command[t].keys) + 1
      /\ engine' = IF command[t].changed THEN conf.path ELSE engine
      /\ command' = [command EXCEPT ![t] = NoCommand]
      /\ UNCHANGED <<list, text, conf, file, tsv, form, queue, asked, acts>>
  BY DEF ApplyEnginePaths
<1>2. PICK c : c = command[t]
  OBVIOUS
<1>3. /\ c.at \in Nat
      /\ c.keys = <<>> \/ c.keys = Keys \/ c.keys = <<"path">>
      /\ t = "window" /\ c.at # 0 => c.keys = Keys
  BY <1>2, CommandAt
<1>4. c.at = Len(c.keys) + 1
  BY <1>1, <1>2
<1>5. c.at # 0 /\ (t = "window" => c.at = 4)
<2>1. Len(<<>>) = 0 /\ Len(Keys) = 3 /\ Len(<<"path">>) = 1
  BY KeyIs
<2>5. 3 + 1 = 4 /\ 0 + 1 = 1 /\ 1 + 1 = 2
  OBVIOUS
<2>2. c.keys = Keys => c.at = 4
  BY Zenon, <1>4, <2>1, <2>5
<2>3. c.keys = <<>> \/ c.keys = <<"path">> => c.at = 1 \/ c.at = 2
  BY Zenon, <1>4, <2>1, <2>5
<2>4. c.at # 0
  BY <1>3, <2>2, <2>3
<2> QED  BY <1>3, <2>2, <2>4
<1>6. conf \in Config /\ engine \in Path \cup {""}
  BY DEF PrefInv, PrefShape
<1>7. conf' \in Config /\ engine' \in Path \cup {""}
  BY <1>1, <1>6, ConfigIs
<1>8. /\ asked \in Path => command["file"].at = 0
      /\ asked \in Path /\ queue = <<>> /\ command["window"].at # 1 /\ form.at <= 1 =>
            conf.path = asked
  BY DEF PrefInv, PathInHand
<1>9. asked \in Path => t # "file"
  BY <1>2, <1>5, <1>8
<1>10. asked \in Path /\ t = "window" /\ queue = <<>> /\ form.at <= 1 => conf'.path = asked
<2>1. t = "window" => command["window"].at # 1
  BY <1>2, <1>5
<2> QED  BY <1>1, <1>8, <2>1
<1>11. NoCommand \in CommandRecord /\ NoCommand.at = 0 /\ NoCommand.at <= Len(NoCommand.keys) + 1
  BY NoCommandType, KeyIs
<1> QED  BY Zenon, <1>1, <1>7, <1>9, <1>10, <1>11, CommandMoves

LEMMA Scanned ==
    ASSUME PrefInv, Scan
    PROVE  PrefInv'
<1>1. /\ conf' = [conf EXCEPT !.total = Plenty]
      /\ UNCHANGED <<list, text, file, tsv, engine, form, queue, command, asked, acts>>
  BY DEF Scan
<1>2. Plenty \in Total \cup {0} /\ conf \in Config
  BY DEF Total, PrefInv, PrefShape
<1>3. conf' \in Config /\ conf'.path = conf.path
  BY <1>1, <1>2, ConfigEdits
<1>4. form.at # 0 => Len(queue) < MaxQueue
  BY DEF PrefInv, PrefShape
<1>5. form'.at # 0 => Len(queue') < MaxQueue
  BY <1>1, <1>4
<1>6. PrefShape'
  BY <1>1, <1>3, <1>5 DEF PrefInv, PrefShape
<1>7. Remembered'
  BY <1>1 DEF PrefInv, Remembered
<1>8. PathInHand'
  BY <1>1, <1>3 DEF PrefInv, PathInHand
<1> QED  BY <1>6, <1>7, <1>8 DEF PrefInv

LEMMA Restarted ==
    ASSUME PrefInv, Restart
    PROVE  PrefInv'
<1>1. /\ acts < MaxActs /\ acts' = acts + 1 /\ conf' = Reread(file) /\ tsv' = Seeded(tsv)
      /\ list' = Loaded(tsv, Reread(file)) /\ text' = GithubUrls(Reread(file))
      /\ engine' = file.path /\ form' = NoForm /\ queue' = <<>> /\ asked' = Unknown
      /\ command' = [t \in Thread |-> NoCommand] /\ file' = file
  BY DEF Restart
<1>2. file \in Config /\ tsv \in [Url -> Status]
  BY DEF PrefInv, PrefShape
<1>3. /\ conf' \in Config /\ text' \in (SUBSET Url) \cup {Garbled}
      /\ list' \in [Url -> Status] /\ tsv' \in [Url -> Status]
  BY <1>1, <1>2, GarbledIs, LoadedType, SeededType
<1>4. engine' \in Path \cup {""} /\ asked' \in Path \cup {"", Unknown}
  BY <1>1, <1>2, ConfigIs
<1>5. form' \in [at : 0 .. 5, new : Config] /\ form'.at = 0
  BY <1>1, NoFormType
<1>6. queue' \in Seq(Config) /\ Len(queue') = 0
  BY <1>1, EmptySeq
<1>7. acts \in 0 .. MaxActs
  BY DEF PrefInv, PrefShape
<1>8. acts' \in 0 .. MaxActs
  BY Zenon, <1>1, <1>7, OneActMore
<1>9. /\ command' \in [Thread -> CommandRecord]
      /\ \A t \in Thread : command'[t].at = 0 /\ command'[t].keys = <<>>
  BY <1>1, NoCommandType
<1>10. \A t \in Thread : command'[t].at <= Len(command'[t].keys) + 1
  BY <1>9, KeyIs
<1>11. command'["window"].at = 0
  BY <1>9 DEF Thread
<1>12. Len(queue') <= MaxQueue
  BY <1>6, PreferencesAssumption
<1>13. PrefShape'
  BY <1>1, <1>2, <1>3, <1>4, <1>5, <1>6, <1>8, <1>9, <1>10, <1>11, <1>12 DEF PrefShape
<1>14. Remembered'
<2> SUFFICES ASSUME file'.urls \notin {Unset, {}}, NEW u \in Url, list'[u] # "no"
             PROVE  Loaded(tsv', Reread(file'))[u] = list'[u]
  BY DEF Remembered
<2>1. file.urls \notin {Unset, {}} /\ Seeded(tsv) \in [Url -> Status]
      /\ Seeded(Seeded(tsv)) = Seeded(tsv)
  BY <1>1, <1>2, SeededType
<2>2. list'[u] = IF Seeded(tsv)[u] # "no" THEN Seeded(tsv)[u]
                 ELSE IF u \in Standard THEN "on" ELSE "no"
  BY <1>1, <1>2, <2>1, BroughtBack
<2>3. Loaded(Seeded(tsv), Reread(file))[u] =
         IF Seeded(tsv)[u] # "no" THEN Seeded(tsv)[u]
         ELSE IF u \in Standard THEN "on" ELSE "no"
<3>1. Loaded(Seeded(tsv), Reread(file))[u] =
         IF Seeded(Seeded(tsv))[u] # "no" THEN Seeded(Seeded(tsv))[u]
         ELSE IF u \in Standard THEN "on" ELSE "no"
  BY <1>2, <2>1, BroughtBack
<3> QED  BY <2>1, <3>1
<2> QED  BY <1>1, <2>2, <2>3
<1>15. PathInHand'
  BY <1>1 DEF PathInHand, Path, Unknown
<1> QED  BY <1>13, <1>14, <1>15 DEF PrefInv

LEMMA PrefStep == PrefInv /\ [PrefNext]_prefVars => PrefInv'
<1> SUFFICES ASSUME PrefInv, [PrefNext]_prefVars PROVE PrefInv'
  OBVIOUS
<1>1. list \in [Url -> Status]
  BY DEF PrefInv, PrefShape
<1>2. ASSUME NEW u \in Url, ToggleSource(u) \/ AddSource(u) \/ RemoveSource(u) PROVE PrefInv'
<2>1. PICK l : /\ ChangeSources(l)
               /\ \/ l = [list EXCEPT ![u] = IF @ = "on" THEN "off" ELSE "on"]
                  \/ l = [list EXCEPT ![u] = "on"] \/ l = [list EXCEPT ![u] = "no"]
  BY <1>2 DEF ToggleSource, AddSource, RemoveSource
<2>2. l \in [Url -> Status]
  BY <1>1, <2>1 DEF Status
<2> QED  BY <2>1, <2>2, SourcesChanged
<1>3. CASE ResetSources
<2>1. StandardList \in [Url -> Status]
  BY DEF StandardList, Status
<2> QED  BY <1>3, <2>1, SourcesChanged DEF ResetSources
<1>4. ASSUME NEW p \in Path \cup {""}, NEW n \in Total \cup {0}, Apply(p, n) PROVE PrefInv'
  BY <1>4, Applied
<1>5. CASE ApplyKey
  BY <1>5, FormKeyStored
<1>6. CASE SaveConfigToDisk
  BY <1>6, FormSaved
<1>7. CASE RunCommandAsync
  BY <1>7, Sent
<1>8. CASE TakeCommand
  BY <1>8, Taken
<1>9. ASSUME NEW p \in Path \cup {""}, FileCommand(p) PROVE PrefInv'
  BY <1>9, FileTaken
<1>10. ASSUME NEW t \in Thread, UpdateKey(t) \/ ApplyEnginePaths(t) PROVE PrefInv'
  BY <1>10, ValueStored, PathsApplied
<1>11. CASE Scan
  BY <1>11, Scanned
<1>12. CASE Restart
  BY <1>12, Restarted
<1>13. CASE UNCHANGED prefVars
<2>1. UNCHANGED <<list, text, conf, file, tsv, engine, form, queue, command, asked, acts>>
  BY <1>13 DEF prefVars
<2>2. form.at # 0 => Len(queue) < MaxQueue
  BY DEF PrefInv, PrefShape
<2>3. form'.at # 0 => Len(queue') < MaxQueue
  BY <2>1, <2>2
<2>4. PrefShape'
  BY <2>1, <2>3 DEF PrefInv, PrefShape
<2>5. Remembered' /\ PathInHand'
  BY <2>1 DEF PrefInv, Remembered, PathInHand
<2> QED  BY <2>4, <2>5 DEF PrefInv
<1> QED
  BY <1>2, <1>3, <1>4, <1>5, <1>6, <1>7, <1>8, <1>9, <1>10, <1>11, <1>12, <1>13 DEF PrefNext

-----------------------------------------------------------------------------
(* The window as a whole.                                                  *)

WindowInv == PrefInv /\ SpeedInv /\ LogInv /\ TaskInv /\ side \in Side

LEMMA WindowInit == Init => WindowInv
<1> SUFFICES ASSUME Init PROVE WindowInv
  OBVIOUS
<1>1. PrefInv
  BY PrefInitInv DEF Init
<1>2. SpeedInv
<2>1. (\E n \in Cpu, r \in Ram : SpeedInit(n, r)) \/ SpeedInit(4, 50)
  BY DEF Init
<2>2. \A n \in Cpu, r \in Ram : n \in Nat \ {0} /\ r \in 0 .. 100
  BY SpeedAssumption
<2> QED  BY <2>1, <2>2, SpeedInitInv
<1>3. LogInv
  BY LogInitInv DEF Init
<1>4. TaskInv
  BY TasksInit DEF Init
<1>5. side \in Side
  BY DEF Init
<1> QED  BY <1>1, <1>2, <1>3, <1>4, <1>5 DEF WindowInv

LEMMA WindowStep == WindowInv /\ [Next]_vars => WindowInv'
<1>1. [Next]_vars => [PrefNext]_prefVars /\ [SpeedNext]_speedVars
  BY DEF Next, vars
<1>2. [Next]_vars => [LogNext]_logVars /\ [TaskNext]_taskVars /\ side' = side
  BY DEF Next, vars
<1> QED  BY <1>1, <1>2, PrefStep, SpeedStep, LogStep, TasksStep DEF WindowInv

LEMMA WindowInductive == Spec => []WindowInv
BY WindowInit, WindowStep, PTL DEF Spec

(* Every value the window shows, stores or sends has its type, and the     *)
(* number of tests, their time limit, the chunk, the size of a batch and   *)
(* the work per thread stay in the validator's ranges, for every machine   *)
(* and any number of speed commands (WorkInRange; setSpeedProfile, detect, *)
(* maybeResize, ValidatorWorker::execute).                                 *)
THEOREM WorkStaysInRange == Spec => []WorkInRange
<1>1. PrefInv => PrefTypeOK
  BY ShapeTypes DEF PrefInv
<1>2. SpeedInv => SpeedTypeOK /\ SpeedInRange
  BY DEF SpeedInv
<1>3. LogInv => LogTypeOK
  BY DEF LogInv
<1>4. TaskInv => TaskTypeOK
  BY DEF TaskInv
<1>5. WindowInv => WorkInRange
  BY <1>1, <1>2, <1>3, <1>4 DEF WindowInv, WorkInRange, TypeOK
<1> QED  BY <1>5, WindowInductive, PTL

(* Which sources are enabled comes back from the two files, for any set of *)
(* sources and at every step of the window, the command worker, the main   *)
(* thread and the scanner, but for the moment between the two writes       *)
(* (SelectionSurvives; LoadSourceManager, SaveSourceManager).              *)
THEOREM SelectionComesBack == Spec => []SelectionSurvives
<1>1. WindowInv => SelectionSurvives
  BY DEF WindowInv, PrefInv, Remembered, SelectionSurvives
<1> QED  BY <1>1, WindowInductive, PTL

(* With every command processed, the configuration has the path that was   *)
(* applied last, however many older settings waited as commands (Settled;  *)
(* ApplyAdvancedSettings, StartBackgroundWorker, update_runtime_settings). *)
THEOREM LastPathSettles == Spec => []Settled
<1>1. WindowInv => Settled
<2> SUFFICES ASSUME PathInHand, form.at = 0, queue = <<>>, \A t \in Thread : command[t].at = 0,
                    asked \in Path
             PROVE  conf.path = asked
  BY DEF WindowInv, PrefInv, Settled
<2>1. command["window"].at = 0
  BY DEF Thread
<2> QED  BY <2>1 DEF PathInHand
<1> QED  BY <1>1, WindowInductive, PTL

(* The log shows its latest lines, in their order and without a gap, for   *)
(* every length of the ring and of the list (LatestShown; LogRingBuffer,   *)
(* RenderLogPanel).                                                        *)
THEOREM LogShowsLatest == Spec => []LatestShown
<1>1. WindowInv => LatestShown
  BY DEF WindowInv, LogInv
<1> QED  BY <1>1, WindowInductive, PTL

-----------------------------------------------------------------------------
(* The network: the readers of sources.                                    *)

FetchStates == {"idle", "start", "check", "proxy first", "direct anyway",
                "direct first", "then proxy"}
Answered == Client \cup {"harvest"}
CircuitRecord == [failures : 0 .. Limit, open : BOOLEAN, hot : BOOLEAN]

FetchInv == FetchTypeOK /\ CircuitsHonest

LEMMA FewOf ==
    ASSUME NEW m \in Nat, NEW n \in 0 .. m, m # 0
    PROVE  /\ NoMore(n + 1, m) \in 0 .. m /\ NoMore(n + 1, m) > 0
           /\ NoMore(n + 1, m) = m <=> n + 1 >= m
BY DEF NoMore

LEMMA CircuitIs ==
    ASSUME NEW n \in 0 .. Limit, NEW o \in BOOLEAN, NEW h \in BOOLEAN
    PROVE  /\ [failures |-> n, open |-> o, hot |-> h] \in CircuitRecord
           /\ [failures |-> n, open |-> o, hot |-> h].failures = n
           /\ [failures |-> n, open |-> o, hot |-> h].open = o
BY Zenon DEF CircuitRecord

(* The circuit after an answer opens with the last failure it takes.       *)
LEMMA NotedHonest ==
    ASSUME NEW c \in Client, NEW ok \in BOOLEAN, circuit \in CircuitRecord,
           circuit.open <=> circuit.failures = Limit
    PROVE  /\ Noted(c, ok) \in CircuitRecord
           /\ Noted(c, ok).open <=> Noted(c, ok).failures = Limit
<1>1. CASE c # "cycle"
<2>1. Noted(c, ok) = circuit
  BY <1>1 DEF Noted
<2> QED  BY <2>1
<1>2. CASE c = "cycle" /\ ok
<2>1. Noted(c, ok) = [failures |-> 0, open |-> FALSE, hot |-> FALSE]
  BY <1>2 DEF Noted, Closed
<2>2. 0 \in 0 .. Limit /\ 0 # Limit /\ FALSE \in BOOLEAN
  BY FetchingAssumption
<2> QED  BY <2>1, <2>2, CircuitIs
<1>3. CASE c = "cycle" /\ ~ok
<2>1. PICK n : n = NoMore(circuit.failures + 1, Limit)
  OBVIOUS
<2>2. PICK o \in BOOLEAN : o = (circuit.open \/ n >= Limit)
  OBVIOUS
<2>3. Noted(c, ok) = [failures |-> n, open |-> o, hot |-> TRUE]
  BY <1>3, <2>1, <2>2 DEF Noted
<2>4. circuit.failures \in 0 .. Limit
  BY DEF CircuitRecord
<2>5. Limit \in Nat /\ Limit # 0
  BY FetchingAssumption
<2>6. n \in 0 .. Limit /\ (n = Limit <=> circuit.failures + 1 >= Limit)
  BY <2>1, <2>4, <2>5, FewOf
<2>7. circuit.failures = Limit => n = Limit
  BY <2>4, <2>5, <2>6
<2>8. n >= Limit <=> n = Limit
  BY <2>5, <2>6
<2>9. o <=> n = Limit
  BY <2>2, <2>7, <2>8
<2> QED  BY <2>3, <2>6, <2>9, CircuitIs
<1> QED  BY <1>1, <1>2, <1>3

(* What a request's end, or its next step, leaves.                         *)
Requests ==
    /\ job \in [Client -> FetchStates] /\ late \in [Client -> BOOLEAN]
    /\ last \in [Answered -> BOOLEAN] /\ circuit \in CircuitRecord
    /\ circuit.open <=> circuit.failures = Limit
    /\ \A c \in Client : late[c] => job[c] # "idle"

Believed ==
    /\ direct \in {"unknown", "yes", "no"}
    /\ streak \in 0 .. 2 /\ fails \in 0 .. Limit
    /\ hot \in BOOLEAN /\ harvest \in {"idle", "direct", "proxy"}
    /\ hot => fails > 0

LEMMA FetchParts == FetchInv <=> Requests /\ Believed
BY DEF FetchInv, FetchTypeOK, CircuitsHonest, Requests, Believed, FetchStates, Answered,
   CircuitRecord

LEMMA RequestEnds ==
    ASSUME Requests, NEW c \in Client, NEW ok \in BOOLEAN, Finish(c, ok)
    PROVE  Requests'
<1>1. /\ job' = [job EXCEPT ![c] = "idle"] /\ late' = [late EXCEPT ![c] = FALSE]
      /\ \/ late[c] /\ last' = last /\ circuit' = circuit
         \/ last' = [last EXCEPT ![c] = ok] /\ circuit' = Noted(c, ok)
  BY DEF Finish, Deliver
<1>2. circuit' \in CircuitRecord /\ (circuit'.open <=> circuit'.failures = Limit)
  BY <1>1, NotedHonest DEF Requests
<1>3. /\ job' \in [Client -> FetchStates] /\ late' \in [Client -> BOOLEAN]
      /\ last' \in [Answered -> BOOLEAN]
  BY <1>1 DEF Requests, FetchStates, Answered
<1>4. ASSUME NEW d \in Client, late'[d] PROVE job'[d] # "idle"
<2>1. d # c /\ late'[d] = late[d] /\ job'[d] = job[d]
  BY <1>1, <1>4 DEF Requests
<2>2. late[d] => job[d] # "idle"
  BY DEF Requests
<2> QED  BY <1>4, <2>1, <2>2
<1> QED  BY <1>2, <1>3, <1>4 DEF Requests

LEMMA Gone ==
    ASSUME Requests, NEW c \in Client, NEW step \in FetchStates \ {"idle"}, Goto(c, step)
    PROVE  Requests'
<1>1. /\ job' = [job EXCEPT ![c] = step] /\ late' = late /\ last' = last /\ circuit' = circuit
  BY DEF Goto
<1>2. job' \in [Client -> FetchStates] /\ \A d \in Client : d # c => job'[d] = job[d]
  BY <1>1 DEF Requests
<1>3. job'[c] # "idle"
  BY <1>1 DEF Requests
<1>4. ASSUME NEW d \in Client, late'[d] PROVE job'[d] # "idle"
  BY <1>1, <1>2, <1>3, <1>4 DEF Requests
<1> QED  BY <1>1, <1>2, <1>4 DEF Requests

LEMMA RequestsRest ==
    ASSUME Requests, UNCHANGED <<job, late, last, circuit>>
    PROVE  Requests'
<1>1. job' = job /\ late' = late /\ last' = last /\ circuit' = circuit
  OBVIOUS
<1> QED  BY <1>1 DEF Requests

LEMMA BeliefRests ==
    ASSUME Believed, UNCHANGED <<direct, streak, fails, hot, harvest>>
    PROVE  Believed'
BY DEF Believed

LEMMA Ended ==
    ASSUME Requests, Believed, NEW c \in Client, Succeed(c) \/ Fail(c)
    PROVE  /\ Requests' /\ fails' \in 0 .. Limit /\ hot' \in BOOLEAN /\ (hot' => fails' > 0)
<1>1. CASE Succeed(c)
<2>1. fails' = 0 /\ hot' = FALSE /\ Finish(c, TRUE)
  BY <1>1 DEF Succeed
<2>2. 0 \in 0 .. Limit
  BY FetchingAssumption
<2>3. Requests'
<3>1. TRUE \in BOOLEAN
  OBVIOUS
<3> QED  BY Zenon, <2>1, <3>1, RequestEnds
<2> QED  BY <2>1, <2>2, <2>3
<1>2. CASE Fail(c)
<2>1. fails' = NoMore(fails + 1, Limit) /\ hot' = TRUE /\ Finish(c, FALSE)
  BY <1>2 DEF Fail
<2>2. fails \in 0 .. Limit /\ Limit \in Nat /\ Limit # 0
  BY FetchingAssumption DEF Believed
<2>3. fails' \in 0 .. Limit /\ fails' > 0
  BY <2>1, <2>2, FewOf
<2>4. Requests'
<3>1. FALSE \in BOOLEAN
  OBVIOUS
<3> QED  BY Zenon, <2>1, <3>1, RequestEnds
<2> QED  BY <2>1, <2>3, <2>4
<1> QED  BY <1>1, <1>2

LEMMA StartGoesTo ==
    ASSUME NEW c \in Client, direct \in {"unknown", "yes", "no"}, Start(c)
    PROVE  \E step \in FetchStates \ {"idle"} : Goto(c, step)
<1>1. PICK step : /\ Goto(c, step)
                  /\ step = CASE direct = "unknown" -> "check"
                              [] direct = "no" -> "proxy first"
                              [] direct = "yes" -> "direct first"
  BY Zenon DEF Start
<1>2. direct = "unknown" => step = "check"
  BY Zenon, <1>1
<1>3. direct = "no" => step = "proxy first"
  BY Zenon, <1>1
<1>4. direct = "yes" => step = "direct first"
  BY Zenon, <1>1
<1>5. direct = "unknown" \/ direct = "no" \/ direct = "yes"
  OBVIOUS
<1>6. step \in {"check", "proxy first", "direct first"}
  BY <1>2, <1>3, <1>4, <1>5
<1>7. step \in FetchStates \ {"idle"}
  BY <1>6 DEF FetchStates
<1> QED  BY <1>1, <1>7

LEMMA RequestBegins ==
    ASSUME Requests, NEW c \in Client, BeginRequest(c)
    PROVE  Requests'
<1>1. /\ job' = [job EXCEPT ![c] = "start"] /\ late' = late /\ last' = last
      /\ circuit' = Closed \/ circuit' = circuit
  BY DEF BeginRequest
<1>2. Closed \in CircuitRecord /\ Closed.open = FALSE /\ Closed.failures = 0 /\ 0 # Limit
<2>1. 0 \in 0 .. Limit /\ 0 # Limit /\ FALSE \in BOOLEAN
  BY FetchingAssumption
<2> QED  BY <2>1, CircuitIs DEF Closed
<1>3. circuit' \in CircuitRecord /\ (circuit'.open <=> circuit'.failures = Limit)
<2>1. CASE circuit' = Closed
  BY <1>2, <2>1
<2>2. CASE circuit' = circuit
  BY <2>2 DEF Requests
<2> QED  BY <1>1, <2>1, <2>2
<1>4. job' \in [Client -> FetchStates] /\ \A d \in Client : job'[d] = "start" \/ job'[d] = job[d]
  BY <1>1 DEF Requests, FetchStates
<1>5. ASSUME NEW d \in Client, late'[d] PROVE job'[d] # "idle"
<2>1. job[d] # "idle"
  BY <1>1, <1>5 DEF Requests
<2> QED  BY <1>4, <2>1
<1> QED  BY <1>1, <1>3, <1>4, <1>5 DEF Requests

LEMMA FetchKept ==
    ASSUME Requests, Believed, NEW c \in Client, Fetch(c)
    PROVE  Requests' /\ Believed'
<1>1. CASE Refuse(c)
<2>1. Finish(c, FALSE) /\ UNCHANGED <<direct, streak, fails, hot, harvest>>
  BY <1>1 DEF Refuse
<2>2. Requests'
<3>1. FALSE \in BOOLEAN
  OBVIOUS
<3> QED  BY Zenon, <2>1, <3>1, RequestEnds
<2> QED  BY <2>1, <2>2, BeliefRests
<1>2. CASE Start(c)
<2>1. /\ ~(fails >= Limit /\ hot) /\ fails' = (IF fails >= Limit THEN 0 ELSE fails)
      /\ UNCHANGED <<direct, streak, hot, harvest>>
  BY <1>2 DEF Start
<2>2. fails' \in 0 .. Limit /\ (hot' => fails' > 0)
  BY <2>1, FetchingAssumption DEF Believed
<2>3. direct \in {"unknown", "yes", "no"}
  BY DEF Believed
<2>4. Requests'
  BY Zenon, <1>2, <2>3, StartGoesTo, Gone
<2> QED  BY <2>1, <2>2, <2>4 DEF Believed
<1>3. CASE CheckDirectAccess(c)
<2>1. /\ direct' = Access /\ UNCHANGED <<streak, fails, hot, harvest>>
      /\ Goto(c, "direct first") \/ Goto(c, "proxy first")
  BY <1>3 DEF CheckDirectAccess
<2>2. "direct first" \in FetchStates \ {"idle"} /\ "proxy first" \in FetchStates \ {"idle"}
  BY DEF FetchStates
<2>3. direct' \in {"unknown", "yes", "no"}
  BY <2>1 DEF Access
<2>4. Requests'
  BY Zenon, <2>1, <2>2, Gone
<2> QED  BY <2>1, <2>3, <2>4 DEF Believed
<1>4. CASE ProxyFirst(c)
<2>1. /\ UNCHANGED <<direct, streak, harvest>>
      /\ Succeed(c) \/ (Goto(c, "direct anyway") /\ UNCHANGED <<fails, hot>>)
  BY <1>4 DEF ProxyFirst
<2>2. CASE Succeed(c)
  BY <2>1, <2>2, Ended DEF Believed
<2>3. CASE Goto(c, "direct anyway") /\ UNCHANGED <<fails, hot>>
<3>1. "direct anyway" \in FetchStates \ {"idle"}
  BY DEF FetchStates
<3>2. Requests'
  BY Zenon, <2>3, <3>1, Gone
<3> QED  BY <2>1, <2>3, <3>2, BeliefRests
<2> QED  BY <2>1, <2>2, <2>3
<1>5. CASE DirectAnyway(c)
<2>1. UNCHANGED <<direct, streak, harvest>> /\ (Succeed(c) \/ Fail(c))
  BY <1>5 DEF DirectAnyway
<2> QED  BY <2>1, Ended DEF Believed
<1>6. CASE DirectFirst(c)
<2>1. CASE streak' = 0 /\ Succeed(c) /\ UNCHANGED <<direct, harvest>>
  BY <2>1, Ended DEF Believed
<2>2. CASE /\ streak' = NoMore(streak + 1, 2) /\ direct' = (IF streak' >= 2 THEN "no" ELSE direct)
           /\ Goto(c, "then proxy") /\ UNCHANGED <<fails, hot, harvest>>
<3>1. "then proxy" \in FetchStates \ {"idle"}
  BY DEF FetchStates
<3>2. Requests'
  BY Zenon, <2>2, <3>1, Gone
<3>5. streak \in 0 .. 2 /\ streak' = NoMore(streak + 1, 2)
  BY <2>2 DEF Believed
<3>3. streak' \in 0 .. 2
  BY <3>5 DEF NoMore
<3>4. direct' \in {"unknown", "yes", "no"}
  BY <2>2 DEF Believed
<3> QED  BY <2>2, <3>2, <3>3, <3>4 DEF Believed
<2> QED  BY <1>6, <2>1, <2>2 DEF DirectFirst
<1>7. CASE ThenProxy(c)
<2>1. UNCHANGED <<direct, streak, harvest>> /\ (Succeed(c) \/ Fail(c))
  BY <1>7 DEF ThenProxy
<2> QED  BY <2>1, Ended DEF Believed
<1> QED  BY <1>1, <1>2, <1>3, <1>4, <1>5, <1>6, <1>7 DEF Fetch

LEMMA DeadlinePasses ==
    ASSUME Requests, NEW c \in Client, Deadline(c)
    PROVE  Requests'
<1>1. /\ job[c] # "idle" /\ job' = job /\ late' = [late EXCEPT ![c] = TRUE]
      /\ last' = [last EXCEPT ![c] = FALSE] /\ circuit' = Noted(c, FALSE)
  BY DEF Deadline, Deliver
<1>2. /\ circuit' \in CircuitRecord /\ (circuit'.open <=> circuit'.failures = Limit)
  BY <1>1, NotedHonest DEF Requests
<1>3. /\ late' \in [Client -> BOOLEAN] /\ last' \in [Answered -> BOOLEAN]
  BY <1>1 DEF Requests, Answered
<1>4. ASSUME NEW d \in Client, late'[d] PROVE job'[d] # "idle"
  BY <1>1, <1>4 DEF Requests
<1> QED  BY <1>1, <1>2, <1>3, <1>4 DEF Requests

LEMMA Cooled ==
    ASSUME Requests, Believed, CoolDown
    PROVE  Requests' /\ Believed'
<1>1. /\ hot' = FALSE /\ circuit' = [circuit EXCEPT !.hot = FALSE]
      /\ UNCHANGED <<direct, streak, fails, job, late, last, harvest>>
  BY DEF CoolDown
<1>2. /\ circuit \in CircuitRecord /\ (circuit.open <=> circuit.failures = Limit)
  BY DEF Requests
<1>3. PICK B : B = BOOLEAN
  OBVIOUS
<1>4. /\ circuit \in [failures : 0 .. Limit, open : B, hot : B] /\ FALSE \in B
      /\ CircuitRecord = [failures : 0 .. Limit, open : B, hot : B]
  BY <1>2, <1>3 DEF CircuitRecord
<1>5. circuit' \in CircuitRecord /\ circuit'.open = circuit.open /\ circuit'.failures = circuit.failures
  BY Zenon, <1>1, <1>4
<1>6. circuit'.open <=> circuit'.failures = Limit
  BY <1>2, <1>5
<1>7. Requests'
  BY <1>1, <1>5, <1>6 DEF Requests
<1>8. Believed'
  BY <1>1 DEF Believed
<1> QED  BY <1>7, <1>8

LEMMA FetchMoves ==
    ASSUME FetchInv, FetchNext
    PROVE  FetchInv'
<1> SUFFICES Requests' /\ Believed'
  BY DEF FetchInv, FetchTypeOK, CircuitsHonest, Requests, Believed, FetchStates, Answered,
     CircuitRecord
<1>1. Requests /\ Believed
  BY FetchParts
<1>2. ASSUME NEW c \in Client, BeginRequest(c) PROVE Requests' /\ Believed'
<2>1. UNCHANGED <<direct, streak, fails, hot, harvest>>
  BY <1>2 DEF BeginRequest
<2> QED  BY <1>1, <1>2, <2>1, RequestBegins, BeliefRests
<1>3. ASSUME NEW c \in Client, Fetch(c) PROVE Requests' /\ Believed'
  BY <1>1, <1>3, FetchKept
<1>4. ASSUME NEW c \in Client, Deadline(c) PROVE Requests' /\ Believed'
<2>1. UNCHANGED <<direct, streak, fails, hot, harvest>>
  BY <1>4 DEF Deadline
<2> QED  BY <1>1, <1>4, <2>1, DeadlinePasses, BeliefRests
<1>5. CASE Skip
<2>1. /\ last' = [last EXCEPT !["cycle"] = FALSE]
      /\ UNCHANGED <<direct, streak, fails, hot, circuit, job, late, harvest>>
  BY <1>5 DEF Skip
<2>2. last' \in [Answered -> BOOLEAN]
  BY <1>1, <2>1 DEF Requests, Answered
<2>3. Requests'
  BY <1>1, <2>1, <2>2 DEF Requests
<2> QED  BY <1>1, <2>1, <2>3, BeliefRests
<1>6. CASE Recheck
<2>1. direct' = Access /\ UNCHANGED <<streak, fails, hot, circuit, job, late, last, harvest>>
  BY <1>6 DEF Recheck
<2>2. direct' \in {"unknown", "yes", "no"}
  BY <2>1 DEF Access
<2>3. Believed'
  BY <1>1, <2>1, <2>2 DEF Believed
<2> QED  BY <1>1, <2>1, <2>3, RequestsRest
<1>7. CASE CoolDown
  BY <1>1, <1>7, Cooled
<1>8. CASE HarvestCheck
<2>1. /\ harvest' = (IF net["source"] THEN "direct" ELSE "proxy")
      /\ UNCHANGED <<direct, streak, fails, hot, circuit, job, late, last>>
  BY <1>8 DEF HarvestCheck
<2>2. Believed'
  BY <1>1, <2>1 DEF Believed
<2> QED  BY <1>1, <2>1, <2>2, RequestsRest
<1>9. CASE HarvestFetch
<2>1. /\ \E b \in BOOLEAN : last' = [last EXCEPT !["harvest"] = b]
      /\ harvest' = "idle" /\ UNCHANGED <<direct, streak, fails, hot, circuit, job, late>>
  BY <1>9 DEF HarvestFetch
<2>2. last' \in [Answered -> BOOLEAN]
  BY <1>1, <2>1 DEF Requests, Answered
<2>3. Requests'
  BY <1>1, <2>1, <2>2 DEF Requests
<2>4. Believed'
  BY <1>1, <2>1 DEF Believed
<2> QED  BY <2>3, <2>4
<1> QED  BY <1>2, <1>3, <1>4, <1>5, <1>6, <1>7, <1>8, <1>9 DEF FetchNext

LEMMA FetchInitInv == FetchInit => FetchInv
<1> SUFFICES ASSUME FetchInit PROVE Requests /\ Believed
  BY FetchParts
<1>1. Limit \in Nat /\ Limit # 0
  BY FetchingAssumption
<1>2. circuit \in CircuitRecord /\ circuit.open = FALSE /\ circuit.failures = 0
<2>1. 0 \in 0 .. Limit /\ FALSE \in BOOLEAN
  BY <1>1
<2> QED  BY <2>1, CircuitIs DEF FetchInit, Closed
<1>3. Requests
  BY <1>1, <1>2 DEF FetchInit, Requests, FetchStates, Answered
<1>4. Believed
<2>1. hot = FALSE /\ streak = 0 /\ fails = 0 /\ direct = "unknown" /\ harvest = "idle"
  BY DEF FetchInit
<2>2. hot \in BOOLEAN /\ ~hot
  BY <2>1
<2>3. streak \in 0 .. 2 /\ fails \in 0 .. Limit
  BY <1>1, <2>1
<2>4. direct \in {"unknown", "yes", "no"} /\ harvest \in {"idle", "direct", "proxy"}
  BY <2>1
<2> QED  BY <2>2, <2>3, <2>4 DEF Believed
<1> QED  BY <1>3, <1>4

-----------------------------------------------------------------------------
(* The rule files.                                                         *)

WaysThereAre == {<<>>, <<"direct">>, <<"proxy">>, <<"direct", "proxy">>, <<"proxy", "direct">>}

(* What is renamed has been closed.                                        *)
AssetInv ==
    /\ AssetsTypeOK
    /\ AssetWhole
    /\ refresh \in {"rename", "remove", "rename again"} => temp # Torn

LEMMA ContentIs ==
    /\ Torn \in Content /\ Short \in Content /\ Absent \in Content /\ Short # Torn
    /\ Absent # Torn /\ 1 \in Edition
    /\ \A e \in Edition : e \in Content /\ e # Torn
BY AssetsAssumption DEF Torn, Short, Content, Edition, Absent

LEMMA WaysAre == \A ok, proxy \in BOOLEAN : Ways(ok, proxy) \in WaysThereAre
BY Zenon DEF Ways, WaysThereAre

LEMMA WaysLeft ==
    ASSUME NEW w \in WaysThereAre, w # <<>>
    PROVE  Head(w) \in {"direct", "proxy"} /\ Tail(w) \in WaysThereAre
<1>1. /\ Head(<<"direct">>) = "direct" /\ Head(<<"direct", "proxy">>) = "direct"
      /\ Head(<<"proxy">>) = "proxy" /\ Head(<<"proxy", "direct">>) = "proxy"
  OBVIOUS
<1>2. Tail(<<"direct">>) = <<>> /\ Tail(<<"proxy">>) = <<>>
  OBVIOUS
<1>3. Tail(<<"direct", "proxy">>) = <<"proxy">> /\ Tail(<<"proxy", "direct">>) = <<"direct">>
  OBVIOUS
<1> QED  BY Zenon, <1>1, <1>2, <1>3 DEF WaysThereAre

(* A way yields an edition, or nothing.                                    *)
LEMMA YieldIs ==
    ASSUME NEW way \in {"direct", "proxy"}, newest \in Edition
    PROVE  Yield(way) \subseteq Edition
<1>1. PICK older : older = {newest} \cup ({newest - 1} \cap Edition)
  OBVIOUS
<1>2. older \subseteq Edition
  BY <1>1
<1>3. CASE way = "proxy"
<2>1. Yield(way) = IF net["proxy"] THEN older ELSE {}
  BY Zenon, <1>1, <1>3 DEF Yield
<2> QED  BY <1>2, <2>1
<1>4. CASE way = "direct"
<2>1. way # "proxy"
  BY <1>4
<2>2. Yield(way) = (IF net["source"] THEN {newest} ELSE {})
                   \cup (IF net["web"] THEN older ELSE {})
  BY Zenon, <1>1, <1>4, <2>1 DEF Yield
<2> QED  BY <1>2, <2>2
<1> QED  BY <1>3, <1>4

LEMMA AssetsInitInv == AssetsInit => AssetInv
BY ContentIs DEF AssetsInit, AssetInv, AssetsTypeOK, AssetWhole

LEMMA BeliefsRest ==
    ASSUME FetchInv, direct' \in {"unknown", "yes", "no"},
           UNCHANGED <<streak, fails, hot, circuit, job, late, last, harvest>>
    PROVE  FetchInv'
BY DEF FetchInv, FetchTypeOK, CircuitsHonest

LEMMA FetchRests == FetchInv /\ UNCHANGED fetchVars => FetchInv'
<1> SUFFICES ASSUME FetchInv, UNCHANGED fetchVars PROVE FetchInv'
  OBVIOUS
<1>1. UNCHANGED <<direct, streak, fails, hot, circuit, job, late, last, harvest>>
  BY DEF fetchVars
<1> QED  BY <1>1 DEF FetchInv, FetchTypeOK, CircuitsHonest

LEMMA AssetsMove ==
    ASSUME FetchInv, AssetInv, AssetsNext
    PROVE  FetchInv' /\ AssetInv'
<1>1. /\ newest \in Edition /\ body \in Edition /\ asset \in Content /\ temp \in Content
      /\ asset # Torn /\ (refresh \in {"rename", "remove", "rename again"} => temp # Torn)
  BY DEF AssetInv, AssetsTypeOK, AssetWhole
<1>2. ways \in WaysThereAre
  BY DEF AssetInv, AssetsTypeOK, WaysThereAre
<1>15. newest \in 1 .. MaxEditions
  BY <1>1 DEF Edition
<1>16. NewEdition => newest' \in Edition
<2>1. NewEdition => newest < MaxEditions /\ newest' = newest + 1
  BY DEF NewEdition
<2> QED  BY <1>15, <2>1, AssetsAssumption DEF Edition
<1> USE DEF AssetInv, AssetsTypeOK, AssetWhole
<1>3. CASE NewEdition
<2>1. newest' \in Edition
  BY <1>3, <1>16
<2>2. UNCHANGED <<asset, temp, refresh, ways, body>> /\ UNCHANGED fetchVars
  BY <1>3 DEF NewEdition
<2> QED  BY <2>1, <2>2, FetchRests
<1>4. CASE BeginRefresh
<2>1. /\ direct' \in {Access} \cup ({direct} \ {"unknown"}) /\ refresh' = "download"
      /\ \E ok, proxy \in BOOLEAN : ways' = Ways(ok, proxy)
      /\ UNCHANGED <<newest, asset, temp, body>>
      /\ UNCHANGED <<streak, fails, hot, circuit, job, late, last, harvest>>
<3>1. \E alive \in BOOLEAN : ways' = Ways(direct' = "yes", alive)
  BY Zenon, <1>4 DEF BeginRefresh
<3>2. (direct' = "yes") \in BOOLEAN
  OBVIOUS
<3>3. \E ok, proxy \in BOOLEAN : ways' = Ways(ok, proxy)
  BY Zenon, <3>1, <3>2
<3>4. /\ direct' \in {Access} \cup ({direct} \ {"unknown"}) /\ refresh' = "download"
      /\ UNCHANGED <<newest, asset, temp, body>>
      /\ UNCHANGED <<streak, fails, hot, circuit, job, late, last, harvest>>
  BY Zenon, <1>4 DEF BeginRefresh
<3> QED  BY Zenon, <3>3, <3>4
<2>2. ways' \in WaysThereAre
  BY <2>1, WaysAre
<2>3. direct' \in {"unknown", "yes", "no"}
  BY <2>1 DEF Access, FetchInv, FetchTypeOK
<2>4. AssetInv'
  BY <2>1, <2>2 DEF WaysThereAre
<2> QED  BY <2>1, <2>3, <2>4, BeliefsRest
<1>5. CASE Download
<2>1. PICK b \in Yield(Head(ways)) : body' = b
  BY <1>5 DEF Download
<2>2. b \in Edition
  BY <1>1, <1>2, <1>5, <2>1, WaysLeft, YieldIs DEF Download
<2>3. /\ refresh' \in {"idle", "write"} /\ ways' = <<>> /\ UNCHANGED <<newest, asset, temp>>
      /\ UNCHANGED fetchVars
  BY <1>5 DEF Download
<2> QED  BY <2>1, <2>2, <2>3, FetchRests
<1>6. CASE NextWay
<2>1. /\ ways' = Tail(ways) /\ ways # <<>> /\ UNCHANGED <<newest, asset, temp, refresh, body>>
      /\ UNCHANGED fetchVars
  BY <1>6 DEF NextWay
<2>2. ways' \in WaysThereAre
  BY <1>2, <2>1, WaysLeft
<2> QED  BY <2>1, <2>2, FetchRests DEF WaysThereAre
<1>7. CASE GiveUp
<2>1. refresh' = "idle" /\ UNCHANGED <<newest, asset, temp, ways, body>> /\ UNCHANGED fetchVars
  BY <1>7 DEF GiveUp
<2> QED  BY <2>1, FetchRests
<1>8. CASE Write
<2>1. /\ temp' = Torn /\ refresh' = "writing" /\ UNCHANGED <<newest, asset, ways, body>>
      /\ UNCHANGED fetchVars
  BY <1>8 DEF Write
<2> QED  BY <2>1, ContentIs, FetchRests
<1>9. CASE Written
<2>1. /\ UNCHANGED <<newest, asset, ways, body>> /\ UNCHANGED fetchVars
      /\ \/ temp' \in {body, Short} /\ refresh' = "rename"
         \/ refresh' = "idle" /\ temp' = temp
  BY <1>9 DEF Written
<2> QED  BY <1>1, <2>1, ContentIs, FetchRests
<1>10. CASE Rename
<2>1. /\ refresh \in {"rename", "rename again"} /\ asset' = temp /\ temp' = Absent
      /\ refresh' = "idle" /\ UNCHANGED <<newest, ways, body>> /\ UNCHANGED fetchVars
  BY <1>10 DEF Rename
<2> QED  BY <1>1, <2>1, ContentIs, FetchRests
<1>11. CASE RenameRefused
<2>1. /\ refresh \in {"rename", "rename again"} /\ refresh' \in {"remove", "clean"}
      /\ UNCHANGED <<newest, asset, temp, ways, body>> /\ UNCHANGED fetchVars
  BY <1>11 DEF RenameRefused
<2> QED  BY <1>1, <2>1, FetchRests
<1>12. CASE Remove
<2>1. /\ refresh = "remove" /\ refresh' = "rename again" /\ asset' \in {asset, Absent}
      /\ UNCHANGED <<newest, temp, ways, body>> /\ UNCHANGED fetchVars
  BY <1>12 DEF Remove
<2> QED  BY <1>1, <2>1, ContentIs, FetchRests
<1>13. CASE Clean
<2>1. /\ refresh' = "idle" /\ temp' \in {temp, Absent}
      /\ UNCHANGED <<newest, asset, ways, body>> /\ UNCHANGED fetchVars
  BY <1>13 DEF Clean
<2> QED  BY <1>1, <2>1, ContentIs, FetchRests
<1>14. CASE Crash
<2>1. /\ refresh' = "idle" /\ ways' = <<>> /\ direct' = "unknown"
      /\ UNCHANGED <<newest, asset, temp, body>>
      /\ UNCHANGED <<streak, fails, hot, circuit, job, late, last, harvest>>
  BY <1>14 DEF Crash
<2>2. direct' \in {"unknown", "yes", "no"}
  BY <2>1
<2> QED  BY <2>1, <2>2, BeliefsRest
<1> QED
  BY <1>3, <1>4, <1>5, <1>6, <1>7, <1>8, <1>9, <1>10, <1>11, <1>12, <1>13, <1>14
     DEF AssetsNext

-----------------------------------------------------------------------------
(* The detections.                                                         *)

LEMMA SignalsCounted == \A r : Blocked(r) \in 0 .. 3
<1>1. IsFiniteSet({}) /\ Cardinality({}) = 0
  BY FS_EmptySet
<1>2. IsFiniteSet({"cdn"}) /\ Cardinality({"cdn"}) = 1
  BY FS_Singleton
<1>3. IsFiniteSet({"cdn"} \cup {"web"}) /\ Cardinality({"cdn"} \cup {"web"}) \in {1, 2}
<2>1. Cardinality({"cdn"} \cup {"web"}) =
         IF "web" \in {"cdn"} THEN Cardinality({"cdn"}) ELSE Cardinality({"cdn"}) + 1
  BY <1>2, FS_AddElement
<2>2. IsFiniteSet({"cdn"} \cup {"web"})
  BY <1>2, FS_AddElement
<2> QED  BY <1>2, <2>1, <2>2
<1>4. PICK S : S = {"cdn"} \cup {"web"}
  OBVIOUS
<1>5. IsFiniteSet(S \cup {"telegram"}) /\ Cardinality(S \cup {"telegram"}) \in {1, 2, 3}
<2>1. IsFiniteSet(S) /\ Cardinality(S) \in {1, 2}
  BY <1>3, <1>4
<2>2. /\ IsFiniteSet(S \cup {"telegram"})
      /\ Cardinality(S \cup {"telegram"}) =
            IF "telegram" \in S THEN Cardinality(S) ELSE Cardinality(S) + 1
  BY <2>1, FS_AddElement
<2> QED  BY <2>1, <2>2
<1>6. Signal = S \cup {"telegram"}
  BY <1>4 DEF Signal
<1>7. IsFiniteSet(Signal) /\ Cardinality(Signal) \in {1, 2, 3}
  BY <1>5, <1>6
<1>8. ASSUME NEW T \in SUBSET Signal PROVE Cardinality(T) \in 0 .. 3
<2>1. IsFiniteSet(T) /\ Cardinality(T) <= Cardinality(Signal)
  BY <1>7, FS_Subset
<2>2. Cardinality(T) \in Nat
  BY <2>1, FS_CardinalityType
<2> QED  BY <1>7, <2>1, <2>2
<1> QED  BY <1>8 DEF Blocked

Strategies == {"none", "reality", "splithttp", "hysteria2", "websocket"}

(* Every choice is one of the five.                                        *)
LEMMA Selected ==
    ASSUME NEW b \in 0 .. 3, NEW c, NEW r
    PROVE  Select(b, c, r) \in Strategies
<1>9. b >= 3 => b # 2 /\ ~(b < 2)
  OBVIOUS
<1>10. b = 2 => ~(b < 2)
  OBVIOUS
<1>1. PICK g1, g2, g3, g4 : /\ g1 = (c \/ b >= 3) /\ g2 = (~c /\ b = 2)
                            /\ g3 = (~c /\ b < 2 /\ ~r["telegram"])
                            /\ g4 = (~c /\ b < 2 /\ r["telegram"] /\ r["cdn"])
  OBVIOUS
<1>2. Select(b, c, r) = CASE g1 -> "reality" [] g2 -> "splithttp" [] g3 -> "hysteria2"
                           [] g4 -> "websocket" [] OTHER -> "none"
  BY Zenon, <1>1 DEF Select
<1>3. /\ g1 => ~g2 /\ ~g3 /\ ~g4
      /\ g2 => ~g3 /\ ~g4
      /\ g3 => ~g4
  BY Zenon, <1>1, <1>9, <1>10
<1>4. g1 => Select(b, c, r) = "reality"
  BY Zenon, <1>2, <1>3
<1>5. g2 => Select(b, c, r) = "splithttp"
  BY Zenon, <1>2, <1>3
<1>6. g3 => Select(b, c, r) = "hysteria2"
  BY Zenon, <1>2, <1>3
<1>7. g4 => Select(b, c, r) = "websocket"
  BY Zenon, <1>2, <1>3
<1>8. ~g1 /\ ~g2 /\ ~g3 /\ ~g4 => Select(b, c, r) = "none"
  BY Zenon, <1>2
<1> QED  BY <1>4, <1>5, <1>6, <1>7, <1>8 DEF Strategies

DetectorStates == Signal \cup {"idle", "signals", "type", "strategy"}
Findings == [Signal -> {"?", "yes", "no"}]

LEMMA EvasionTypes ==
    EvasionTypeOK <=>
       /\ reachable \in [Signal -> BOOLEAN] /\ blocked \in 0 .. 3 /\ censored \in BOOLEAN
       /\ strategy \in Strategies /\ detector \in [Detector -> DetectorStates]
       /\ found \in [Detector -> Findings] /\ begun \in {"no", "waiting", "done"}
       /\ probes \in 0 .. MaxProbes
BY DEF EvasionTypeOK, Strategies, DetectorStates, Findings

LEMMA FollowingIs ==
    \A x \in Signal \cup {"signals", "type"} : Following[x] \in DetectorStates
<1>1. /\ Following["cdn"] = "web" /\ Following["web"] = "telegram"
      /\ Following["telegram"] = "signals" /\ Following["signals"] = "type"
      /\ Following["type"] = "strategy"
  BY DEF Following
<1> QED  BY <1>1 DEF Signal, DetectorStates

LEMMA NothingFoundType == NothingFound \in Findings
BY DEF NothingFound, Findings

LEMMA EvasionStarts == EvasionInit => EvasionTypeOK
<1> SUFFICES ASSUME EvasionInit PROVE EvasionTypeOK
  OBVIOUS
<1>1. reachable = [s \in Signal |-> FALSE] /\ blocked = 0 /\ censored = FALSE /\ strategy = "none"
  BY DEF EvasionInit
<1>2. /\ detector = [d \in Detector |-> "idle"] /\ found = [d \in Detector |-> NothingFound]
      /\ begun = "no" /\ probes = 0
  BY DEF EvasionInit
<1>3. reachable \in [Signal -> BOOLEAN] /\ censored \in BOOLEAN
  BY <1>1
<1>4. blocked \in 0 .. 3 /\ probes \in 0 .. MaxProbes
  BY <1>1, <1>2, EvasionAssumption
<1>5. detector \in [Detector -> DetectorStates] /\ found \in [Detector -> Findings]
  BY <1>2, NothingFoundType DEF DetectorStates
<1>6. strategy \in Strategies /\ begun \in {"no", "waiting", "done"}
  BY <1>1, <1>2 DEF Strategies
<1> QED  BY <1>3, <1>4, <1>5, <1>6, EvasionTypes

LEMMA EvasionMoves ==
    ASSUME EvasionTypeOK, EvasionNext
    PROVE  EvasionTypeOK'
<1>1. /\ reachable \in [Signal -> BOOLEAN] /\ blocked \in 0 .. 3 /\ censored \in BOOLEAN
      /\ strategy \in Strategies /\ detector \in [Detector -> DetectorStates]
      /\ found \in [Detector -> Findings] /\ begun \in {"no", "waiting", "done"}
      /\ probes \in 0 .. MaxProbes
  BY EvasionTypes
<1>2. Select(blocked, censored, reachable) \in Strategies
  BY <1>1, Selected
<1> SUFFICES /\ reachable' \in [Signal -> BOOLEAN] /\ blocked' \in 0 .. 3
             /\ censored' \in BOOLEAN /\ strategy' \in Strategies
             /\ detector' \in [Detector -> DetectorStates] /\ found' \in [Detector -> Findings]
             /\ begun' \in {"no", "waiting", "done"} /\ probes' \in 0 .. MaxProbes
  BY DEF EvasionTypeOK, Strategies, DetectorStates, Findings
<1>3. ASSUME NEW d \in Detector, BeginDetection(d)
      PROVE  /\ detector' \in [Detector -> DetectorStates] /\ found' \in [Detector -> Findings]
             /\ UNCHANGED <<reachable, blocked, censored, strategy>>
<2>1. /\ detector' = [detector EXCEPT ![d] = "cdn"] /\ found' = [found EXCEPT ![d] = NothingFound]
      /\ UNCHANGED <<reachable, blocked, censored, strategy>>
  BY <1>3 DEF BeginDetection
<2>2. "cdn" \in DetectorStates
  BY DEF DetectorStates, Signal
<2> QED  BY <1>1, <2>1, <2>2, NothingFoundType
<1>4. "start" \in Detector /\ "loop" \in Detector /\ "command" \in Detector
  BY DEF Detector
<1>5. CASE StartEvasion
<2>1. begun' = "waiting" /\ probes' = probes /\ BeginDetection("start")
  BY <1>5 DEF StartEvasion
<2> QED  BY <1>1, <1>3, <1>4, <2>1
<1>6. CASE FirstChoice
<2>1. /\ begun' = "done" /\ strategy' = Select(blocked, censored, reachable)
      /\ UNCHANGED <<reachable, blocked, censored, detector, found, probes>>
  BY <1>6 DEF FirstChoice
<2> QED  BY <1>1, <1>2, <2>1
<1>7. CASE AdaptationLoop
<2>1. begun' = begun /\ probes' = probes /\ BeginDetection("loop")
  BY <1>7 DEF AdaptationLoop
<2> QED  BY <1>1, <1>3, <1>4, <2>1
<1>8. CASE ProbeWithDetails
<2>1. probes < MaxProbes /\ probes' = probes + 1 /\ begun' = begun /\ BeginDetection("command")
  BY <1>8 DEF ProbeWithDetails
<2>2. probes' \in 0 .. MaxProbes
  BY <1>1, <2>1, EvasionAssumption
<2> QED  BY <1>1, <1>3, <1>4, <2>1, <2>2
<1>9. ASSUME NEW d \in Detector, Advance(d), detector[d] \in Signal \cup {"signals", "type"}
      PROVE  /\ detector' \in [Detector -> DetectorStates]
             /\ UNCHANGED <<found, begun, probes>>
<2>1. detector' = [detector EXCEPT ![d] = Following[detector[d]]] /\ UNCHANGED <<found, begun, probes>>
  BY <1>9 DEF Advance
<2>2. Following[detector[d]] \in DetectorStates
  BY <1>9, FollowingIs
<2> QED  BY <1>1, <2>1, <2>2
<1>10. ASSUME NEW d \in Detector, Detect(d)
       PROVE  /\ reachable' \in [Signal -> BOOLEAN] /\ blocked' \in 0 .. 3
              /\ censored' \in BOOLEAN /\ strategy' \in Strategies
              /\ detector' \in [Detector -> DetectorStates]
              /\ found' \in [Detector -> Findings]
              /\ UNCHANGED <<begun, probes>>
<2>1. ASSUME NEW s \in Signal, Probe(d, s)
      PROVE  /\ found' \in [Detector -> Findings]
             /\ UNCHANGED <<reachable, blocked, censored, strategy, detector, begun, probes>>
<3>1. PICK f \in {"yes", "no"} : found' = [found EXCEPT ![d][s] = f]
  BY <2>1 DEF Probe
<3>2. [found[d] EXCEPT ![s] = f] \in Findings
  BY <1>1, <3>1 DEF Findings
<3>3. found' = [found EXCEPT ![d] = [found[d] EXCEPT ![s] = f]]
  BY <3>1
<3>4. found' \in [Detector -> Findings]
  BY <1>1, <3>2, <3>3
<3> QED  BY <2>1, <3>4 DEF Probe
<2>2. CASE StoreSignal(d)
<3>1. PICK s \in Signal : /\ s = detector[d]
                         /\ reachable' = [reachable EXCEPT ![s] = found[d][s] = "yes"]
                         /\ Advance(d) /\ UNCHANGED <<blocked, censored, strategy>>
  BY <2>2 DEF StoreSignal
<3>2. reachable' \in [Signal -> BOOLEAN]
  BY <1>1, <3>1
<3> QED  BY <1>1, <1>9, <3>1, <3>2
<2>3. CASE StoreBlocked(d)
<3>1. /\ detector[d] = "signals" /\ blocked' = Blocked(Seen(d)) /\ Advance(d)
      /\ UNCHANGED <<reachable, censored, strategy>>
  BY <2>3 DEF StoreBlocked
<3> QED  BY <1>1, <1>9, <3>1, SignalsCounted
<2>4. CASE StoreType(d)
<3>1. /\ detector[d] = "type" /\ censored' = Censored(Seen(d)) /\ Advance(d)
      /\ UNCHANGED <<reachable, blocked, strategy>>
  BY <2>4 DEF StoreType
<3>2. censored' \in BOOLEAN
  BY <3>1 DEF Censored
<3> QED  BY <1>1, <1>9, <3>1, <3>2
<2>5. CASE Choose(d)
<3>1. /\ strategy' = (IF d = "start" THEN strategy ELSE Select(blocked, censored, reachable))
      /\ detector' = [detector EXCEPT ![d] = "idle"]
      /\ found' = [found EXCEPT ![d] = NothingFound]
      /\ UNCHANGED <<reachable, blocked, censored, begun, probes>>
  BY <2>5 DEF Choose
<3>2. "idle" \in DetectorStates
  BY DEF DetectorStates
<3> QED  BY <1>1, <1>2, <3>1, <3>2, NothingFoundType
<2> QED  BY <1>1, <1>10, <2>1, <2>2, <2>3, <2>4, <2>5 DEF Detect
<1> QED  BY <1>1, <1>5, <1>6, <1>7, <1>8, <1>10 DEF EvasionNext

-----------------------------------------------------------------------------
(* The network as a whole.                                                 *)

NetInv == ReachTypeOK /\ FetchInv /\ AssetInv /\ EvasionTypeOK

LEMMA NetworkInit == NetInit => NetInv
<1>1. ReachInit => ReachTypeOK
  BY ReachAssumption DEF ReachInit, ReachTypeOK
<1> QED  BY <1>1, FetchInitInv, AssetsInitInv, EvasionStarts DEF NetInit, NetInv

LEMMA ReachRests == ReachTypeOK /\ UNCHANGED reachVars => ReachTypeOK'
BY DEF reachVars, ReachTypeOK

LEMMA AssetsRest == AssetInv /\ UNCHANGED assetVars => AssetInv'
<1> SUFFICES ASSUME AssetInv, UNCHANGED assetVars PROVE AssetInv'
  OBVIOUS
<1>1. UNCHANGED <<newest, asset, temp, refresh, ways, body>>
  BY DEF assetVars
<1> QED  BY <1>1 DEF AssetInv, AssetsTypeOK, AssetWhole

LEMMA EvasionRests == EvasionTypeOK /\ UNCHANGED evasionVars => EvasionTypeOK'
<1> SUFFICES ASSUME EvasionTypeOK, UNCHANGED evasionVars PROVE EvasionTypeOK'
  OBVIOUS
<1>1. UNCHANGED <<reachable, blocked, censored, strategy, detector, found, begun, probes>>
  BY DEF evasionVars
<1> QED  BY <1>1 DEF EvasionTypeOK

LEMMA NetworkStep == NetInv /\ [NetNext]_netVars => NetInv'
<1> SUFFICES ASSUME NetInv, [NetNext]_netVars PROVE NetInv'
  OBVIOUS
<1>1. ReachTypeOK /\ FetchInv /\ AssetInv /\ EvasionTypeOK
  BY DEF NetInv
<1>2. CASE FetchStep(FetchNext)
<2>1. FetchNext /\ UNCHANGED <<reachVars, assetVars, evasionVars>>
  BY <1>2 DEF FetchStep
<2> QED  BY <1>1, <2>1, FetchMoves, ReachRests, AssetsRest, EvasionRests DEF NetInv
<1>3. CASE AssetsStep(AssetsNext)
<2>1. AssetsNext /\ UNCHANGED <<reachVars, evasionVars>>
  BY <1>3 DEF AssetsStep
<2> QED  BY <1>1, <2>1, AssetsMove, ReachRests, EvasionRests DEF NetInv
<1>4. CASE DetectStep(EvasionNext)
<2>1. EvasionNext /\ UNCHANGED <<reachVars, fetchVars, assetVars>>
  BY <1>4 DEF DetectStep
<2> QED  BY <1>1, <2>1, EvasionMoves, ReachRests, FetchRests, AssetsRest DEF NetInv
<1>5. CASE NetChange
<2>1. PICK t \in Target : Change(t)
  BY <1>5 DEF NetChange
<2>2. ReachTypeOK'
<3>1. changes \in 0 .. MaxChanges /\ changes < MaxChanges /\ changes' = changes + 1
  BY <1>1, <2>1 DEF Change, ReachTypeOK
<3>2. changes' \in 0 .. MaxChanges
  BY <3>1, ReachAssumption
<3>3. net' \in [Target -> BOOLEAN]
  BY <1>1, <2>1 DEF Change, ReachTypeOK
<3> QED  BY <3>2, <3>3 DEF ReachTypeOK
<2>3. UNCHANGED <<fetchVars, assetVars, evasionVars>>
  BY <1>5 DEF NetChange
<2> QED  BY <1>1, <2>2, <2>3, FetchRests, AssetsRest, EvasionRests DEF NetInv
<1>6. CASE UNCHANGED netVars
<2>1. UNCHANGED <<reachVars, fetchVars, assetVars, evasionVars>>
  BY <1>6 DEF netVars
<2> QED  BY <1>1, <2>1, ReachRests, FetchRests, AssetsRest, EvasionRests DEF NetInv
<1> QED  BY <1>2, <1>3, <1>4, <1>5, <1>6 DEF NetNext

LEMMA NetworkInductive == NetSpec => []NetInv
BY NetworkInit, NetworkStep, PTL DEF NetSpec

(* A source, and a group of them, is left alone only for failures it had,  *)
(* for every number of failures a circuit takes and any requests that were *)
(* given up (ShunnedForCause; recordSuccess, recordFailure).               *)
THEOREM CircuitsOpenForCause == NetSpec => []ShunnedForCause
<1>1. NetInv => ShunnedForCause
  BY DEF NetInv, FetchInv, AssetInv, NetTypeOK, ShunnedForCause
<1> QED  BY <1>1, NetworkInductive, PTL

(* Nobody finds a rule file that is being written, for any number of       *)
(* editions, ends of the process and renames refused: what is renamed was  *)
(* closed before (AssetWhole; writeBinaryFileAtomic).                      *)
THEOREM AssetStaysWhole == NetSpec => []AssetWhole
<1>1. NetInv => AssetWhole
  BY DEF NetInv, AssetInv
<1> QED  BY <1>1, NetworkInductive, PTL

=============================================================================
