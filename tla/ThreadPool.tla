----------------------------- MODULE ThreadPool -----------------------------
(***************************************************************************)
(* One thread pool of the task manager (class ThreadPool), the tasks       *)
(* submitted to it, and those who submit them and wait for their futures:  *)
(* outside threads (the validator, the cycle, the fetchers) and tasks of   *)
(* the pool itself (detectNetworkConditions runs on the pool, submits      *)
(* three tasks to it and waits for them).  The mutex is held for one step  *)
(* at a time; a notification is a step of its own, after the mutex is      *)
(* released.  pendingTasks() is Len(queue) and activeTasks() the number of *)
(* workers at "run".                                                       *)
(***************************************************************************)
EXTENDS Naturals, FiniteSets, Sequences, SequencesExt

CONSTANTS
    Worker,     \* the threads the pool can come to have
    Initial,    \* the threads the constructor creates
    Job,        \* the tasks
    Caller,     \* the outside threads that submit tasks
    Work,       \* the tasks each caller and each task submits, in order
    Patient,    \* who waits for the futures without a deadline
    NoJob       \* "no task"

Actor == Caller \cup Job

(* The tasks a submits in its first n submissions.                         *)
Submitted(a, n) == {Work[a][i] : i \in 1..n}

ASSUME ThreadPoolAssumption ==
    /\ Initial \subseteq Worker /\ Initial # {}
    /\ Caller \cap Job = {}
    /\ NoJob \notin Job
    /\ Patient \subseteq Actor
    /\ Work \in [Actor -> Seq(Job)]
    /\ \A a, b \in Actor : \A i \in DOMAIN Work[a], k \in DOMAIN Work[b] :
          Work[a][i] = Work[b][k] => a = b /\ i = k

VARIABLES
    queue,      \* tasks_
    stop,       \* stop_
    pc,         \* where each worker is; "none": not created
    task,       \* the task each worker has taken
    phase,      \* where each caller and each task is; "idle": not running
    sent,       \* how many of its tasks each has submitted
    got,        \* how many of their futures it has read
    teardown    \* where the destructor is

vars == <<queue, stop, pc, task, phase, sent, got, teardown>>

-----------------------------------------------------------------------------
Init ==
    /\ queue = <<>>
    /\ stop = FALSE
    /\ pc = [w \in Worker |-> IF w \in Initial THEN "check" ELSE "none"]
    /\ task = [w \in Worker |-> NoJob]
    /\ phase = [a \in Actor |-> IF a \in Caller THEN "submit" ELSE "idle"]
    /\ sent = [a \in Actor |-> 0]
    /\ got = [a \in Actor |-> 0]
    /\ teardown = "no"

Goto(w, where) == pc' = [pc EXCEPT ![w] = where]
Move(a, where) == phase' = [phase EXCEPT ![a] = where]
Sleeping == {w \in Worker : pc[w] = "sleep"}

-----------------------------------------------------------------------------
(* submit, and the callers' loops around it                                *)

(* Put the next task into the queue, mutex held.  A stopped pool throws:   *)
(* the caller's loop ends, and the futures it had are dropped.             *)
Submit(a) ==
    /\ phase[a] = "submit"
    /\ sent[a] < Len(Work[a])
    /\ teardown # "gone"
    /\ IF stop
       THEN /\ Move(a, "done")
            /\ UNCHANGED <<queue, sent>>
       ELSE /\ queue' = Append(queue, Work[a][sent[a] + 1])
            /\ sent' = [sent EXCEPT ![a] = @ + 1]
            /\ Move(a, "notify")
    /\ UNCHANGED <<stop, pc, task, got, teardown>>

(* cv_.notify_one(), mutex released: it wakes one waiting worker, if any   *)
(* waits by now.                                                           *)
Notify(a) ==
    /\ phase[a] = "notify"
    /\ IF Sleeping = {} THEN UNCHANGED pc ELSE \E w \in Sleeping : Goto(w, "check")
    /\ Move(a, "submit")
    /\ UNCHANGED <<queue, stop, task, sent, got, teardown>>

(* Everything is submitted: read the futures, in the order of submission.  *)
(* A task that submits nothing does its work here.                         *)
Collect(a) ==
    /\ phase[a] = "submit"
    /\ sent[a] = Len(Work[a])
    /\ got[a] < sent[a]
    /\ phase[Work[a][got[a] + 1]] = "done"
    /\ got' = [got EXCEPT ![a] = @ + 1]
    /\ UNCHANGED <<queue, stop, pc, task, phase, sent, teardown>>

Return(a) ==
    /\ phase[a] = "submit"
    /\ sent[a] = Len(Work[a])
    /\ got[a] = sent[a]
    /\ Move(a, "done")
    /\ UNCHANGED <<queue, stop, pc, task, sent, got, teardown>>

(* The overall deadline has passed: the remaining futures are not looked   *)
(* at, whether they are ready or not.                                      *)
GiveUp(a) ==
    /\ phase[a] = "submit"
    /\ a \notin Patient
    /\ sent[a] = Len(Work[a])
    /\ got[a] < sent[a]
    /\ Move(a, "done")
    /\ UNCHANGED <<queue, stop, pc, task, sent, got, teardown>>

ActorStep(a) == Submit(a) \/ Notify(a) \/ Collect(a) \/ Return(a) \/ GiveUp(a)

-----------------------------------------------------------------------------
(* workerLoop                                                              *)

(* The predicate of the wait holds and there is a task: take it.           *)
Take(w) ==
    /\ pc[w] = "check"
    /\ queue # <<>>
    /\ task' = [task EXCEPT ![w] = Head(queue)]
    /\ queue' = Tail(queue)
    /\ Goto(w, "taken")
    /\ UNCHANGED <<stop, phase, sent, got, teardown>>

(* wrong variant: wait without a predicate *)
SleepUnchecked(w) ==
    /\ pc[w] = "check"
    /\ Goto(w, "sleep")
    /\ UNCHANGED <<queue, stop, task, phase, sent, got, teardown>>

(* The predicate does not hold: release the mutex and wait, in one step.   *)
Sleep(w) ==
    /\ pc[w] = "check"
    /\ queue = <<>>
    /\ ~stop
    /\ Goto(w, "sleep")
    /\ UNCHANGED <<queue, stop, task, phase, sent, got, teardown>>

(* wrong variant: a stopped worker leaves the queue as it is *)
ExitAtOnce(w) ==
    /\ pc[w] = "check"
    /\ stop
    /\ Goto(w, "exited")
    /\ UNCHANGED <<queue, stop, task, phase, sent, got, teardown>>

(* Stopped and nothing left.                                               *)
Exit(w) ==
    /\ pc[w] = "check"
    /\ queue = <<>>
    /\ stop
    /\ Goto(w, "exited")
    /\ UNCHANGED <<queue, stop, task, phase, sent, got, teardown>>

(* A condition variable may wake a thread for no reason.                   *)
WakeUp(w) ==
    /\ pc[w] = "sleep"
    /\ Goto(w, "check")
    /\ UNCHANGED <<queue, stop, task, phase, sent, got, teardown>>

(* Count the task as active and start it.                                  *)
Begin(w) ==
    /\ pc[w] = "taken"
    /\ Goto(w, "run")
    /\ Move(task[w], "submit")
    /\ UNCHANGED <<queue, stop, task, sent, got, teardown>>

(* The task has set its future, with its value or its exception.           *)
Finish(w) ==
    /\ pc[w] = "run"
    /\ phase[task[w]] = "done"
    /\ task' = [task EXCEPT ![w] = NoJob]
    /\ Goto(w, "check")
    /\ UNCHANGED <<queue, stop, phase, sent, got, teardown>>

WorkerStep(w) == Take(w) \/ Sleep(w) \/ Exit(w) \/ Begin(w) \/ Finish(w)

-----------------------------------------------------------------------------
(* resize only grows, and not after the destructor has started.            *)
Resize ==
    /\ ~stop
    /\ \E S \in SUBSET {w \in Worker : pc[w] = "none"} :
         /\ S # {}
         /\ pc' = [w \in Worker |-> IF w \in S THEN "check" ELSE pc[w]]
    /\ UNCHANGED <<queue, stop, task, phase, sent, got, teardown>>

(* The destructor: stop, tell every worker, join every worker.             *)
TeardownStop ==
    /\ teardown = "no"
    /\ stop' = TRUE
    /\ teardown' = "notify"
    /\ UNCHANGED <<queue, pc, task, phase, sent, got>>

(* wrong variant: only one worker is told *)
TeardownNotifyOne ==
    /\ teardown = "notify"
    /\ IF Sleeping = {} THEN UNCHANGED pc ELSE \E w \in Sleeping : Goto(w, "check")
    /\ teardown' = "join"
    /\ UNCHANGED <<queue, stop, task, phase, sent, got>>

TeardownNotify ==
    /\ teardown = "notify"
    /\ pc' = [w \in Worker |-> IF pc[w] = "sleep" THEN "check" ELSE pc[w]]
    /\ teardown' = "join"
    /\ UNCHANGED <<queue, stop, task, phase, sent, got>>

TeardownJoin ==
    /\ teardown = "join"
    /\ \A w \in Worker : pc[w] \in {"none", "exited"}
    /\ teardown' = "gone"
    /\ UNCHANGED <<queue, stop, pc, task, phase, sent, got>>

Teardown == TeardownStop \/ TeardownNotify \/ TeardownJoin

Next ==
    \/ \E a \in Actor : ActorStep(a)
    \/ \E w \in Worker : WorkerStep(w) \/ WakeUp(w)
    \/ Resize
    \/ Teardown

Spec == Init /\ [][Next]_vars

(* Threads are scheduled, and a task's own work comes to an end (every     *)
(* network operation of the program has a timeout).  Nothing obliges a     *)
(* condition variable to wake a thread by itself, and nobody has to        *)
(* destroy the pool.                                                       *)
FairSpec ==
    /\ Spec
    /\ \A a \in Actor : WF_vars(ActorStep(a))
    /\ \A w \in Worker : WF_vars(WorkerStep(w))
    /\ WF_vars(TeardownNotify \/ TeardownJoin)

-----------------------------------------------------------------------------
(* Type correctness.                                                       *)
TypeOK ==
    /\ queue \in Seq(Job)
    /\ stop \in BOOLEAN
    /\ pc \in [Worker -> {"none", "check", "sleep", "taken", "run", "exited"}]
    /\ task \in [Worker -> Job \cup {NoJob}]
    /\ phase \in [Actor -> {"idle", "submit", "notify", "done"}]
    /\ sent \in [Actor -> Nat] /\ got \in [Actor -> Nat]
    /\ \A a \in Actor : got[a] <= sent[a] /\ sent[a] <= Len(Work[a])
    /\ teardown \in {"no", "notify", "join", "gone"}

(* The tasks submit has accepted.                                          *)
Accepted == UNION {Submitted(a, sent[a]) : a \in Actor}

(* The tasks the workers hold and have not finished.                       *)
Running == {task[w] : w \in {v \in Worker : /\ pc[v] \in {"taken", "run"}
                                            /\ phase[task[v]] # "done"}}

(* No task is run twice or by two workers, and none leaves the pool except *)
(* by being run (submit, workerLoop).                                      *)
ExactlyOnce ==
    /\ IsInjective(queue)
    /\ \A v, w \in Worker : task[v] = task[w] /\ task[v] # NoJob => v = w
    /\ \A w \in Worker : task[w] \notin ToSet(queue)
    /\ \A j \in Accepted :
          j \in ToSet(queue) \/ j \in Running \/ phase[j] = "done"

(* The destructor drains the pool: when it has joined its threads, every   *)
(* task that was accepted has been run, although workers, submitters and   *)
(* the destructor raced for the mutex.                                     *)
NothingAbandoned ==
    teardown = "gone" => \A j \in Accepted : phase[j] = "done"

(* The destructor returns: no worker sleeps through the stop.              *)
DestructorReturns == teardown = "notify" ~> teardown = "gone"

(* The pool is a task queue: first come first started, everything accepted *)
(* is run some time (no lost wakeup, no deadlock of tasks that wait for    *)
(* tasks), nothing is accepted after the stop.                             *)
Finished == {j \in Job : phase[j] = "done"}
Queue == INSTANCE TaskQueue
            WITH running <- Running, finished <- Finished, open <- ~stop
ImplementsTaskQueue == Queue!FairSpec

=============================================================================
