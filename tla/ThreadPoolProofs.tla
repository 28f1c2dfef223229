-------------------------- MODULE ThreadPoolProofs --------------------------
(***************************************************************************)
(* Proofs about ThreadPool, for any number of workers, callers and tasks,  *)
(* and any nesting of tasks that submit tasks: each accepted task is run   *)
(* exactly once, the destructor abandons none, and every step is a step of *)
(* the abstract TaskQueue.                                                 *)
(***************************************************************************)
EXTENDS ThreadPool, SequenceTheorems, TLAPS

(* A worker has a task from Take to Finish; a task that has begun and not  *)
(* ended is at a worker.                                                   *)
Holding ==
    /\ \A w \in Worker :
          /\ pc[w] \in {"taken", "run"} <=> task[w] # NoJob
          /\ pc[w] = "taken" => phase[task[w]] = "idle"
          /\ pc[w] = "run" => phase[task[w]] # "idle"
    /\ \A j \in Job : phase[j] \in {"submit", "notify"} =>
          \E w \in Worker : pc[w] = "run" /\ task[w] = j

(* What is queued has not begun; only what was accepted is queued or held. *)
Waiting ==
    /\ \A j \in ToSet(queue) : j \in Job \cap Accepted /\ phase[j] = "idle"
    /\ \A w \in Worker : task[w] # NoJob => task[w] \in Accepted
    /\ \A j \in Job : phase[j] # "idle" => j \in Accepted

(* A worker leaves only an empty queue that will stay empty.               *)
Draining ==
    /\ stop <=> teardown # "no"
    /\ \E w \in Worker : pc[w] # "none"
    /\ \A w \in Worker : pc[w] = "exited" => stop /\ queue = <<>>
    /\ teardown = "gone" => \A w \in Worker : pc[w] \in {"none", "exited"}

IInv == TypeOK /\ Holding /\ Waiting /\ ExactlyOnce /\ Draining

-----------------------------------------------------------------------------
(* Facts about the queue as a set                                          *)

(* submit puts one more task into the queue.                               *)
LEMMA AppendAdds ==
    ASSUME NEW S, NEW s \in Seq(S), NEW e \in S
    PROVE  /\ Append(s, e) \in Seq(S)
           /\ ToSet(Append(s, e)) = ToSet(s) \cup {e}
           /\ Append(s, e) # <<>>
  <1>1. /\ Append(s, e) \in Seq(S) /\ Append(s, e) # <<>>
        /\ Len(s) \in Nat /\ DOMAIN s = 1..Len(s)
        /\ DOMAIN Append(s, e) = 1..(Len(s) + 1)
    BY AppendProperties, LenProperties
  <1>2. /\ \A i \in 1..Len(s) : Append(s, e)[i] = s[i]
        /\ Append(s, e)[Len(s) + 1] = e
    BY AppendProperties
  <1>3. \A i \in 1..(Len(s) + 1) : i \in 1..Len(s) \/ i = Len(s) + 1
    BY <1>1
  <1> QED BY <1>1, <1>2, <1>3 DEF ToSet

(* A queue without duplicates gets none from a new task.                   *)
LEMMA AppendNew ==
    ASSUME NEW S, NEW s \in Seq(S), NEW e \in S, e \notin ToSet(s),
           IsInjective(s)
    PROVE  IsInjective(Append(s, e))
  <1>1. /\ Len(s) \in Nat /\ DOMAIN s = 1..Len(s)
        /\ DOMAIN Append(s, e) = 1..(Len(s) + 1)
    BY AppendProperties, LenProperties
  <1>2. /\ \A i \in 1..Len(s) : Append(s, e)[i] = s[i]
        /\ Append(s, e)[Len(s) + 1] = e
    BY AppendProperties
  <1>3. \A i \in 1..Len(s) : s[i] # e
    BY <1>1 DEF ToSet
  <1>4. \A i \in 1..(Len(s) + 1) : i \in 1..Len(s) \/ i = Len(s) + 1
    BY <1>1
  <1> QED BY <1>1, <1>2, <1>3, <1>4 DEF IsInjective

(* workerLoop takes the front task out of the queue.                       *)
LEMMA TailRemoves ==
    ASSUME NEW S, NEW s \in Seq(S), s # <<>>, IsInjective(s)
    PROVE  /\ Tail(s) \in Seq(S) /\ Head(s) \in S
           /\ Head(s) \in ToSet(s)
           /\ ToSet(Tail(s)) = ToSet(s) \ {Head(s)}
           /\ IsInjective(Tail(s))
  <1>1. /\ Tail(s) \in Seq(S) /\ Head(s) \in S /\ Head(s) = s[1]
        /\ Len(s) \in Nat /\ Len(s) >= 1 /\ DOMAIN s = 1..Len(s)
        /\ DOMAIN Tail(s) = 1..(Len(s) - 1)
        /\ \A i \in 1..(Len(s) - 1) : Tail(s)[i] = s[i + 1]
    BY HeadTailProperties, EmptySeq, LenProperties
  <1>2. ToSet(Tail(s)) \subseteq ToSet(s) \ {Head(s)}
    BY <1>1 DEF ToSet, IsInjective
  <1>3. ASSUME NEW i \in DOMAIN s, s[i] # Head(s)
        PROVE  s[i] \in ToSet(Tail(s))
    <2>1. i - 1 \in 1..(Len(s) - 1) /\ Tail(s)[i - 1] = s[i]
      BY <1>1, <1>3
    <2> QED BY <2>1, <1>1 DEF ToSet
  <1>4. IsInjective(Tail(s))
    BY <1>1 DEF IsInjective
  <1>5. Head(s) \in ToSet(s)
    BY <1>1 DEF ToSet
  <1>6. ToSet(s) \ {Head(s)} \subseteq ToSet(Tail(s))
    BY <1>3 DEF ToSet
  <1> QED BY <1>1, <1>2, <1>4, <1>5, <1>6, Zenon

(* Each task is submitted once: the next submission is a new task.         *)
LEMMA NextIsNew ==
    ASSUME TypeOK, NEW a \in Actor, sent[a] < Len(Work[a]),
           sent' = [sent EXCEPT ![a] = @ + 1]
    PROVE  /\ Work[a][sent[a] + 1] \in Job
           /\ Work[a][sent[a] + 1] \notin Accepted
           /\ Accepted' = Accepted \cup {Work[a][sent[a] + 1]}
  <1> DEFINE j == Work[a][sent[a] + 1]
  <1>1. \A b \in Actor : Work[b] \in Seq(Job) /\ Len(Work[b]) \in Nat
                          /\ DOMAIN Work[b] = 1..Len(Work[b])
                          /\ sent[b] \in Nat /\ sent[b] <= Len(Work[b])
    BY ThreadPoolAssumption, LenProperties DEF TypeOK
  <1>2. sent[a] + 1 \in DOMAIN Work[a] /\ j \in Job
    BY <1>1, ElementOfSeq
  <1>3. j \notin Accepted
    <2> SUFFICES ASSUME NEW b \in Actor, NEW i \in 1..sent[b], Work[b][i] = j
                 PROVE  FALSE
      BY DEF Accepted, Submitted
    <2>1. i \in DOMAIN Work[b]
      BY <1>1
    <2>2. b = a /\ i = sent[a] + 1
      BY <2>1, <1>2, ThreadPoolAssumption
    <2> QED BY <2>2, <1>1
  <1>4. sent'[a] = sent[a] + 1 /\ \A b \in Actor : b # a => sent'[b] = sent[b]
    BY DEF TypeOK
  <1>5. Submitted(a, sent'[a]) = Submitted(a, sent[a]) \cup {j}
    BY <1>1, <1>4 DEF Submitted
  <1>6. Accepted' = UNION {Submitted(b, sent'[b]) : b \in Actor}
    BY DEF Accepted, Submitted
  <1>7. Accepted' = Accepted \cup {j}
    BY <1>4, <1>5, <1>6 DEF Accepted
  <1> QED BY <1>2, <1>3, <1>7

-----------------------------------------------------------------------------
(* The invariant                                                           *)

(* A new pool satisfies the invariant.                                     *)
LEMMA InitEstablishes == Init => IInv
  <1> SUFFICES ASSUME Init PROVE IInv
    OBVIOUS
  <1> USE ThreadPoolAssumption DEF Init, Actor
  <1>1. ToSet(queue) = {} /\ queue \in Seq(Job)
    BY EmptySeq DEF ToSet
  <1>2. \A a \in Actor : Work[a] \in Seq(Job) /\ Len(Work[a]) \in Nat
    BY LenProperties
  <1>3. Accepted = {}
    BY DEF Accepted, Submitted
  <1>4. TypeOK
    <2>1. \A a \in Actor : got[a] <= sent[a] /\ sent[a] <= Len(Work[a])
      BY <1>2
    <2>2. sent \in [Actor -> Nat] /\ got \in [Actor -> Nat]
      OBVIOUS
    <2>3. phase \in [Actor -> {"idle", "submit", "notify", "done"}]
      OBVIOUS
    <2> QED BY <1>1, <2>1, <2>2, <2>3 DEF TypeOK
  <1>5. Holding
    BY DEF Holding
  <1>6. Waiting
    BY <1>1, <1>3 DEF Waiting
  <1>7. ExactlyOnce
    <2>1. IsInjective(queue)
      BY EmptySeq DEF IsInjective
    <2> QED BY <1>1, <1>3, <2>1 DEF ExactlyOnce
  <1>8. Draining
    BY DEF Draining
  <1> QED BY <1>4, <1>5, <1>6, <1>7, <1>8 DEF IInv

(* What every step may rely on.                                            *)
LEMMA Constants ==
    /\ \A a \in Actor : Work[a] \in Seq(Job) /\ Len(Work[a]) \in Nat
    /\ NoJob \notin Job /\ Job \subseteq Actor /\ Caller \cap Job = {}
  BY ThreadPoolAssumption, LenProperties DEF Actor

(* What a step without a submission leaves accepted.                       *)
LEMMA AcceptedSame == sent' = sent => Accepted' = Accepted
  BY DEF Accepted, Submitted

(* A submission: the new task is queued and nowhere else.                  *)
LEMMA SubmitPreserves ==
    ASSUME IInv, NEW a \in Actor, Submit(a)
    PROVE  IInv'
  <1> USE Constants DEF IInv, TypeOK, Move
  <1>1. CASE stop
    <2>1. /\ phase' = [phase EXCEPT ![a] = "done"] /\ phase[a] = "submit"
          /\ UNCHANGED <<queue, stop, pc, task, sent, got, teardown>>
      BY <1>1 DEF Submit
    <2>2. TypeOK'
      BY <2>1
    <2>3. Holding' /\ Waiting' /\ Draining'
      BY <2>1, AcceptedSame DEF Holding, Waiting, Draining
    <2>4. ExactlyOnce'
      BY <2>1, AcceptedSame DEF ExactlyOnce, Running
    <2> QED BY <2>2, <2>3, <2>4
  <1>2. CASE ~stop
    <2> DEFINE j == Work[a][sent[a] + 1]
    <2>1. /\ sent[a] < Len(Work[a])
          /\ queue' = Append(queue, j)
          /\ sent' = [sent EXCEPT ![a] = @ + 1]
          /\ phase' = [phase EXCEPT ![a] = "notify"] /\ phase[a] = "submit"
          /\ UNCHANGED <<stop, pc, task, got, teardown>>
      BY <1>2 DEF Submit
    <2>2. j \in Job /\ j \notin Accepted /\ Accepted' = Accepted \cup {j}
      BY <2>1, NextIsNew
    <2>3. queue' \in Seq(Job) /\ ToSet(queue') = ToSet(queue) \cup {j}
      BY <2>1, <2>2, AppendAdds
    <2>4. phase[j] = "idle" /\ phase'[j] = "idle" /\ j \notin ToSet(queue)
          /\ \A w \in Worker : task[w] # j
      BY <2>1, <2>2 DEF Waiting
    <2> HIDE DEF j
    <2>5. TypeOK'
      <3>1. sent'[a] = sent[a] + 1 /\ \A b \in Actor : b # a => sent'[b] = sent[b]
        BY <2>1
      <3>2. sent' \in [Actor -> Nat]
        BY <2>1
      <3>3. \A b \in Actor : got'[b] <= sent'[b] /\ sent'[b] <= Len(Work[b])
        BY <2>1, <3>1
      <3> QED BY <2>1, <2>3, <3>2, <3>3
    <2>6. Holding'
      BY <2>1 DEF Holding
    <2>7. Waiting'
      BY <2>1, <2>2, <2>3, <2>4 DEF Waiting
    <2>8. ExactlyOnce'
      <3>1. IsInjective(queue')
        BY <2>1, <2>2, <2>4, AppendNew, Zenon DEF ExactlyOnce
      <3>2. Running' = Running
        BY <2>1 DEF Running, Holding
      <3>3. \A w \in Worker : task'[w] \notin ToSet(queue')
        BY <2>1, <2>3, <2>4 DEF ExactlyOnce
      <3>4. \A i \in Accepted' :
               i \in ToSet(queue') \/ i \in Running' \/ phase'[i] = "done"
        <4>1. \A i \in Accepted : phase[i] = "done" => phase'[i] = "done"
          BY <2>1
        <4> QED BY <2>2, <2>3, <3>2, <4>1 DEF ExactlyOnce
      <3>5. \A v, w \in Worker : task'[v] = task'[w] /\ task'[v] # NoJob => v = w
        BY <2>1 DEF ExactlyOnce
      <3> QED BY <3>1, <3>3, <3>4, <3>5, Zenon DEF ExactlyOnce
    <2>9. Draining'
      BY <1>2, <2>1 DEF Draining
    <2> QED BY <2>5, <2>6, <2>7, <2>8, <2>9
  <1> QED BY <1>1, <1>2

(* The other steps of a caller or a task: the queue stays as it is.        *)
LEMMA ActorPreserves ==
    ASSUME IInv, NEW a \in Actor,
           Notify(a) \/ Collect(a) \/ Return(a) \/ GiveUp(a)
    PROVE  IInv'
  <1> USE Constants, AcceptedSame DEF IInv, TypeOK, Move, Goto, Sleeping
  <1>1. CASE Notify(a)
    <2> USE <1>1 DEF Notify
    <2>1. TypeOK'
      OBVIOUS
    <2>2. Holding'
      BY DEF Holding
    <2>3. Waiting'
      BY DEF Waiting
    <2>4. ExactlyOnce'
      BY DEF ExactlyOnce, Running
    <2>5. Draining'
      BY DEF Draining
    <2> QED BY <2>1, <2>2, <2>3, <2>4, <2>5
  <1>2. CASE Collect(a)
    <2>1. got' \in [Actor -> Nat]
          /\ \A b \in Actor : got'[b] <= sent[b] /\ UNCHANGED sent
      BY <1>2 DEF Collect
    <2> USE <1>2 DEF Collect
    <2>2. TypeOK'
      BY <2>1
    <2>3. Holding' /\ Waiting' /\ Draining'
      BY DEF Holding, Waiting, Draining
    <2>4. ExactlyOnce'
      BY DEF ExactlyOnce, Running
    <2> QED BY <2>2, <2>3, <2>4
  <1>3. CASE Return(a) \/ GiveUp(a)
    <2>1. /\ phase' = [phase EXCEPT ![a] = "done"] /\ phase[a] = "submit"
          /\ UNCHANGED <<queue, stop, pc, task, sent, got, teardown>>
      BY <1>3 DEF Return, GiveUp
    <2>2. TypeOK'
      BY <2>1
    <2>3. Holding' /\ Waiting' /\ Draining'
      BY <2>1 DEF Holding, Waiting, Draining
    <2>4. ExactlyOnce'
      BY <2>1 DEF ExactlyOnce, Running
    <2> QED BY <2>2, <2>3, <2>4
  <1> QED BY <1>1, <1>2, <1>3

(* A worker takes the front task, and the queue holds the others.          *)
LEMMA TakePreserves ==
    ASSUME IInv, NEW w \in Worker, Take(w)
    PROVE  IInv'
  <1> DEFINE j == Head(queue)
             q == Tail(queue)
  <1>1. /\ pc[w] = "check" /\ queue # <<>> /\ queue \in Seq(Job)
        /\ task' = [task EXCEPT ![w] = j] /\ pc' = [pc EXCEPT ![w] = "taken"]
        /\ queue' = q
        /\ UNCHANGED <<stop, phase, sent, got, teardown>>
    BY DEF Take, Goto, IInv, TypeOK
  <1>2. IsInjective(queue)
    BY DEF IInv, ExactlyOnce, IsInjective
  <1>3. /\ q \in Seq(Job) /\ j \in Job /\ j \in ToSet(queue)
        /\ ToSet(q) = ToSet(queue) \ {j}
    BY <1>1, <1>2, TailRemoves, Zenon
  <1>4. IsInjective(q)
    BY <1>1, <1>2, TailRemoves, Zenon
  <1>5. Accepted' = Accepted
    BY <1>1, AcceptedSame
  <1>6. /\ phase[j] = "idle" /\ j \in Accepted /\ j # NoJob
        /\ \A v \in Worker : task[v] # j
    BY <1>3, Constants DEF IInv, Waiting, ExactlyOnce
  <1>7. task[w] = NoJob
    BY <1>1 DEF IInv, Holding, TypeOK
  <1> HIDE DEF j, q
  <1> USE DEF IInv, TypeOK
  <1>8. TypeOK'
    BY <1>1, <1>3
  <1>9. Holding'
    BY <1>1, <1>6 DEF Holding
  <1>10. Waiting'
    BY <1>1, <1>3, <1>5, <1>6 DEF Waiting
  <1>11. ExactlyOnce'
    <2>1. IsInjective(queue')
      BY <1>1, <1>4, Zenon
    <2>2. \A u, v \in Worker : task'[u] = task'[v] /\ task'[u] # NoJob => u = v
      BY <1>1, <1>6 DEF ExactlyOnce
    <2>3. \A v \in Worker : task'[v] \notin ToSet(queue')
      BY <1>1, <1>3, <1>6 DEF ExactlyOnce
    <2>4. Running' = Running \cup {j}
      <3>1. /\ \A v \in Worker \ {w} : pc'[v] = pc[v] /\ task'[v] = task[v]
            /\ pc'[w] = "taken" /\ task'[w] = j /\ phase' = phase
        BY <1>1
      <3> QED BY <1>1, <1>6, <3>1 DEF Running
    <2>5. \A i \in Accepted' :
             i \in ToSet(queue') \/ i \in Running' \/ phase'[i] = "done"
      BY <1>1, <1>3, <1>5, <2>4 DEF ExactlyOnce
    <2> QED BY <2>1, <2>2, <2>3, <2>5, Zenon DEF ExactlyOnce
  <1>12. Draining'
    BY <1>1 DEF Draining
  <1> QED BY <1>8, <1>9, <1>10, <1>11, <1>12

(* The other steps of a worker: nothing enters or leaves the queue.        *)
LEMMA WorkerPreserves ==
    ASSUME IInv, NEW w \in Worker,
           Sleep(w) \/ Exit(w) \/ WakeUp(w) \/ Begin(w) \/ Finish(w)
    PROVE  IInv'
  <1> USE Constants, AcceptedSame DEF IInv, TypeOK, Goto, Move
  <1>1. CASE Sleep(w) \/ Exit(w) \/ WakeUp(w)
    <2>1. /\ pc[w] \in {"check", "sleep"}
          /\ \E where \in {"check", "sleep", "exited"} :
                /\ pc' = [pc EXCEPT ![w] = where]
                /\ where = "exited" => stop /\ queue = <<>>
          /\ UNCHANGED <<queue, stop, task, phase, sent, got, teardown>>
      BY <1>1 DEF Sleep, Exit, WakeUp
    <2>2. TypeOK'
      BY <2>1
    <2>3. Holding'
      BY <2>1 DEF Holding
    <2>4. Waiting'
      BY <2>1 DEF Waiting
    <2>5. ExactlyOnce'
      BY <2>1 DEF ExactlyOnce, Running
    <2>6. Draining'
      BY <2>1 DEF Draining
    <2> QED BY <2>2, <2>3, <2>4, <2>5, <2>6
  <1>2. CASE Begin(w)
    <2>1. task[w] \in Job /\ task[w] \in Actor
      BY <1>2 DEF Begin, Holding
    <2> USE <1>2, <2>1 DEF Begin
    <2>2. TypeOK'
      OBVIOUS
    <2>3. Holding'
      BY DEF Holding, ExactlyOnce
    <2>4. Waiting'
      BY DEF Waiting, ExactlyOnce
    <2>5. ExactlyOnce'
      BY DEF ExactlyOnce, Running, Holding
    <2>6. Draining'
      BY DEF Draining
    <2> QED BY <2>2, <2>3, <2>4, <2>5, <2>6
  <1>3. CASE Finish(w)
    <2> USE <1>3 DEF Finish
    <2>1. TypeOK'
      OBVIOUS
    <2>2. Holding'
      BY DEF Holding
    <2>3. Waiting'
      BY DEF Waiting
    <2>4. ExactlyOnce'
      <3>1. Running' = Running
        BY DEF Running
      <3>2. \A v \in Worker : task'[v] \notin ToSet(queue')
        BY DEF ExactlyOnce, Waiting
      <3> QED BY <3>1, <3>2 DEF ExactlyOnce
    <2>5. Draining'
      BY DEF Draining
    <2> QED BY <2>1, <2>2, <2>3, <2>4, <2>5
  <1> QED BY <1>1, <1>2, <1>3

(* Growing and destroying the pool.                                        *)
LEMMA PoolPreserves ==
    ASSUME IInv, Resize \/ Teardown
    PROVE  IInv'
  <1> USE Constants, AcceptedSame DEF IInv, TypeOK
  <1>1. CASE Resize
    <2>1. PICK S \in SUBSET {w \in Worker : pc[w] = "none"} :
             pc' = [w \in Worker |-> IF w \in S THEN "check" ELSE pc[w]]
      BY <1>1 DEF Resize
    <2>2. ~stop /\ UNCHANGED <<queue, stop, task, phase, sent, got, teardown>>
      BY <1>1 DEF Resize
    <2>3. TypeOK'
      BY <2>1, <2>2
    <2>4. Holding'
      BY <2>1, <2>2 DEF Holding
    <2>5. Waiting'
      BY <2>2 DEF Waiting
    <2>6. ExactlyOnce'
      BY <2>1, <2>2 DEF ExactlyOnce, Running
    <2>7. Draining'
      BY <2>1, <2>2 DEF Draining
    <2> QED BY <2>3, <2>4, <2>5, <2>6, <2>7
  <1>2. CASE Teardown
    <2> USE <1>2 DEF Teardown, TeardownStop, TeardownNotify, TeardownJoin
    <2>1. TypeOK'
      OBVIOUS
    <2>2. Holding'
      BY DEF Holding
    <2>3. Waiting'
      BY DEF Waiting
    <2>4. ExactlyOnce'
      <3>1. \A v \in Worker : pc'[v] \in {"taken", "run"} <=> pc[v] \in {"taken", "run"}
        OBVIOUS
      <3>2. Running' = Running
        BY <3>1 DEF Running
      <3> QED BY <3>2 DEF ExactlyOnce
    <2>5. Draining'
      BY DEF Draining
    <2> QED BY <2>1, <2>2, <2>3, <2>4, <2>5
  <1> QED BY <1>1, <1>2

(* No step leaves the invariant.                                           *)
LEMMA NextPreserves == IInv /\ [Next]_vars => IInv'
  <1> SUFFICES ASSUME IInv, [Next]_vars PROVE IInv'
    OBVIOUS
  <1>1. CASE \E a \in Actor : ActorStep(a)
    BY <1>1, SubmitPreserves, ActorPreserves DEF ActorStep
  <1>2. CASE \E w \in Worker : WorkerStep(w) \/ WakeUp(w)
    BY <1>2, TakePreserves, WorkerPreserves DEF WorkerStep
  <1>3. CASE Resize \/ Teardown
    BY <1>3, PoolPreserves
  <1>4. CASE UNCHANGED vars
    <2> USE <1>4 DEF vars, IInv
    <2>1. Accepted' = Accepted /\ Running' = Running
      BY DEF Accepted, Submitted, Running
    <2>2. TypeOK'
      BY DEF TypeOK
    <2>3. Holding' /\ Waiting' /\ Draining'
      BY <2>1 DEF Holding, Waiting, Draining
    <2>4. ExactlyOnce'
      BY <2>1 DEF ExactlyOnce
    <2> QED BY <2>2, <2>3, <2>4
  <1> QED BY <1>1, <1>2, <1>3, <1>4 DEF Next

-----------------------------------------------------------------------------
(* What follows from it                                                    *)

(* The queue, the workers, the tasks and the futures have their types, and *)
(* nobody reads more futures than it has (ThreadPool, submit).             *)
THEOREM TypeCorrect == Spec => []TypeOK
  <1>1. IInv => TypeOK
    BY DEF IInv
  <1> QED BY InitEstablishes, NextPreserves, <1>1, PTL DEF Spec

(* No task is run twice, by two workers or while it is queued, and none    *)
(* that was accepted is lost (submit, workerLoop).                         *)
THEOREM RunExactlyOnce == Spec => []ExactlyOnce
  <1>1. IInv => ExactlyOnce
    BY DEF IInv
  <1> QED BY InitEstablishes, NextPreserves, <1>1, PTL DEF Spec

(* When the destructor has joined its threads every accepted task is done  *)
(* (~ThreadPool drains the queue).                                         *)
THEOREM DrainedWhenGone == Spec => []NothingAbandoned
  <1>1. ASSUME IInv PROVE NothingAbandoned
    <2> SUFFICES ASSUME teardown = "gone", NEW j \in Accepted
                 PROVE  phase[j] = "done"
      BY DEF NothingAbandoned
    <2>1. PICK w \in Worker : pc[w] = "exited"
      BY <1>1 DEF IInv, Draining
    <2>2. queue = <<>>
      BY <1>1, <2>1 DEF IInv, Draining
    <2>3. ToSet(queue) = {}
      BY <2>2 DEF ToSet
    <2>4. Running = {}
      BY <1>1 DEF IInv, Draining, Running
    <2> QED BY <1>1, <2>3, <2>4 DEF IInv, ExactlyOnce
  <1> QED BY InitEstablishes, NextPreserves, <1>1, PTL DEF Spec

-----------------------------------------------------------------------------
(* The refinement                                                          *)

(* A task that ends its work is the step that finishes it in the queue;    *)
(* an outside caller's end is a stutter.                                   *)
LEMMA EndFinishes ==
    ASSUME IInv, NEW a \in Actor, phase[a] = "submit",
           phase' = [phase EXCEPT ![a] = "done"],
           UNCHANGED <<queue, stop, pc, task>>
    PROVE  [Queue!Next]_(Queue!vars)
  <1> USE Constants DEF IInv, TypeOK
  <1>1. CASE a \in Job
    <2>1. PICK w \in Worker : pc[w] = "run" /\ task[w] = a
      BY <1>1 DEF Holding
    <2>2. a \in Running
      BY <2>1 DEF Running
    <2>3. Running' = Running \ {a}
      BY <1>1 DEF Running, Holding
    <2>4. Finished' = Finished \cup {a}
      BY <1>1 DEF Finished
    <2>5. Queue!Finish(a)
      BY <2>2, <2>3, <2>4 DEF Queue!Finish
    <2> QED BY <1>1, <2>5 DEF Queue!Next
  <1>2. CASE a \in Caller
    <2>1. Running' = Running
      BY <1>2 DEF Running, Holding
    <2>2. Finished' = Finished
      BY <1>2 DEF Finished
    <2> QED BY <2>1, <2>2 DEF Queue!vars
  <1> QED BY <1>1, <1>2 DEF Actor

(* submit is Accept; on a stopped pool it ends the caller.                 *)
LEMMA SubmitAccepts ==
    ASSUME IInv, NEW a \in Actor, Submit(a)
    PROVE  [Queue!Next]_(Queue!vars)
  <1>1. CASE stop
    BY <1>1, EndFinishes DEF Submit, Move
  <1>2. CASE ~stop
    <2> DEFINE j == Work[a][sent[a] + 1]
    <2>1. /\ sent[a] < Len(Work[a]) /\ phase[a] = "submit"
          /\ queue' = Append(queue, j)
          /\ sent' = [sent EXCEPT ![a] = @ + 1]
          /\ phase' = [phase EXCEPT ![a] = "notify"]
          /\ UNCHANGED <<stop, pc, task>>
      BY <1>2 DEF Submit, Move
    <2>2. j \in Job /\ j \notin Accepted
      BY <2>1, NextIsNew DEF IInv
    <2> HIDE DEF j
    <2> USE Constants DEF IInv, TypeOK
    <2>3. j \notin ToSet(queue) /\ phase[j] = "idle"
      BY <2>2 DEF Waiting
    <2>4. j \notin Running /\ j \notin Finished
      BY <2>2, <2>3 DEF Running, Finished, Waiting
    <2>5. Running' = Running /\ Finished' = Finished
      BY <2>1 DEF Running, Finished, Holding
    <2>6. Queue!Accept(j)
      <3>1. j \notin Queue!ToSet(queue)
        BY <2>3, Zenon DEF ToSet, Queue!ToSet
      <3> QED BY <1>2, <2>1, <2>4, <2>5, <3>1, Zenon DEF Queue!Accept
    <2> QED BY <2>2, <2>6 DEF Queue!Next
  <1> QED BY <1>1, <1>2

(* Take is Start.                                                          *)
LEMMA TakeStarts ==
    ASSUME IInv, NEW w \in Worker, Take(w)
    PROVE  [Queue!Next]_(Queue!vars)
  <1>1. /\ pc[w] = "check" /\ queue # <<>> /\ queue \in Seq(Job)
        /\ task' = [task EXCEPT ![w] = Head(queue)]
        /\ pc' = [pc EXCEPT ![w] = "taken"]
        /\ queue' = Tail(queue) /\ UNCHANGED <<stop, phase>>
    BY DEF Take, Goto, IInv, TypeOK
  <1>2. Head(queue) \in ToSet(queue)
    BY <1>1, TailRemoves, Zenon DEF IInv, ExactlyOnce
  <1>3. phase[Head(queue)] = "idle"
    BY <1>2 DEF IInv, Waiting
  <1>4. /\ \A v \in Worker \ {w} : pc'[v] = pc[v] /\ task'[v] = task[v]
        /\ pc'[w] = "taken" /\ task'[w] = Head(queue)
    BY <1>1 DEF IInv, TypeOK
  <1>5. Running' = Running \cup {Head(queue)}
    BY <1>1, <1>3, <1>4 DEF Running
  <1>6. Finished' = Finished
    BY <1>1 DEF Finished
  <1> QED BY <1>1, <1>5, <1>6, Zenon DEF Queue!Start, Queue!Next

(* Every other step changes at most whether the queue is open.             *)
LEMMA OthersStutter ==
    ASSUME IInv,
           \/ \E a \in Actor : Notify(a) \/ Collect(a)
           \/ \E w \in Worker :
                 Sleep(w) \/ Exit(w) \/ WakeUp(w) \/ Begin(w) \/ Finish(w)
           \/ Resize \/ Teardown \/ UNCHANGED vars
    PROVE  [Queue!Next]_(Queue!vars)
  <1> USE Constants DEF IInv, TypeOK, Goto, Move, Sleeping
  <1>1. ASSUME Running' = Running, Finished' = Finished, UNCHANGED <<queue, stop>>
        PROVE  [Queue!Next]_(Queue!vars)
    BY <1>1 DEF Queue!vars
  <1>2. ASSUME NEW a \in Actor, Notify(a) PROVE [Queue!Next]_(Queue!vars)
    <2>1. Running' = Running
      BY <1>2 DEF Notify, Running, Holding
    <2>2. Finished' = Finished
      BY <1>2 DEF Notify, Finished
    <2> QED BY <1>1, <1>2, <2>1, <2>2 DEF Notify
  <1>3. ASSUME NEW a \in Actor, Collect(a) PROVE [Queue!Next]_(Queue!vars)
    BY <1>1, <1>3 DEF Collect, Running, Finished
  <1>4. ASSUME NEW w \in Worker, Sleep(w) \/ Exit(w) \/ WakeUp(w)
        PROVE  [Queue!Next]_(Queue!vars)
    <2>1. \A v \in Worker : pc'[v] \in {"taken", "run"} <=> pc[v] \in {"taken", "run"}
      BY <1>4 DEF Sleep, Exit, WakeUp
    <2>2. UNCHANGED <<queue, stop, task, phase>>
      BY <1>4 DEF Sleep, Exit, WakeUp
    <2>3. Running' = Running
      BY <2>1, <2>2 DEF Running
    <2> QED BY <1>1, <2>2, <2>3 DEF Finished
  <1>5. ASSUME NEW w \in Worker, Begin(w) PROVE [Queue!Next]_(Queue!vars)
    <2>1. task[w] \in Job /\ phase[task[w]] = "idle"
      BY <1>5 DEF Begin, Holding
    <2>2. Running' = Running
      BY <1>5, <2>1 DEF Begin, Running, Holding
    <2>3. Finished' = Finished
      BY <1>5, <2>1 DEF Begin, Finished
    <2> QED BY <1>1, <1>5, <2>2, <2>3 DEF Begin
  <1>6. ASSUME NEW w \in Worker, Finish(w) PROVE [Queue!Next]_(Queue!vars)
    <2>1. Running' = Running
      BY <1>6 DEF Finish, Running
    <2> QED BY <1>1, <1>6, <2>1 DEF Finish, Finished
  <1>7. ASSUME Resize PROVE [Queue!Next]_(Queue!vars)
    <2>1. \A v \in Worker : pc'[v] \in {"taken", "run"} <=> pc[v] \in {"taken", "run"}
      BY <1>7 DEF Resize
    <2>2. Running' = Running
      BY <1>7, <2>1 DEF Resize, Running
    <2> QED BY <1>1, <1>7, <2>2 DEF Resize, Finished
  <1>8. ASSUME TeardownStop PROVE [Queue!Next]_(Queue!vars)
    <2>1. Running' = Running /\ Finished' = Finished
      BY <1>8 DEF TeardownStop, Running, Finished
    <2>2. ~stop
      BY <1>8 DEF TeardownStop, Draining
    <2>3. Queue!Close
      BY <1>8, <2>1, <2>2 DEF TeardownStop, Queue!Close
    <2> QED BY <2>3 DEF Queue!Next
  <1>9. ASSUME TeardownNotify PROVE [Queue!Next]_(Queue!vars)
    <2>1. \A v \in Worker : pc'[v] \in {"taken", "run"} <=> pc[v] \in {"taken", "run"}
      BY <1>9 DEF TeardownNotify
    <2>2. Running' = Running
      BY <1>9, <2>1 DEF TeardownNotify, Running
    <2> QED BY <1>1, <1>9, <2>2 DEF TeardownNotify, Finished
  <1>10. ASSUME TeardownJoin PROVE [Queue!Next]_(Queue!vars)
    BY <1>1, <1>10 DEF TeardownJoin, Running, Finished
  <1>11. ASSUME UNCHANGED vars PROVE [Queue!Next]_(Queue!vars)
    BY <1>1, <1>11 DEF vars, Running, Finished
  <1> QED BY <1>2, <1>3, <1>4, <1>5, <1>6, <1>7, <1>8, <1>9, <1>10, <1>11
          DEF Teardown

(* Whatever the threads do, the pool behaves as a first-in first-out queue *)
(* that starts each accepted task once and accepts none after the stop:    *)
(* the safety part of ImplementsTaskQueue (its liveness is model-checked). *)
THEOREM RefinesTaskQueue == Spec => Queue!Spec
  <1>1. Init => Queue!Init
    <2> SUFFICES ASSUME Init PROVE Queue!Init
      OBVIOUS
    <2>1. Running = {}
      BY DEF Init, Running
    <2>2. Finished = {}
      BY Constants DEF Init, Finished
    <2> QED BY <2>1, <2>2 DEF Init, Queue!Init
  <1>2. IInv /\ [Next]_vars => [Queue!Next]_(Queue!vars)
    <2> SUFFICES ASSUME IInv, [Next]_vars PROVE [Queue!Next]_(Queue!vars)
      OBVIOUS
    <2>1. ASSUME NEW a \in Actor, Return(a) \/ GiveUp(a)
          PROVE  [Queue!Next]_(Queue!vars)
      BY <2>1, EndFinishes DEF Return, GiveUp, Move
    <2> QED BY <2>1, SubmitAccepts, TakeStarts, OthersStutter
            DEF Next, ActorStep, WorkerStep
  <1> QED BY <1>1, <1>2, InitEstablishes, NextPreserves, PTL DEF Spec, Queue!Spec

=============================================================================
