----------------------------- MODULE TaskQueue -----------------------------
(***************************************************************************)
(* What a ThreadPool promises to those who submit to it: tasks start in    *)
(* the order they were accepted, each once; a closed queue accepts none;   *)
(* and every accepted task is run, also after the queue was closed.        *)
(***************************************************************************)
EXTENDS Sequences, SequencesExt

CONSTANT Job    \* the tasks

VARIABLES
    queue,      \* accepted and not started, oldest first
    running,    \* started and not finished
    finished,   \* finished
    open        \* tasks are accepted

vars == <<queue, running, finished, open>>

Init ==
    /\ queue = <<>>
    /\ running = {} /\ finished = {}
    /\ open = TRUE

Accept(j) ==
    /\ open
    /\ j \notin ToSet(queue) \cup running \cup finished
    /\ queue' = Append(queue, j)
    /\ UNCHANGED <<running, finished, open>>

Start ==
    /\ queue # <<>>
    /\ running' = running \cup {Head(queue)}
    /\ queue' = Tail(queue)
    /\ UNCHANGED <<finished, open>>

Finish(j) ==
    /\ j \in running
    /\ running' = running \ {j}
    /\ finished' = finished \cup {j}
    /\ UNCHANGED <<queue, open>>

Close ==
    /\ open
    /\ open' = FALSE
    /\ UNCHANGED <<queue, running, finished>>

Next == (\E j \in Job : Accept(j) \/ Finish(j)) \/ Start \/ Close

Spec == Init /\ [][Next]_vars

(* A queued task is started some time, a started one is finished some time. *)
FairSpec == Spec /\ WF_vars(Start) /\ \A j \in Job : WF_vars(Finish(j))

=============================================================================
