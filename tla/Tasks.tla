------------------------------- MODULE Tasks -------------------------------
(***************************************************************************)
(* What the window does in the background for its censorship page: the     *)
(* probe, the discovery of an exit and the bypass, each in a thread of its *)
(* own with a flag and an entry in the table of progress; the mutex under  *)
(* which they, the command worker and the background thread call the       *)
(* orchestrator; the end of the window; and the second, elevated process   *)
(* that a bypass asks for when this one is not elevated.                   *)
(*                                                                         *)
(* What a task does there is a call that takes its time and may throw.     *)
(***************************************************************************)
EXTENDS Integers

CONSTANT
    MaxTasks     \* bound: tasks the user starts

ASSUME TasksAssumption == MaxTasks \in Nat

Task == {"probe", "discovery", "bypass"}
Caller == Task \cup {"command", "snapshot"}
NoCaller == "nobody"

VARIABLES
    elevated,    \* whether the process has administrator rights
    inFlight,    \* probe_in_flight_ and its like
    entry,       \* whether progress_tasks_ has the task
    thread,      \* where the task's thread is
    loose,       \* where the one is that was detached before
    caller,      \* owner of orchestrator_call_mutex_
    result,      \* discovery_result_: which discovery it is from, 0: none
    hasResult,   \* has_discovery_result_
    apply,       \* discovery_apply_requested_
    inputs,      \* the fields of the bypass: which discovery they are from
    handoff,     \* the file for the elevated process
    other,       \* the elevated process
    window,      \* how far the window is in its destruction
    tasks        \* tasks started so far

taskVars == <<elevated, inFlight, entry, thread, loose, caller, result, hasResult, apply,
              inputs, handoff, other, window, tasks>>

(* Where a thread still uses the window.                                   *)
Working == {"begin", "call", "store", "publish", "close entry", "lower flag"}

discovery == <<result, hasResult, apply, inputs>>
elsewhere == <<elevated, handoff, other, window>>

(* The user acts while the window is open.                                 *)
Chosen(k) ==
    /\ window = "open" /\ ~inFlight[k]
    /\ tasks < MaxTasks /\ tasks' = tasks + 1

Launch(k) ==
    /\ inFlight' = [inFlight EXCEPT ![k] = TRUE]
    /\ entry' = [entry EXCEPT ![k] = TRUE]
    /\ thread' = [thread EXCEPT ![k] = "begin"]

(* The thread of the last one is detached, not waited for.                 *)
RunProbeAsync ==
    /\ Chosen("probe") /\ Launch("probe")
    /\ loose' = [loose EXCEPT !["probe"] = thread["probe"]]
    /\ UNCHANGED <<caller, discovery, elsewhere>>

RunDiscoveryAsync ==
    /\ Chosen("discovery") /\ Launch("discovery")
    /\ loose' = [loose EXCEPT !["discovery"] = thread["discovery"]]
    /\ hasResult' = FALSE
    /\ UNCHANGED <<caller, result, apply, inputs, elsewhere>>

(* The bypass needs a discovery; its last thread is waited for.            *)
RunEdgeBypassAsync ==
    /\ Chosen("bypass") /\ hasResult /\ elevated
    /\ thread["bypass"] \notin Working
    /\ inputs' = result
    /\ Launch("bypass")
    /\ UNCHANGED <<loose, caller, result, hasResult, apply, elsewhere>>

(* Without the rights for it the values go to a file, and the user is      *)
(* asked for a second process that has them.                               *)
RelaunchElevated ==
    /\ Chosen("bypass") /\ hasResult /\ ~elevated
    /\ inputs' = result
    /\ \/ handoff' = result /\ other' = "starting"
       \/ handoff' = 0 /\ UNCHANGED other
    /\ UNCHANGED <<inFlight, entry, thread, loose, caller, result, hasResult,
                   apply, elevated, window>>

(* wWinMain: a second process ends when it sees the first one's mutex;     *)
(* otherwise it takes the values and removes the file.                     *)
ElevatedStart ==
    /\ other = "starting"
    /\ IF window = "gone"
       THEN other' = "resumed" /\ handoff' = 0
       ELSE other' = "ended" /\ UNCHANGED handoff
    /\ UNCHANGED <<inFlight, entry, thread, loose, caller, discovery, elevated,
                   window, tasks>>

-----------------------------------------------------------------------------
(* The thread of a task.                                                   *)
Go(k, from, to) ==
    /\ thread[k] = from
    /\ thread' = [thread EXCEPT ![k] = to]

LockCall(k) ==
    /\ Go(k, "begin", "call")
    /\ caller = NoCaller /\ caller' = k
    /\ UNCHANGED <<inFlight, entry, loose, discovery, elsewhere, tasks>>

(* The call returns, or throws: then nothing is stored.                    *)
Return(k) ==
    /\ Go(k, "call", "store") \/ Go(k, "call", "close entry")
    /\ caller' = NoCaller
    /\ UNCHANGED <<inFlight, entry, loose, discovery, elsewhere, tasks>>

Store(k) ==
    /\ Go(k, "store", "publish")
    /\ result' = IF k = "discovery" THEN tasks ELSE result
    /\ UNCHANGED <<inFlight, entry, loose, caller, hasResult, apply, inputs,
                   elsewhere, tasks>>

Publish(k) ==
    /\ Go(k, "publish", "close entry")
    /\ IF k = "discovery"
       THEN hasResult' = TRUE /\ apply' = TRUE
       ELSE UNCHANGED <<hasResult, apply>>
    /\ UNCHANGED <<inFlight, entry, loose, caller, result, inputs, elsewhere, tasks>>

CompleteProgress(k) ==
    /\ Go(k, "close entry", "lower flag")
    /\ entry' = [entry EXCEPT ![k] = FALSE]
    /\ UNCHANGED <<inFlight, loose, caller, discovery, elsewhere, tasks>>

LowerFlag(k) ==
    /\ Go(k, "lower flag", "over")
    /\ inFlight' = [inFlight EXCEPT ![k] = FALSE]
    /\ UNCHANGED <<entry, loose, caller, discovery, elsewhere, tasks>>

(* wrong variant: the flag is lowered before the entry is closed           *)
FlagFirst(k) ==
    \/ /\ Go(k, "close entry", "lower flag")
       /\ inFlight' = [inFlight EXCEPT ![k] = FALSE] /\ UNCHANGED <<entry, loose>>
       /\ UNCHANGED <<caller, discovery, elsewhere, tasks>>
    \/ /\ Go(k, "lower flag", "over") \/ (loose[k] = "lower flag" /\ UNCHANGED thread)
       /\ entry' = [entry EXCEPT ![k] = FALSE]
       /\ UNCHANGED <<inFlight, loose, caller, discovery, elsewhere, tasks>>

End(k) == CompleteProgress(k) \/ LowerFlag(k)

-----------------------------------------------------------------------------
(* The others that call the orchestrator.                                  *)
CallOrchestrator(c) ==
    /\ caller = NoCaller /\ caller' = c
    /\ window = "open"
    /\ UNCHANGED <<inFlight, entry, thread, loose, discovery, elsewhere, tasks>>

EndCall(c) ==
    /\ caller = c /\ caller' = NoCaller
    /\ UNCHANGED <<inFlight, entry, thread, loose, discovery, elsewhere, tasks>>

(* A frame: the fields of the bypass are filled in.                        *)
Frame ==
    /\ window = "open" /\ apply
    /\ apply' = FALSE
    /\ inputs' = IF hasResult THEN result ELSE inputs
    /\ UNCHANGED <<inFlight, entry, thread, loose, caller, result, hasResult,
                   elsewhere, tasks>>

(* ~ImGuiApp: the worker threads end, then the tasks are waited for, in    *)
(* this order.                                                             *)
Destruction == <<"open", "probe", "discovery", "bypass", "closed", "gone">>

Close ==
    \E i \in 1 .. 5 :
        /\ window = Destruction[i] /\ window' = Destruction[i + 1]
        /\ window = "open" => caller \notin {"command", "snapshot"}
        /\ window \in Task => thread[window] \notin Working
        /\ UNCHANGED <<inFlight, entry, thread, loose, caller, discovery,
                       elevated, handoff, other, tasks>>

TaskInit ==
    /\ elevated \in BOOLEAN
    /\ inFlight = [k \in Task |-> FALSE] /\ entry = [k \in Task |-> FALSE]
    /\ thread = [k \in Task |-> "over"] /\ loose = [k \in Task |-> "over"]
    /\ caller = NoCaller
    /\ result = 0 /\ hasResult = FALSE /\ apply = FALSE /\ inputs = 0
    /\ handoff = 0 /\ other = "none"
    /\ window = "open" /\ tasks = 0

TaskNext ==
    \/ RunProbeAsync \/ RunDiscoveryAsync \/ RunEdgeBypassAsync
    \/ RelaunchElevated \/ ElevatedStart
    \/ \E k \in Task : LockCall(k) \/ Return(k) \/ Store(k) \/ Publish(k) \/ End(k)
    \/ \E c \in {"command", "snapshot"} : CallOrchestrator(c) \/ EndCall(c)
    \/ Frame \/ Close

-----------------------------------------------------------------------------
TaskTypeOK ==
    /\ elevated \in BOOLEAN
    /\ inFlight \in [Task -> BOOLEAN] /\ entry \in [Task -> BOOLEAN]
    /\ thread \in [Task -> Working \cup {"over"}]
    /\ loose \in [Task -> Working \cup {"over"}]
    /\ caller \in Caller \cup {NoCaller}
    /\ {result, inputs, handoff, tasks} \subseteq 0 .. MaxTasks
    /\ hasResult \in BOOLEAN /\ apply \in BOOLEAN
    /\ other \in {"none", "starting", "ended", "resumed"}
    /\ window \in {Destruction[i] : i \in 1 .. 6}

(* A thread that can still touch the window belongs to the task that is in *)
(* flight, is shown until it is about to end, and is waited for: one that  *)
(* was detached, or outlives the window, touches nothing any more          *)
(* (RunProbeAsync, RunDiscoveryAsync, RunEdgeBypassAsync, ~ImGuiApp).      *)
TasksOwned ==
    \A k \in Task :
        /\ thread[k] \in Working => inFlight[k]
        /\ entry[k] <=> thread[k] \in Working \ {"lower flag"}
        /\ loose[k] \notin Working
        /\ window \in {"closed", "gone"} => thread[k] \notin Working

=============================================================================
