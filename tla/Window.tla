------------------------------- MODULE Window -------------------------------
(***************************************************************************)
(* What the window does besides starting and stopping the program          *)
(* (Lifecycle): the settings and sources (Preferences), the speed of the   *)
(* tests (Speed), the log and the state of a download (LogView), and the   *)
(* tasks of the censorship page (Tasks).  None of them reads what another  *)
(* one writes, so a behaviour is about one of them.                        *)
(***************************************************************************)
EXTENDS Preferences, Speed, LogView, Tasks

VARIABLE side    \* which one a behaviour is about

vars == <<side, prefVars, speedVars, logVars, taskVars>>

Side == {"preferences", "speed", "log", "tasks"}

(* On the other sides, one machine and one kind of process are enough.     *)
Init ==
    /\ side \in Side
    /\ PrefInit /\ LogInit
    /\ TaskInit /\ (side # "tasks" => ~elevated)
    /\ IF side = "speed" THEN \E n \in Cpu, r \in Ram : SpeedInit(n, r)
                         ELSE SpeedInit(4, 50)

Next ==
    \/ side = "preferences" /\ PrefNext /\ UNCHANGED <<side, speedVars, logVars, taskVars>>
    \/ side = "speed" /\ SpeedNext /\ UNCHANGED <<side, prefVars, logVars, taskVars>>
    \/ side = "log" /\ LogNext /\ UNCHANGED <<side, prefVars, speedVars, taskVars>>
    \/ side = "tasks" /\ TaskNext /\ UNCHANGED <<side, prefVars, speedVars, logVars>>

Spec == Init /\ [][Next]_vars

-----------------------------------------------------------------------------
(* Type correctness.                                                       *)
TypeOK == side \in Side /\ PrefTypeOK /\ SpeedTypeOK /\ LogTypeOK /\ TaskTypeOK

(* What the validator works with is in its ranges (SpeedInRange), on every *)
(* machine, at every moment between the stores of two commands and through *)
(* every change of memory and backlog while a batch is being sized         *)
(* (setSpeedProfile, detect, maybeResize, ValidatorWorker::execute).       *)
WorkInRange == TypeOK /\ SpeedInRange

=============================================================================
