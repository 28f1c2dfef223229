------------------------------- MODULE Reach -------------------------------
(***************************************************************************)
(* What can be reached at the moment: the source of configurations itself, *)
(* the other hosts that are asked (to see whether the web is there, or for *)
(* a file), the addresses of the CDN and of Telegram, and the source       *)
(* through a local proxy.                                                  *)
(***************************************************************************)
EXTENDS Naturals

CONSTANT
    MaxChanges    \* bound: how often that changes

ASSUME ReachAssumption == MaxChanges \in Nat

Target == {"source", "web", "cdn", "telegram", "proxy"}

VARIABLES
    net,      \* what can be reached
    changes   \* how often that has changed

reachVars == <<net, changes>>

ReachTypeOK == net \in [Target -> BOOLEAN] /\ changes \in 0 .. MaxChanges

ReachInit == net \in {[t \in Target |-> b] : b \in BOOLEAN} /\ changes = 0

Change(t) ==
    /\ changes < MaxChanges
    /\ changes' = changes + 1
    /\ net' = [net EXCEPT ![t] = ~@]

=============================================================================
