---------------------------- MODULE HealthTable ----------------------------
(***************************************************************************)
(* What the configuration health database promises to the threads that     *)
(* use it, without the counters, timestamps and thresholds it decides by:  *)
(* a table of at most Capacity endpoints, each with what is known of it,   *)
(* and the copy of the table in a file.  Feed has these states for its     *)
(* records, Ingestion has the endpoints and the file alone.                *)
(***************************************************************************)
EXTENDS Naturals, FiniteSets, Functions

CONSTANTS
    Key,         \* the endpoints
    Capacity     \* how many the table holds

VARIABLES
    health,    \* what is known of each endpoint in the table
    saved,     \* the table in the file
    adding     \* does a call that adds endpoints hold the table?

tableVars == <<health, saved, adding>>

TableInit ==
    /\ health = [k \in {} |-> "new"]
    /\ saved = [k \in {} |-> "new"]
    /\ adding = FALSE

Begin ==
    /\ ~adding
    /\ adding' = TRUE
    /\ UNCHANGED <<health, saved>>

(* An endpoint comes in untested, and takes the place of dead ones only,   *)
(* of none while there is room, and never more places than there are.      *)
Add(k) ==
    /\ adding
    /\ k \notin DOMAIN health
    /\ \E gone \in SUBSET {j \in DOMAIN health : health[j] = "dead"} :
          /\ gone # {} => Cardinality(DOMAIN health) >= Capacity
          /\ Cardinality(DOMAIN health \ gone) < Capacity
          /\ health' = [j \in (DOMAIN health \ gone) \cup {k} |->
                           IF j = k THEN "new" ELSE health[j]]
    /\ UNCHANGED <<saved, adding>>

End ==
    /\ adding
    /\ adding' = FALSE
    /\ UNCHANGED <<health, saved>>

(* A test says something of one endpoint: it is not new any more.          *)
Test(k) ==
    /\ ~adding
    /\ k \in DOMAIN health
    /\ \E h \in {"live", "telegram", "dead"} : health' = [health EXCEPT ![k] = h]
    /\ UNCHANGED <<saved, adding>>

Drop(keys) ==
    /\ ~adding
    /\ health' = Restrict(health, DOMAIN health \ keys)
    /\ UNCHANGED <<saved, adding>>

Save ==
    /\ ~adding
    /\ saved' = health
    /\ UNCHANGED <<health, adding>>

(* A new process has what is in the file, in the middle of a call too.     *)
Reload ==
    /\ health' = saved
    /\ adding' = FALSE
    /\ UNCHANGED saved

(* A process that dies while it saves leaves a part in the file.           *)
ReloadPart(part) ==
    /\ ~adding
    /\ saved' = Restrict(health, DOMAIN health \cap part)
    /\ health' = saved'
    /\ UNCHANGED adding

TableNext ==
    \/ Begin
    \/ \E k \in Key : Add(k) \/ Test(k)
    \/ End
    \/ \E keys \in SUBSET Key : Drop(keys) \/ ReloadPart(keys)
    \/ Save
    \/ Reload

TableSpec == TableInit /\ [][TableNext]_tableVars

=============================================================================
