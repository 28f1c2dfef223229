---------------------------- MODULE MCThreadPool ----------------------------
(* Instances of ThreadPool for TLC.                                        *)
EXTENDS ThreadPool, TLC

CONSTANTS w1, w2, w3, harvester, dpi, detect, j1, j2

(* The harvester submits a source; the DPI thread submits a detection that *)
(* submits a probe to the same pool.                                       *)
SmallWork ==
    [a \in {harvester, dpi, detect, j1, j2} |->
        CASE a = harvester -> <<j1>>
          [] a = dpi       -> <<detect>>
          [] a = detect    -> <<j2>>
          [] OTHER         -> <<>>]

(* The tasks that wait for tasks of their own pool.                        *)
Nesting == {j \in Job : Work[j] # <<>>}

(* A pool has at least four threads (models.cpp clamps the sizes of both   *)
(* pools) and one detection at a time: some thread is left for the probes. *)
ASSUME NestingAssumption == Cardinality(Nesting) < Cardinality(Initial)

=============================================================================
