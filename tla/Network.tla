------------------------------ MODULE Network ------------------------------
(***************************************************************************)
(* The parts of the program that depend on which ways out of the network   *)
(* are open: the readers of sources (Fetching), the refresh of the rule    *)
(* files (Assets), and the choice of a way to hide (Evasion).  A behaviour *)
(* is about one of them, and the others rest: they share the network and,  *)
(* the first two, what is believed of the direct way, which Fetching's     *)
(* Recheck and the two ways to begin a refresh take into account.          *)
(***************************************************************************)
EXTENDS Assets, Evasion

CONSTANT
    MaxShifts    \* bound: changes of the network under detections

ASSUME NetworkAssumption == MaxShifts \in 0 .. MaxChanges

VARIABLE part    \* which one a behaviour is about

netVars == <<part, reachVars, fetchVars, assetVars, evasionVars>>

NetInit ==
    /\ part \in {"fetch", "assets", "detect"}
    /\ ReachInit /\ FetchInit /\ AssetsInit /\ EvasionInit

FetchStep(A) ==
    part = "fetch" /\ A /\ UNCHANGED <<part, reachVars, assetVars, evasionVars>>

AssetsStep(A) ==
    part = "assets" /\ A /\ UNCHANGED <<part, reachVars, evasionVars>>

DetectStep(A) ==
    part = "detect" /\ A /\ UNCHANGED <<part, reachVars, fetchVars, assetVars>>

Relevant(t) ==
    \/ part \in {"fetch", "assets"} /\ t \in {"source", "web", "proxy"}
    \/ part = "detect" /\ t \in Signal /\ changes < MaxShifts

NetChange ==
    /\ \E t \in Target : Relevant(t) /\ Change(t)
    /\ UNCHANGED <<part, fetchVars, assetVars, evasionVars>>

NetNext ==
    \/ FetchStep(FetchNext)
    \/ AssetsStep(AssetsNext)
    \/ DetectStep(EvasionNext)
    \/ NetChange

(* Every thread goes on: cycles, scans and harvests come back again and    *)
(* again, the adaptation thread makes its rounds, and a detection under    *)
(* way gets to its end.  The cool-down passes.                             *)
Fairness ==
    /\ \A c \in Client : WF_netVars(FetchStep(BeginRequest(c) \/ Fetch(c)))
    /\ WF_netVars(FetchStep(HarvestCheck \/ HarvestFetch))
    /\ WF_netVars(FetchStep(CoolDown))
    /\ WF_netVars(DetectStep(StartEvasion \/ FirstChoice))
    /\ WF_netVars(DetectStep(AdaptationLoop \/ Detect("loop")))
    /\ \A d \in {"start", "command"} : WF_netVars(DetectStep(Detect(d)))

NetSpec == NetInit /\ [][NetNext]_netVars /\ Fairness

-----------------------------------------------------------------------------
(* Type correctness.                                                       *)
NetTypeOK == ReachTypeOK /\ FetchTypeOK /\ AssetsTypeOK /\ EvasionTypeOK

(* A source is left alone only for failures it had: what a request that    *)
(* was given up writes later, under the next one, opens no circuit too     *)
(* soon and leaves none open without them (CircuitsHonest; recordSuccess,  *)
(* recordFailure and the deadlines of the two fetchers).                   *)
ShunnedForCause == NetTypeOK /\ CircuitsHonest

(* Whenever the process ends, and whatever renames are refused, nobody     *)
(* finds a rule file that is being written: it is there or is missing      *)
(* (writeBinaryFileAtomic).                                                *)
AssetWhole == asset # Torn

(* Whatever was believed of the direct way, however many circuits were     *)
(* open: once the source can be reached again and stays so, every reader   *)
(* gets its content, for good (fetchSingleUrl, FlexibleFetcher and the     *)
(* harvester).                                                             *)
SourceComesBack ==
    <>[]net["source"] =>
        <>[](part = "fetch" => \A r \in Client \cup {"harvest"} : last[r])

(* Once the network stops changing, the strategy becomes the one that      *)
(* suits it, and stays, whatever detections overtook each other before     *)
(* (adaptationLoop).                                                       *)
StrategyFollows == <>[](part = "detect" => strategy = StrategyFor(net))

=============================================================================
