------------------------ MODULE ProvisioningProofs ------------------------
(***************************************************************************)
(* The table of ports, for any number of threads, ports, configs and ends  *)
(* of the process: no engine is lost, the slots stay coherent, and a       *)
(* removed config stays off the ports but for those who held it before.    *)
(*                                                                         *)
(* The first two are not inductive.  A slot that is given to a new config  *)
(* must be without an engine, so what the refresh remembers as dead has to *)
(* be down, each slot once, for as long as it holds the mutex; and a port  *)
(* that a new slot gets must be beyond those of the table, so a            *)
(* provisioning must find it as it left it.  Inv adds these, and who may   *)
(* hold the mutex.                                                         *)
(***************************************************************************)
EXTENDS Provisioning, SequenceTheorems, FiniteSetTheorems, TLAPS

Refreshing == {"probe", "select", "telegram", "replace"}

(* All threads go down together, Main only refreshes, the mutex is held    *)
(* where the code says so, and dead slots are remembered by a refresh only.*)
Control ==
    /\ (\A t \in Thread : pc[t] = "down") \/ (\A t \in Thread : pc[t] # "down")
    /\ pc[Main] \in Refreshing \cup {"idle", "down"}
    /\ \A t \in Thread : pc[t] \in Refreshing \cup {"start"} => lock = t
    /\ dead # <<>> => lock = Main /\ pc[Main] \in Refreshing

(* A list to provision fits the ports; the ports given so far come before. *)
Lists ==
    \A t \in Thread :
        /\ pc[t] \in {"provision", "start"} => Len(list[t]) <= PortCount
        /\ pc[t] = "start" => \A i \in DOMAIN slots : slots[i].port < at[t]

(* A slot found down has no engine and is remembered once.                 *)
DeadDown ==
    /\ \A k \in DOMAIN dead :
          /\ dead[k] \in DOMAIN slots
          /\ slots[dead[k]].pid = NoPid
          /\ pc[Main] = "probe" => dead[k] < at[Main]
    /\ \A k, l \in DOMAIN dead : k # l => dead[k] # dead[l]

Apart ==
    \A i, j \in DOMAIN slots : i # j =>
        /\ slots[i].port # slots[j].port
        /\ slots[i].pid = slots[j].pid => slots[i].pid = NoPid

Fields ==
    \A i \in DOMAIN slots :
        /\ slots[i].alive => slots[i].pid # NoPid /\ slots[i].fails = 0
        /\ slots[i].pid # NoPid =>
               slots[i].uri # NoUri /\ slots[i].fails < DeadFails

Inv ==
    /\ TypeOK /\ Control /\ Lists /\ DeadDown
    /\ Apart /\ Fields /\ EnginesOwned

-----------------------------------------------------------------------------
(* Lists                                                                   *)

LEMMA Constants ==
    /\ Main \in Thread /\ Nobody \notin Thread
    /\ Provisioner \subseteq Thread \ {Main} /\ Commander \subseteq Thread \ {Main}
    /\ Feeder \subseteq Thread \ {Main}
    /\ NoUri \notin Uri /\ NoPid \notin Pid
    /\ PortCount \in Nat \ {0} /\ DeadFails \in Nat \ {0}
    /\ TelegramTarget \in Nat /\ MaxChanges \in Nat
  BY ProvisioningAssumption

(* A sorted list of configs is a list of configs.                          *)
LEMMA SortedSeq ==
    ASSUME NEW set \in SUBSET Uri, NEW s \in Sorted(set)
    PROVE  s \in Seq(Uri)
<1>1. IsFiniteSet(set)
  BY ProvisioningAssumption, FS_Subset
<1>2. Cardinality(set) \in Nat
  BY <1>1, FS_CardinalityType
<1>3. s \in [1 .. Cardinality(set) -> set]
  BY DEF Sorted
<1>4. s \in Seq(set)
  BY <1>2, <1>3
<1> QED
  BY <1>4

LEMMA FirstOfSeq ==
    ASSUME NEW S, NEW seq \in Seq(S), NEW n \in Nat
    PROVE  FirstOf(n, seq) \in Seq(S) /\ Len(FirstOf(n, seq)) <= n
  BY SubSeqProperties DEF FirstOf

(* What the list of a provisioning is cut to.                              *)
LEMMA CutToPorts ==
    ASSUME NEW set \in SUBSET Uri, NEW more \in Sorted(set), NEW s \in Seq(Uri)
    PROVE  /\ FirstOf(PortCount, s \o FirstOf(TelegramTarget, more)) \in Seq(Uri)
           /\ Len(FirstOf(PortCount, s \o FirstOf(TelegramTarget, more))) <= PortCount
           /\ s \o FirstOf(TelegramTarget, more) \in Seq(Uri)
<1>1. FirstOf(TelegramTarget, more) \in Seq(Uri)
  BY SortedSeq, FirstOfSeq, Constants
<1>2. s \o FirstOf(TelegramTarget, more) \in Seq(Uri)
  BY <1>1
<1> QED
  BY <1>2, FirstOfSeq, Constants

LEMMA SetsOfUris ==
    ASSUME TypeOK
    PROVE  /\ Live \in SUBSET Uri /\ TelegramOnly \in SUBSET Uri /\ pool \in SUBSET Uri
           /\ \A t \in Thread : ToSet(list[t]) \in SUBSET Uri
  BY DEF TypeOK, Live, TelegramOnly, ToSet

-----------------------------------------------------------------------------
(* The steps                                                               *)

ProvisionStep == \E t \in Thread : Provision(t)
RemovalStep == \E t \in Commander : Removal(t) \/ StopProvisioned(t) \/ StopAll(t)
FeedStep == \E t \in Thread : Feed(t)
EndStep == Crash \/ KillPortOccupants

LEMMA Steps ==
    ASSUME [Next]_vars
    PROVE  ProvisionStep \/ RemovalStep \/ Refresh \/ EndStep \/ Environment
              \/ FeedStep \/ UNCHANGED vars
  BY DEF Next, ProvisionStep, RemovalStep, EndStep, FeedStep

(* Records, the pool and what the threads remember.                        *)
RecordTypes ==
    /\ health \in [Uri -> Health] /\ pool \in SUBSET Uri
    /\ removing \in [Thread -> Uri \cup {NoUri}]
    /\ late \in SUBSET Uri /\ changes \in 0 .. MaxChanges

ListTypes == list \in [Thread -> Seq(Uri)] /\ at \in [Thread -> Nat \ {0}]

PlaceTypes == lock \in Thread \cup {Nobody} /\ pc \in [Thread -> PC]

TableTypes ==
    /\ slots \in Seq(PortSlot)
    /\ engines \subseteq [pid : Pid, port : Port, uri : Uri]
    /\ dead \in Seq(Nat \ {0})

LEMMA TypeParts == TypeOK <=> RecordTypes /\ ListTypes /\ PlaceTypes /\ TableTypes
  BY DEF TypeOK, RecordTypes, ListTypes, PlaceTypes, TableTypes

LEMMA HealthKept ==
    ASSUME health \in [Uri -> Health], NEW u, NEW result \in Health, UpdateHealth(u, result)
    PROVE  health' \in [Uri -> Health]
  BY DEF UpdateHealth

LEMMA RecordStep ==
    ASSUME Inv, [Next]_vars
    PROVE  RecordTypes'
<1> USE Constants DEF RecordTypes, table
<1>0. RecordTypes /\ ListTypes
  BY TypeParts DEF Inv
<1>1. CASE ProvisionStep
  BY <1>0, <1>1 DEF ProvisionStep, Provision, Collect, CollectTelegram, StopOld, StartSlot,
                    Provisioned
<1>2. CASE RemovalStep
  <2>1. ASSUME NEW t \in Commander, NEW u \in Uri, RemoveRecord(t, u)
        PROVE  RecordTypes'
    BY <1>0, <2>1 DEF RemoveRecord, Health
  <2>2. ASSUME NEW t \in Commander, ReadPool(t) \/ StopProvisioned(t)
        PROVE  RecordTypes'
    BY <1>0, <2>2 DEF ReadPool, StopProvisioned
  <2>3. ASSUME NEW t \in Commander, WritePool(t)
        PROVE  RecordTypes'
    <3>1. ToSet(list[t]) \in SUBSET Uri
      BY <1>0 DEF ListTypes, ToSet
    <3> QED
      BY <1>0, <2>3, <3>1 DEF WritePool
  <2>4. ASSUME NEW t \in Commander, Sweep(t)
        PROVE  RecordTypes'
    <3>1. late' = late \cup ({removing[t]} \cap InFlight(t))
      BY <2>4 DEF Sweep
    <3>2. InFlight(t) \subseteq Uri
      BY <1>0 DEF InFlight, ListTypes, ToSet
    <3> QED
      BY <1>0, <2>4, <3>1, <3>2 DEF Sweep
  <2>5. ASSUME NEW t \in Commander, StopAll(t)
        PROVE  RecordTypes'
    BY <1>0, <2>5 DEF StopAll
  <2> QED
    BY <1>2, <2>1, <2>2, <2>3, <2>4, <2>5 DEF RemovalStep, Removal
<1>3. CASE Refresh
  <2>1. health' \in [Uri -> Health]
    <3>1. CASE RefreshBegin \/ Probed
      BY <1>0, <3>1 DEF RefreshBegin, Probed
    <3>2. CASE Probe
      BY <1>0, <3>2, HealthKept DEF Probe, FoundDown, NotDue, ProbeUp, ProbeFailed,
                                    ProbeDead, Health
    <3>3. CASE Replace
      BY <1>0, <3>3, HealthKept DEF Replace, SelectLive, SelectTelegram, Unassigned,
            Replaced, SkipCandidate, FailCandidate, AssignCandidate, Health
    <3> QED
      BY <1>3, <3>1, <3>2, <3>3 DEF Refresh
  <2>2. UNCHANGED <<pool, removing, late, changes>>
    BY <1>3 DEF Refresh, RefreshBegin, Probe, Probed, Replace, FoundDown, NotDue, ProbeUp,
                ProbeFailed, ProbeDead, SelectLive, SelectTelegram, Unassigned, Replaced,
                SkipCandidate, FailCandidate, AssignCandidate
  <2> QED
    BY <1>0, <2>1, <2>2
<1>4. CASE EndStep
  BY <1>0, <1>4 DEF EndStep, Crash, KillPortOccupants
<1>5. CASE Environment
  <2>2. ASSUME NEW u \in Uri, Result(u) \/ Fetched(u)
        PROVE  RecordTypes'
    BY <1>0, <2>2, HealthKept DEF Result, Fetched, Health
  <2>3. ASSUME NEW e \in engines, EngineDies(e)
        PROVE  RecordTypes'
    BY <1>0, <2>3 DEF EngineDies
  <2> QED
    BY <1>5, <2>2, <2>3 DEF Environment
<1>6. CASE UNCHANGED vars
  BY <1>0, <1>6 DEF vars
<1>7. ASSUME NEW t \in Thread, Feed(t)
      PROVE  RecordTypes'
  <2>1. ToSet(list[t]) \in SUBSET Uri
    BY <1>0 DEF ListTypes, ToSet
  <2> QED
    BY <1>0, <1>7, <2>1 DEF Feed, FeedRead, FeedPool
<1> QED
  BY <1>1, <1>2, <1>3, <1>4, <1>5, <1>6, <1>7, Steps DEF FeedStep

LEMMA Emptied ==
    ASSUME ListTypes, NEW t \in Thread
    PROVE  /\ [list EXCEPT ![t] = <<>>] \in [Thread -> Seq(Uri)]
           /\ [at EXCEPT ![t] = 1] \in [Thread -> Nat \ {0}]
           /\ [at EXCEPT ![t] = at[t] + 1] \in [Thread -> Nat \ {0}]
<1>1. [list EXCEPT ![t] = <<>>] \in [Thread -> Seq(Uri)]
  <2>1. <<>> \in Seq(Uri)
    OBVIOUS
  <2> QED
    BY <2>1 DEF ListTypes
<1>2. [at EXCEPT ![t] = 1] \in [Thread -> Nat \ {0}]
  <2>1. 1 \in Nat \ {0}
    OBVIOUS
  <2> QED
    BY <2>1 DEF ListTypes
<1>3. [at EXCEPT ![t] = at[t] + 1] \in [Thread -> Nat \ {0}]
  <2>1. at[t] + 1 \in Nat \ {0}
    BY DEF ListTypes
  <2> QED
    BY <2>1 DEF ListTypes
<1> QED
  BY <1>1, <1>2, <1>3

(* A thread's list changes with its own steps, and holds configs.          *)
LEMMA ListStep ==
    ASSUME Inv, [Next]_vars
    PROVE  ListTypes'
<1> USE Constants DEF ListTypes, table
<1>0. ListTypes /\ TypeOK
  BY TypeParts DEF Inv
<1>1. CASE ProvisionStep
  <2>1. ASSUME NEW t \in Thread, Collect(t)
        PROVE  ListTypes'
    <3>1. PICK best \in Sorted(IF pool # {} THEN pool ELSE Live) :
             list' = [list EXCEPT ![t] = best]
      BY <2>1 DEF Collect, CollectList
    <3>2. best \in Seq(Uri)
      BY <1>0, <3>1, SortedSeq, SetsOfUris
    <3> QED
      BY <1>0, <2>1, <3>1, <3>2 DEF Collect
  <2>2. ASSUME NEW t \in Thread, CollectTelegram(t)
        PROVE  ListTypes'
    <3>1. PICK more \in Sorted(TelegramOnly \ ToSet(list[t])) :
             list' = [list EXCEPT ![t] =
                         FirstOf(PortCount, @ \o FirstOf(TelegramTarget, more))]
      BY <2>2 DEF CollectTelegram
    <3>2. FirstOf(PortCount, list[t] \o FirstOf(TelegramTarget, more)) \in Seq(Uri)
      BY <1>0, <3>1, CutToPorts, SetsOfUris
    <3> QED
      BY <1>0, <2>2, <3>1, <3>2 DEF CollectTelegram
  <2>3. ASSUME NEW t \in Thread, StopOld(t) \/ StartSlot(t) \/ Provisioned(t)
        PROVE  ListTypes'
    <3>1. list' \in {list, [list EXCEPT ![t] = <<>>]}
      BY <2>3 DEF StopOld, StartSlot, Provisioned
    <3>2. at' \in {[at EXCEPT ![t] = 1], [at EXCEPT ![t] = at[t] + 1]}
      BY <2>3 DEF StopOld, StartSlot, Provisioned
    <3>3. list' \in [Thread -> Seq(Uri)]
      <4>1. [list EXCEPT ![t] = <<>>] \in [Thread -> Seq(Uri)]
        BY <1>0, Emptied
      <4> QED
        BY <1>0, <3>1, <4>1
    <3>4. at' \in [Thread -> Nat \ {0}]
      <4>1. /\ [at EXCEPT ![t] = 1] \in [Thread -> Nat \ {0}]
            /\ [at EXCEPT ![t] = at[t] + 1] \in [Thread -> Nat \ {0}]
        BY <1>0, Emptied
      <4> QED
        BY <1>0, <3>2, <4>1
    <3> QED
      BY <3>3, <3>4
  <2> QED
    BY <1>1, <2>1, <2>2, <2>3 DEF ProvisionStep, Provision
<1>2. CASE RemovalStep
  <2>1. ASSUME NEW t \in Commander, ReadPool(t)
        PROVE  ListTypes'
    <3>1. PICK copy \in Sorted(pool \ {removing[t]}) : list' = [list EXCEPT ![t] = copy]
      BY <2>1 DEF ReadPool
    <3>2. copy \in Seq(Uri)
      BY <1>0, <3>1, SortedSeq, SetsOfUris
    <3> QED
      BY <1>0, <2>1, <3>1, <3>2 DEF ReadPool
  <2>2. ASSUME NEW t \in Commander, WritePool(t)
        PROVE  ListTypes'
    BY <1>0, <2>2, Emptied DEF WritePool
  <2>3. CASE UNCHANGED <<list, at>>
    BY <1>0, <2>3
  <2> QED
    BY <1>2, <2>1, <2>2, <2>3 DEF RemovalStep, Removal, RemoveRecord, Sweep,
                                  StopProvisioned, StopAll
<1>3. CASE Refresh
  <2>1. CASE SelectLive
    <3>1. PICK best \in Sorted(Live \ Existing) : list' = [list EXCEPT ![Main] = best]
      BY <2>1 DEF SelectLive
    <3>2. best \in Seq(Uri)
      BY <1>0, <3>1, SortedSeq, SetsOfUris
    <3> QED
      BY <1>0, <2>1, <3>1, <3>2 DEF SelectLive
  <2>2. CASE SelectTelegram
    <3>1. PICK more \in Sorted(TelegramOnly \ Existing), rest \in Sorted(pool \ Existing) :
             list' = [list EXCEPT ![Main] =
                        IF list[Main] \o FirstOf(TelegramTarget, more) = <<>> THEN rest
                        ELSE list[Main] \o FirstOf(TelegramTarget, more)]
      BY <2>2 DEF SelectTelegram
    <3>2. rest \in Seq(Uri)
      BY <1>0, <3>1, SortedSeq, SetsOfUris
    <3>3. list[Main] \o FirstOf(TelegramTarget, more) \in Seq(Uri)
      BY <1>0, <3>1, CutToPorts, SetsOfUris
    <3> QED
      BY <1>0, <2>2, <3>1, <3>2, <3>3 DEF SelectTelegram
  <2>3. ASSUME NEW u \in Uri, SkipCandidate(u) \/ FailCandidate(u) \/ AssignCandidate(u)
        PROVE  ListTypes'
    <3>1. list' = [list EXCEPT ![Main] = Tail(list[Main])] /\ list[Main] # <<>> /\ at' = at
      BY <2>3 DEF SkipCandidate, FailCandidate, AssignCandidate, Candidate, DropCandidate
    <3>2. Tail(list[Main]) \in Seq(Uri)
      BY <1>0, <3>1, HeadTailProperties
    <3> QED
      BY <1>0, <3>1, <3>2
  <2>4. CASE RefreshBegin \/ Probe \/ Probed \/ Unassigned \/ Replaced
    <3>1. list' \in {list, [list EXCEPT ![Main] = <<>>]}
      BY <2>4 DEF RefreshBegin, Probe, Probed, Unassigned, Replaced, FoundDown, NotDue,
                  ProbeUp, ProbeFailed, ProbeDead
    <3>2. at' \in {at, [at EXCEPT ![Main] = 1], [at EXCEPT ![Main] = at[Main] + 1]}
      BY <2>4 DEF RefreshBegin, Probe, Probed, Unassigned, Replaced, FoundDown, NotDue,
                  ProbeUp, ProbeFailed, ProbeDead, NextSlot
    <3>3. list' \in [Thread -> Seq(Uri)]
      <4>1. [list EXCEPT ![Main] = <<>>] \in [Thread -> Seq(Uri)]
        BY <1>0, Emptied
      <4> QED
        BY <1>0, <3>1, <4>1
    <3>4. at' \in [Thread -> Nat \ {0}]
      <4>1. /\ [at EXCEPT ![Main] = 1] \in [Thread -> Nat \ {0}]
            /\ [at EXCEPT ![Main] = at[Main] + 1] \in [Thread -> Nat \ {0}]
        BY <1>0, Emptied
      <4> QED
        BY <1>0, <3>2, <4>1
    <3> QED
      BY <3>3, <3>4
  <2> QED
    BY <1>3, <2>1, <2>2, <2>3, <2>4 DEF Refresh, Replace
<1>4. CASE EndStep
  <2>1. CASE Crash
    <3>1. list' = [t \in Thread |-> <<>>] /\ at' = [t \in Thread |-> 1]
      BY <2>1 DEF Crash
    <3>2. <<>> \in Seq(Uri)
      OBVIOUS
    <3> QED
      BY <3>1, <3>2
  <2>2. CASE KillPortOccupants
    BY <1>0, <2>2 DEF KillPortOccupants
  <2> QED
    BY <1>4, <2>1, <2>2 DEF EndStep
<1>5. CASE Environment
  BY <1>0, <1>5 DEF Environment, Result, Fetched, EngineDies
<1>6. CASE UNCHANGED vars
  BY <1>0, <1>6 DEF vars
<1>7. ASSUME NEW t \in Thread, Feed(t)
      PROVE  ListTypes'
  <2>1. CASE FeedRead(t)
    <3>1. PICK healthy \in Sorted(Live) : list' = [list EXCEPT ![t] = healthy]
      BY <2>1 DEF FeedRead
    <3>2. healthy \in Seq(Uri)
      BY <1>0, <3>1, SortedSeq, SetsOfUris
    <3> QED
      BY <1>0, <2>1, <3>1, <3>2 DEF FeedRead
  <2>2. CASE FeedPool(t)
    BY <1>0, <2>2, Emptied DEF FeedPool
  <2> QED
    BY <1>7, <2>1, <2>2 DEF Feed
<1> QED
  BY <1>1, <1>2, <1>3, <1>4, <1>5, <1>6, <1>7, Steps DEF FeedStep

(* The mutex and the places.                                               *)
LEMMA PlaceStep ==
    ASSUME Inv, [Next]_vars
    PROVE  PlaceTypes' /\ Control'
<1> USE Constants DEF PlaceTypes, Control, Refreshing, Goto, Holds, Take, Release, table
<1>0. PlaceTypes /\ Control
  BY TypeParts DEF Inv
<1> USE DEF PC
<1>1. CASE ProvisionStep
  <2>1. ASSUME NEW t \in Thread, Collect(t) \/ CollectTelegram(t)
        PROVE  PlaceTypes' /\ Control'
    BY <1>0, <2>1 DEF Collect, CollectTelegram
  <2>2. ASSUME NEW t \in Thread, StopOld(t)
        PROVE  PlaceTypes' /\ Control'
    BY <1>0, <2>2 DEF StopOld
  <2>3. ASSUME NEW t \in Thread, StartSlot(t) \/ Provisioned(t)
        PROVE  PlaceTypes' /\ Control'
    BY <1>0, <2>3 DEF StartSlot, Provisioned
  <2> QED
    BY <1>1, <2>1, <2>2, <2>3 DEF ProvisionStep, Provision
<1>2. CASE RemovalStep
  <2>1. ASSUME NEW t \in Commander, \E u \in Uri : RemoveRecord(t, u)
        PROVE  PlaceTypes' /\ Control'
    BY <1>0, <2>1 DEF RemoveRecord
  <2>2. ASSUME NEW t \in Commander, ReadPool(t) \/ WritePool(t)
        PROVE  PlaceTypes' /\ Control'
    BY <1>0, <2>2 DEF ReadPool, WritePool
  <2>3. ASSUME NEW t \in Commander, Sweep(t)
        PROVE  PlaceTypes' /\ Control'
    BY <1>0, <2>3 DEF Sweep
  <2>4. ASSUME NEW t \in Commander, StopProvisioned(t) \/ StopAll(t)
        PROVE  PlaceTypes' /\ Control'
    BY <1>0, <2>4 DEF StopProvisioned, StopAll
  <2> QED
    BY <1>2, <2>1, <2>2, <2>3, <2>4 DEF RemovalStep, Removal
<1>3. CASE Refresh
  <2>1. CASE RefreshBegin
    BY <1>0, <2>1 DEF RefreshBegin
  <2>2. CASE Probe
    BY <1>0, <2>2 DEF Probe, FoundDown, NotDue, ProbeUp, ProbeFailed, ProbeDead
  <2>3. CASE Probed
    BY <1>0, <2>3 DEF Probed
  <2>4. CASE SelectLive \/ SelectTelegram
    BY <1>0, <2>4 DEF SelectLive, SelectTelegram
  <2>5. CASE Unassigned \/ \E u \in Uri : SkipCandidate(u) \/ FailCandidate(u)
                                            \/ AssignCandidate(u)
    BY <1>0, <2>5 DEF Unassigned, SkipCandidate, FailCandidate, AssignCandidate, Candidate
  <2>6. CASE Replaced
    BY <1>0, <2>6 DEF Replaced
  <2> QED
    BY <1>3, <2>1, <2>2, <2>3, <2>4, <2>5, <2>6 DEF Refresh, Replace
<1>4. CASE EndStep
  BY <1>0, <1>4 DEF EndStep, Crash, KillPortOccupants, Start
<1>5. CASE Environment
  BY <1>0, <1>5 DEF Environment, Result, Fetched, EngineDies
<1>6. CASE UNCHANGED vars
  BY <1>0, <1>6 DEF vars
<1>7. ASSUME NEW t \in Thread, Feed(t)
      PROVE  PlaceTypes' /\ Control'
  BY <1>0, <1>7 DEF Feed, FeedRead, FeedPool
<1> QED
  BY <1>1, <1>2, <1>3, <1>4, <1>5, <1>6, <1>7, Steps DEF FeedStep

-----------------------------------------------------------------------------
(* The table                                                               *)

Core == TableTypes /\ Lists /\ DeadDown /\ Apart /\ Fields /\ EnginesOwned

LEMMA InvCore == Inv <=> RecordTypes /\ ListTypes /\ PlaceTypes /\ Control /\ Core
  BY TypeParts DEF Inv, Core

LEMMA SlotPorts ==
    /\ TableTypes => \A i \in DOMAIN slots : slots[i].port \in Nat
    /\ TableTypes' => \A i \in DOMAIN slots' : slots'[i].port \in Nat
<1>1. Port \subseteq Nat
  BY Constants DEF Port
<1>2. TableTypes => \A i \in DOMAIN slots : slots[i] \in PortSlot
  BY DEF TableTypes
<1>3. TableTypes' => \A i \in DOMAIN slots' : slots'[i] \in PortSlot
  BY DEF TableTypes
<1> QED
  BY <1>1, <1>2, <1>3 DEF PortSlot

(* A slot gets new contents, its own engine or none or a new one.          *)
LEMMA SlotChange ==
    ASSUME TableTypes, Apart, Fields, NEW i \in DOMAIN slots, NEW s \in PortSlot,
           s.port = slots[i].port,
           s.pid \in {NoPid, slots[i].pid} \/ s.pid \notin Remembered,
           s.alive => s.pid # NoPid /\ s.fails = 0,
           s.pid # NoPid => s.uri # NoUri /\ s.fails < DeadFails,
           slots' = [slots EXCEPT ![i] = s]
    PROVE  /\ slots' \in Seq(PortSlot) /\ DOMAIN slots' = DOMAIN slots
           /\ slots'[i] = s
           /\ \A j \in DOMAIN slots : j # i => slots'[j] = slots[j]
           /\ \A j \in DOMAIN slots : slots'[j].port = slots[j].port
           /\ Apart' /\ Fields'
<1>1. slots \in Seq(PortSlot)
  BY DEF TableTypes
<1>2. slots' \in Seq(PortSlot) /\ DOMAIN slots' = DOMAIN slots
  BY <1>1
<1>3. slots'[i] = s /\ \A j \in DOMAIN slots : j # i => slots'[j] = slots[j]
  BY <1>1
<1>4. Apart'
  BY <1>2, <1>3 DEF Apart, Remembered
<1>5. Fields'
  BY <1>2, <1>3 DEF Fields
<1> QED
  BY <1>2, <1>3, <1>4, <1>5

(* What a provisioning appends.                                            *)
LEMMA SlotAdded ==
    ASSUME TableTypes, Apart, Fields, NEW s \in PortSlot,
           \A i \in DOMAIN slots : slots[i].port < s.port,
           s.pid = NoPid \/ s.pid \notin Remembered,
           s.alive => s.pid # NoPid /\ s.fails = 0,
           s.pid # NoPid => s.uri # NoUri /\ s.fails < DeadFails,
           slots' = Append(slots, s)
    PROVE  /\ slots' \in Seq(PortSlot)
           /\ DOMAIN slots \subseteq DOMAIN slots'
           /\ \A i \in DOMAIN slots : slots'[i] = slots[i]
           /\ \E i \in DOMAIN slots' : slots'[i] = s
           /\ \A i \in DOMAIN slots' : slots'[i].port <= s.port
           /\ Apart' /\ Fields'
<1>1. slots \in Seq(PortSlot)
  BY DEF TableTypes
<1>2. /\ slots' \in Seq(PortSlot) /\ Len(slots') = Len(slots) + 1
      /\ \A i \in 1 .. Len(slots) : slots'[i] = slots[i]
      /\ slots'[Len(slots) + 1] = s
  BY <1>1, AppendProperties
<1>3. DOMAIN slots = 1 .. Len(slots) /\ DOMAIN slots' = 1 .. Len(slots) + 1
  BY <1>1, <1>2
<1>4. \A i \in DOMAIN slots' : i \in DOMAIN slots \/ i = Len(slots) + 1
  BY <1>1, <1>3
<1>5. s.port \in Nat /\ \A i \in DOMAIN slots : slots[i].port \in Nat
  <2>1. Port \subseteq Nat
    BY Constants DEF Port
  <2>2. \A i \in DOMAIN slots : slots[i] \in PortSlot
    BY <1>1
  <2> QED
    BY <2>1, <2>2 DEF PortSlot
<1>6. \A i \in DOMAIN slots' : slots'[i].port <= s.port
  BY <1>2, <1>3, <1>4, <1>5
<1>7. Apart'
  BY <1>2, <1>3, <1>4, <1>5 DEF Apart, Remembered
<1>8. Fields'
  BY <1>2, <1>3, <1>4 DEF Fields
<1> QED
  BY <1>2, <1>3, <1>6, <1>7, <1>8

(* A step that leaves the table, and the dead slots, as they are.          *)
LEMMA Untouched ==
    ASSUME Core, Control, Control', UNCHANGED <<slots, dead>>,
           engines' \subseteq engines,
           pc'[Main] = "down" \/ pc[Main] # "down",
           \A t \in Thread :
              /\ pc'[t] \in {"provision", "start"} =>
                    Len(list'[t]) <= PortCount
              /\ pc'[t] = "start" =>
                    \A i \in DOMAIN slots : slots[i].port < at'[t],
           pc'[Main] = "probe" =>
              \A k \in DOMAIN dead : dead[k] < at'[Main]
    PROVE  Core'
<1>1. TableTypes' /\ Apart' /\ Fields' /\ Lists'
  BY DEF Core, TableTypes, Apart, Fields, Lists
<1>2. DeadDown'
  BY DEF Core, DeadDown
<1>3. EnginesOwned'
  BY DEF Core, EnginesOwned
<1> QED
  BY <1>1, <1>2, <1>3 DEF Core

(* The table is emptied with its engines, and no refresh is under way.     *)
LEMMA TableEmptied ==
    ASSUME Core, Control, Control', PlaceTypes, slots' = <<>>,
           engines' = WithoutPids(Remembered), dead' = dead, dead = <<>>,
           pc[Main] # "down",
           \A t \in Thread : pc'[t] \in {"provision", "start"} =>
                    Len(list'[t]) <= PortCount
    PROVE  Core'
<1>1. engines' = {}
  BY DEF Core, EnginesOwned, WithoutPids, Remembered
<1>2. TableTypes' /\ Apart' /\ Fields' /\ DeadDown' /\ EnginesOwned'
  BY <1>1 DEF Core, TableTypes, Apart, Fields, DeadDown, EnginesOwned
<1>3. Lists'
  BY DEF Lists
<1> QED
  BY <1>2, <1>3 DEF Core

(* Provisioning: the lists are made, the table is emptied and filled.      *)
LEMMA ProvisionCore ==
    ASSUME Inv, Control', NEW t \in Thread, Provision(t)
    PROVE  Core'
<1> USE Constants DEF Goto, Holds, Take, Release, table
<1>0. /\ Core /\ Control /\ PlaceTypes /\ ListTypes /\ TypeOK
      /\ Core => TableTypes /\ Lists /\ DeadDown /\ Apart /\ Fields /\ EnginesOwned
  BY InvCore, TypeParts DEF Core
<1>1. CASE Collect(t)
  BY <1>0, <1>1, Untouched DEF Collect, PlaceTypes, ListTypes, Lists, DeadDown
<1>2. CASE CollectTelegram(t)
  <2>1. PICK more \in Sorted(TelegramOnly \ ToSet(list[t])) :
           list' = [list EXCEPT ![t] =
                       FirstOf(PortCount, @ \o FirstOf(TelegramTarget, more))]
    BY <1>2 DEF CollectTelegram
  <2>2. Len(list'[t]) <= PortCount
    BY <1>0, <2>1, CutToPorts, SetsOfUris DEF ListTypes
  <2>3. \A s \in Thread : s # t => list'[s] = list[s]
    BY <1>0, <2>1 DEF ListTypes
  <2> QED
    BY <1>0, <1>2, <2>2, <2>3, Untouched
    DEF CollectTelegram, PlaceTypes, ListTypes, Lists, DeadDown
<1>3. CASE StopOld(t)
  <2>1. lock = Nobody /\ dead = <<>> /\ pc[Main] # "down"
    BY <1>0, <1>3 DEF StopOld, Control
  <2> QED
    BY <1>0, <1>3, <2>1, TableEmptied DEF StopOld, PlaceTypes, ListTypes, Lists
<1>4. CASE StartSlot(t)
  <2>1. /\ t # Main /\ dead = <<>> /\ pc[t] = "start" /\ lock = t /\ pc[Main] # "down"
        /\ \A s \in Thread : s # t => pc[s] # "start"
    BY <1>0, <1>4 DEF StartSlot, Control, Refreshing
  <2> DEFINE u == list[t][at[t]]
  <2>2. /\ u \in Uri /\ at[t] \in Port
        /\ \A i \in DOMAIN slots : slots[i].port < at[t]
    BY <1>0, <1>4, <2>1 DEF StartSlot, ListTypes, Lists, Port
  <2>3. /\ pc' = pc /\ list' = list /\ dead' = dead
        /\ at'[t] = at[t] + 1 /\ \A s \in Thread : s # t => at'[s] = at[s]
    BY <1>0, <1>4 DEF StartSlot, ListTypes
  <2>4. CASE UNCHANGED <<slots, engines>>
    <3>1. \A i \in DOMAIN slots : slots[i].port < at[t] + 1
      <4>1. \A i \in DOMAIN slots : slots[i].port \in Nat
        BY <1>0, SlotPorts
      <4> QED
        BY <1>0, <2>2, <4>1 DEF ListTypes
    <3>2. /\ \A s \in Thread : pc'[s] \in {"provision", "start"} => Len(list'[s]) <= PortCount
          /\ \A s \in Thread : pc'[s] = "start" => s = t
      BY <1>0, <2>1, <2>3 DEF Lists
    <3>3. dead = <<>> => \A k \in DOMAIN dead : dead[k] < at'[Main]
      OBVIOUS
    <3> QED
      BY <1>0, <2>1, <2>3, <2>4, <3>1, <3>2, <3>3, Untouched
  <2>5. ASSUME NEW s \in PortSlot, s.port = at[t], s.uri = u,
               s.pid = NoPid \/ s.pid \notin Remembered,
               s.alive => s.pid # NoPid /\ s.fails = 0,
               s.pid # NoPid => s.uri # NoUri /\ s.fails < DeadFails,
               slots' = Append(slots, s),
               engines' \subseteq engines \cup {Engine(s.pid, s.port, s.uri)},
               s.pid = NoPid => engines' = engines
        PROVE  Core'
    <3>1. /\ slots' \in Seq(PortSlot)
          /\ DOMAIN slots \subseteq DOMAIN slots'
          /\ \A i \in DOMAIN slots : slots'[i] = slots[i]
          /\ \E i \in DOMAIN slots' : slots'[i] = s
          /\ \A i \in DOMAIN slots' : slots'[i].port <= s.port
          /\ Apart' /\ Fields'
      BY <1>0, <2>2, <2>5, SlotAdded
    <3>2. TableTypes'
      <4>1. s.pid # NoPid => Engine(s.pid, s.port, s.uri) \in [pid : Pid, port : Port, uri : Uri]
        BY <2>2, <2>5 DEF Engine, PortSlot
      <4> QED
        BY <1>0, <2>3, <2>5, <3>1, <4>1 DEF TableTypes
    <3>3. EnginesOwned'
      BY <1>0, <2>1, <2>3, <2>5, <3>1 DEF EnginesOwned, Engine
    <3>4. DeadDown'
      BY <2>1, <2>3 DEF DeadDown
    <3>5. Lists'
      <4>1. \A i \in DOMAIN slots' : slots'[i].port < at[t] + 1
        <5>1. TableTypes' => \A i \in DOMAIN slots' : slots'[i].port \in Nat
          BY SlotPorts
        <5> QED
          BY <1>0, <2>5, <3>1, <3>2, <5>1 DEF ListTypes
      <4> QED
        BY <1>0, <2>1, <2>3, <4>1 DEF Lists
    <3> QED
      BY <3>1, <3>2, <3>3, <3>4, <3>5 DEF Core
  <2>6. ASSUME NEW p \in FreshPid, slots' = Append(slots, Served(at[t], u, p)),
               engines' = engines \cup {Engine(p, at[t], u)}
        PROVE  Core'
    <3>1. p \in Pid /\ p \notin Remembered
      BY DEF FreshPid
    <3>2. Served(at[t], u, p) \in PortSlot
      BY <2>2, <3>1 DEF Served, PortSlot
    <3> QED
      BY <2>2, <2>5, <2>6, <3>1, <3>2 DEF Served
  <2>7. CASE slots' = Append(slots, NotServed(at[t], u, 0)) /\ UNCHANGED engines
    <3>1. NotServed(at[t], u, 0) \in PortSlot
      BY <2>2 DEF NotServed, PortSlot
    <3> QED
      BY <2>2, <2>5, <2>7, <3>1 DEF NotServed
  <2> QED
    BY <1>4, <2>4, <2>6, <2>7 DEF StartSlot
<1>5. CASE Provisioned(t)
  <2>1. pc[Main] # "start"
    BY <1>0 DEF Control, Refreshing
  <2> QED
    BY <1>0, <1>5, <2>1, Untouched DEF Provisioned, PlaceTypes, ListTypes, Lists, DeadDown
<1> QED
  BY <1>1, <1>2, <1>3, <1>4, <1>5 DEF Provision

(* The refresh changes one slot at a time, and while it holds the mutex    *)
(* nobody provisions.                                                      *)
LEMMA RefreshLists ==
    ASSUME Inv, Control', Refresh
    PROVE  \A t \in Thread :
              /\ pc'[t] \in {"provision", "start"} =>
                    t # Main /\ pc[t] = pc'[t] /\ list'[t] = list[t]
              /\ pc'[t] = "start" =>
                    at'[t] = at[t] /\ (UNCHANGED slots \/ lock = t)
<1>0. PlaceTypes /\ ListTypes /\ Control
  BY TypeParts DEF Inv
<1>1. pc'[Main] \notin {"provision", "start"}
  BY DEF Control, Refreshing
<1>2. \A t \in Thread : t # Main => pc'[t] = pc[t] /\ list'[t] = list[t] /\ at'[t] = at[t]
  BY <1>0
  DEF Refresh, RefreshBegin, Probe, Probed, Replace, FoundDown, NotDue, ProbeUp, ProbeFailed,
      ProbeDead, SelectLive, SelectTelegram, Unassigned, Replaced, SkipCandidate,
      FailCandidate, AssignCandidate, DropCandidate, NextSlot, Goto, PlaceTypes, ListTypes
<1>3. \A t \in Thread : pc'[t] = "start" => lock = t
  BY <1>1, <1>2, <1>0 DEF Control
<1> QED
  BY <1>1, <1>2, <1>3

(* A probe changes at most the slot it is at, which keeps its engine or is *)
(* remembered as dead without one.                                         *)
LEMMA ProbeCore ==
    ASSUME Inv, Control', Probe
    PROVE  Core'
<1> USE Constants DEF Holds, NextSlot, table
<1>0. /\ Core /\ Control /\ PlaceTypes /\ ListTypes
      /\ TableTypes /\ Lists /\ DeadDown /\ Apart /\ Fields /\ EnginesOwned
  BY InvCore DEF Core
<1> DEFINE i == at[Main]
<1>1. /\ pc' = pc /\ lock' = lock /\ list' = list /\ lock = Main /\ pc[Main] = "probe"
      /\ i \in DOMAIN slots /\ i \in Nat \ {0} /\ at'[Main] = i + 1
      /\ \A t \in Thread : t # Main => at'[t] = at[t]
      /\ slots[i] \in PortSlot
  BY <1>0 DEF Probe, FoundDown, NotDue, ProbeUp, ProbeFailed, ProbeDead, ListTypes, TableTypes
<1>2. \A t \in Thread : pc[t] # "start"
  BY <1>0, <1>1 DEF Control, Refreshing
<1>3. Lists'
  BY <1>0, <1>1, <1>2 DEF Lists
<1>4. \A k \in DOMAIN dead : dead[k] \in Nat \ {0} /\ dead[k] < i /\ dead[k] < i + 1
  BY <1>0, <1>1 DEF TableTypes, DeadDown
<1>5. ASSUME dead' = Append(dead, i), DOMAIN slots' = DOMAIN slots, slots'[i].pid = NoPid,
             \A j \in DOMAIN slots : j # i => slots'[j] = slots[j]
      PROVE  DeadDown' /\ dead' \in Seq(Nat \ {0})
  <2>1. /\ dead \in Seq(Nat \ {0}) /\ dead' \in Seq(Nat \ {0}) /\ Len(dead') = Len(dead) + 1
        /\ \A k \in 1 .. Len(dead) : dead'[k] = dead[k]
        /\ dead'[Len(dead) + 1] = i
    BY <1>0, <1>1, <1>5, AppendProperties DEF TableTypes
  <2>2. \A k \in DOMAIN dead' : k \in DOMAIN dead \/ k = Len(dead) + 1
    BY <2>1
  <2>3. ASSUME NEW k \in DOMAIN dead'
        PROVE  /\ dead'[k] \in DOMAIN slots'
               /\ slots'[dead'[k]].pid = NoPid
               /\ dead'[k] < at'[Main]
    <3>1. CASE k \in DOMAIN dead
      <4>1. dead'[k] = dead[k] /\ dead[k] # i
        BY <1>4, <2>1, <3>1
      <4>2. dead[k] \in DOMAIN slots /\ slots[dead[k]].pid = NoPid
        BY <1>0, <3>1 DEF DeadDown
      <4> QED
        BY <1>1, <1>4, <1>5, <3>1, <4>1, <4>2
    <3>2. CASE k = Len(dead) + 1
      BY <1>1, <1>5, <2>1, <3>2
    <3> QED
      BY <2>2, <3>1, <3>2
  <2>4. \A k, l \in DOMAIN dead' : k # l => dead'[k] # dead'[l]
    BY <1>0, <1>1, <1>4, <1>5, <2>1, <2>2 DEF DeadDown
  <2> QED
    BY <2>1, <2>3, <2>4 DEF DeadDown
<1>6. CASE FoundDown
  <2>1. UNCHANGED <<slots, engines>> /\ dead' = Append(dead, i) /\ slots[i].pid = NoPid
    BY <1>6 DEF FoundDown, Down
  <2>2. TableTypes' /\ DeadDown'
    BY <1>0, <1>1, <1>5, <2>1 DEF TableTypes
  <2> QED
    BY <1>0, <1>1, <1>3, <2>1, <2>2 DEF Core, Apart, Fields, EnginesOwned
<1>7. CASE NotDue
  <2>1. UNCHANGED <<slots, engines, dead>>
    BY <1>7 DEF NotDue
  <2>2. DeadDown'
    BY <1>0, <1>1, <1>4, <2>1 DEF DeadDown
  <2> QED
    BY <1>0, <1>1, <1>3, <2>1, <2>2 DEF Core, TableTypes, Apart, Fields, EnginesOwned
<1>8. ASSUME NEW s \in PortSlot, s.port = slots[i].port, s.uri = slots[i].uri,
             s.pid = slots[i].pid,
             s.alive => s.pid # NoPid /\ s.fails = 0,
             s.pid # NoPid => s.fails < DeadFails,
             slots' = [slots EXCEPT ![i] = s], UNCHANGED <<engines, dead>>
      PROVE  Core'
  <2>1. s.pid # NoPid => s.uri # NoUri
    BY <1>0, <1>1, <1>8 DEF Fields
  <2>2. /\ slots' \in Seq(PortSlot) /\ DOMAIN slots' = DOMAIN slots
        /\ slots'[i] = s
        /\ \A j \in DOMAIN slots : j # i => slots'[j] = slots[j]
        /\ Apart' /\ Fields'
    BY <1>0, <1>1, <1>8, <2>1, SlotChange
  <2>3. \A j \in DOMAIN slots : /\ slots'[j].pid = slots[j].pid /\ slots'[j].uri = slots[j].uri
                                /\ slots'[j].port = slots[j].port
    BY <1>8, <2>2
  <2>4. DeadDown'
    BY <1>0, <1>1, <1>4, <1>8, <2>2, <2>3 DEF DeadDown
  <2>5. EnginesOwned'
    BY <1>0, <1>1, <1>8, <2>2, <2>3 DEF EnginesOwned
  <2>6. TableTypes'
    BY <1>0, <1>8, <2>2 DEF TableTypes
  <2> QED
    BY <1>3, <2>2, <2>4, <2>5, <2>6 DEF Core
<1>9. CASE ProbeUp
  <2>0. PICK slot \in PortSlot : slot = slots[i]
    BY <1>1
  <2> DEFINE s == [slot EXCEPT !.alive = TRUE, !.fails = 0]
  <2>1. slots' = [slots EXCEPT ![i] = s] /\ UNCHANGED <<engines, dead>>
    BY <1>1, <1>9, <2>0 DEF ProbeUp
  <2>2. slots[i].pid # NoPid
    BY <1>0, <1>1, <1>9 DEF ProbeUp, Down, Fields
  <2>3. s \in PortSlot /\ s.port = slot.port /\ s.uri = slot.uri /\ s.pid = slot.pid
    <3>1. 0 \in 0 .. DeadFails
      OBVIOUS
    <3> QED
      BY <3>1 DEF PortSlot
  <2>4. s.fails = 0
    BY DEF PortSlot
  <2> HIDE DEF s
  <2>5. s.fails < DeadFails
    BY <2>4
  <2> QED
    BY <1>8, <2>0, <2>1, <2>2, <2>3, <2>4, <2>5
<1>10. CASE ProbeFailed
  <2>0. PICK slot \in PortSlot : slot = slots[i]
    BY <1>1
  <2> DEFINE s == [slot EXCEPT !.alive = FALSE, !.fails = slot.fails + 1]
  <2>1. slots' = [slots EXCEPT ![i] = s] /\ UNCHANGED <<engines, dead>>
    BY <1>1, <1>10, <2>0 DEF ProbeFailed
  <2>2. slot.fails + 1 < DeadFails
    BY <1>10, <2>0 DEF ProbeFailed
  <2>3. slot.fails + 1 \in 0 .. DeadFails
    <3>1. slot.fails \in 0 .. DeadFails
      BY DEF PortSlot
    <3> QED
      BY <2>2, <3>1
  <2>4. s \in PortSlot /\ s.port = slot.port /\ s.uri = slot.uri /\ s.pid = slot.pid
    BY <2>3 DEF PortSlot
  <2>5. ~s.alive /\ s.fails < DeadFails
    BY <2>2 DEF PortSlot
  <2> HIDE DEF s
  <2> QED
    BY <1>8, <2>0, <2>1, <2>4, <2>5
<1>11. CASE ProbeDead
  <2> DEFINE s == NotServed(slots[i].port, slots[i].uri, DeadFails)
  <2>1. /\ slots' = [slots EXCEPT ![i] = s] /\ dead' = Append(dead, i)
        /\ engines' = WithoutPids({slots[i].pid})
    BY <1>11 DEF ProbeDead
  <2>2. /\ s \in PortSlot /\ s.port = slots[i].port /\ s.pid = NoPid /\ ~s.alive
    BY <1>1 DEF PortSlot, NotServed
  <2> HIDE DEF s
  <2>3. /\ slots' \in Seq(PortSlot) /\ DOMAIN slots' = DOMAIN slots
        /\ slots'[i] = s
        /\ \A j \in DOMAIN slots : j # i => slots'[j] = slots[j]
        /\ Apart' /\ Fields'
    BY <1>0, <1>1, <2>1, <2>2, SlotChange
  <2>4. DeadDown' /\ TableTypes'
    BY <1>0, <1>5, <2>1, <2>2, <2>3 DEF TableTypes, WithoutPids
  <2>5. EnginesOwned'
    BY <1>0, <1>1, <2>1, <2>2, <2>3 DEF EnginesOwned, WithoutPids
  <2> QED
    BY <1>3, <2>3, <2>4, <2>5 DEF Core
<1> QED
  BY <1>6, <1>7, <1>9, <1>10, <1>11 DEF Probe

(* The first of the dead slots is given to a config, or to none, and is no *)
(* longer among them.                                                      *)
LEMMA DeadTail ==
    ASSUME TableTypes, DeadDown, dead # <<>>
    PROVE  /\ Head(dead) \in DOMAIN slots /\ slots[Head(dead)].pid = NoPid
           /\ Tail(dead) \in Seq(Nat \ {0})
           /\ \A k \in DOMAIN Tail(dead) :
                 /\ Tail(dead)[k] \in DOMAIN slots /\ Tail(dead)[k] # Head(dead)
                 /\ slots[Tail(dead)[k]].pid = NoPid
           /\ \A k, l \in DOMAIN Tail(dead) : k # l => Tail(dead)[k] # Tail(dead)[l]
<1>1. dead \in Seq(Nat \ {0})
  BY DEF TableTypes
<1>2. /\ Head(dead) = dead[1] /\ 1 \in DOMAIN dead
      /\ Tail(dead) \in Seq(Nat \ {0}) /\ Len(Tail(dead)) = Len(dead) - 1
      /\ \A k \in 1 .. Len(Tail(dead)) : Tail(dead)[k] = dead[k + 1]
  BY <1>1, HeadTailProperties
<1>3. \A k \in DOMAIN Tail(dead) :
         Tail(dead)[k] = dead[k + 1] /\ k + 1 \in DOMAIN dead /\ k \in Nat \ {0}
  BY <1>1, <1>2
<1>4. Head(dead) \in DOMAIN slots /\ slots[Head(dead)].pid = NoPid
  BY <1>2 DEF DeadDown
<1>5. ASSUME NEW k \in DOMAIN Tail(dead)
      PROVE  /\ Tail(dead)[k] \in DOMAIN slots /\ Tail(dead)[k] # Head(dead)
             /\ slots[Tail(dead)[k]].pid = NoPid
  <2>1. k + 1 # 1
    BY <1>3
  <2> QED
    BY <1>2, <1>3, <2>1 DEF DeadDown
<1>6. ASSUME NEW k \in DOMAIN Tail(dead), NEW l \in DOMAIN Tail(dead), k # l
      PROVE  Tail(dead)[k] # Tail(dead)[l]
  <2>1. k + 1 # l + 1
    BY <1>3, <1>6
  <2> QED
    BY <1>3, <2>1 DEF DeadDown
<1> QED
  BY <1>2, <1>4, <1>5, <1>6

LEMMA Replacing ==
    ASSUME Core, Control, pc[Main] = "replace", dead # <<>>,
           pc' = pc, dead' = Tail(dead), Lists',
           NEW s \in PortSlot, s.port = slots[Head(dead)].port,
           s.pid = NoPid \/ s.pid \notin Remembered,
           s.alive => s.pid # NoPid /\ s.fails = 0,
           s.pid # NoPid => s.uri # NoUri /\ s.fails < DeadFails,
           slots' = [slots EXCEPT ![Head(dead)] = s],
           engines' \subseteq engines \cup {Engine(s.pid, s.port, s.uri)},
           s.pid = NoPid => engines' = engines,
           s.pid # NoPid => s.uri \in Uri
    PROVE  Core'
<1>0. TableTypes /\ DeadDown /\ Apart /\ Fields /\ EnginesOwned
  BY DEF Core
<1> DEFINE i == Head(dead)
<1>1. /\ i \in DOMAIN slots /\ slots[i].pid = NoPid /\ Tail(dead) \in Seq(Nat \ {0})
      /\ \A k \in DOMAIN Tail(dead) :
            /\ Tail(dead)[k] \in DOMAIN slots /\ Tail(dead)[k] # i
            /\ slots[Tail(dead)[k]].pid = NoPid
      /\ \A k, l \in DOMAIN Tail(dead) : k # l => Tail(dead)[k] # Tail(dead)[l]
  BY <1>0, DeadTail
<1> HIDE DEF i
<1>2. /\ slots' \in Seq(PortSlot) /\ DOMAIN slots' = DOMAIN slots
      /\ slots'[i] = s
      /\ \A j \in DOMAIN slots : j # i => slots'[j] = slots[j]
      /\ Apart' /\ Fields'
  BY <1>0, <1>1, SlotChange DEF i
<1>3. s.pid # NoPid => Engine(s.pid, s.port, s.uri) \in [pid : Pid, port : Port, uri : Uri]
  BY DEF Engine, PortSlot
<1>4. TableTypes'
  BY <1>0, <1>1, <1>2, <1>3 DEF TableTypes
<1>5. DeadDown'
  BY <1>1, <1>2 DEF DeadDown
<1>6. ASSUME NEW e \in engines
      PROVE  \E j \in DOMAIN slots' : /\ slots'[j].pid = e.pid
                                      /\ slots'[j].port = e.port
                                      /\ slots'[j].uri = e.uri
  <2>1. e.pid # NoPid
    BY <1>0, Constants DEF TableTypes
  <2>2. PICK j \in DOMAIN slots : /\ slots[j].pid = e.pid /\ slots[j].port = e.port
                                  /\ slots[j].uri = e.uri
    BY <1>0 DEF EnginesOwned
  <2> QED
    BY <1>1, <1>2, <2>1, <2>2
<1>7. ASSUME NEW e \in engines', e \notin engines
      PROVE  \E j \in DOMAIN slots' : /\ slots'[j].pid = e.pid
                                      /\ slots'[j].port = e.port
                                      /\ slots'[j].uri = e.uri
  <2>1. e = [pid |-> s.pid, port |-> s.port, uri |-> s.uri]
    BY <1>7 DEF Engine
  <2>2. e.pid = s.pid /\ e.port = s.port /\ e.uri = s.uri
    BY <2>1
  <2> QED
    BY <1>1, <1>2, <2>2
<1>8. EnginesOwned'
  BY <1>6, <1>7 DEF EnginesOwned
<1> QED
  BY <1>2, <1>4, <1>5, <1>8 DEF Core

LEMMA RefreshCore ==
    ASSUME Inv, Control', Refresh
    PROVE  Core'
<1> USE Constants DEF Holds, table
<1>0. Core /\ Control /\ PlaceTypes /\ ListTypes /\ Lists /\ DeadDown /\ TableTypes
  BY InvCore DEF Core
<1>1. \A t \in Thread :
         /\ pc'[t] \in {"provision", "start"} => Len(list'[t]) <= PortCount
         /\ pc'[t] = "start" /\ UNCHANGED slots =>
               \A i \in DOMAIN slots : slots[i].port < at'[t]
  BY <1>0, RefreshLists DEF Lists
<1>2. CASE RefreshBegin
  <2>1. UNCHANGED <<slots, engines, dead>> /\ dead = <<>> /\ pc[Main] # "down"
    BY <1>0, <1>2 DEF RefreshBegin, Control, Refreshing, Take
  <2> QED
    BY <1>0, <1>1, <2>1, Untouched
<1>3. CASE Probed \/ SelectLive \/ SelectTelegram \/ Replaced
  <2>1. UNCHANGED <<slots, engines, dead>> /\ pc[Main] # "down" /\ pc'[Main] # "probe"
    BY <1>0, <1>3 DEF Probed, SelectLive, SelectTelegram, Replaced, Goto, PlaceTypes
  <2> QED
    BY <1>0, <1>1, <2>1, Untouched
<1>4. CASE \E u \in Uri : SkipCandidate(u) \/ FailCandidate(u)
  <2>1. UNCHANGED <<slots, engines, dead>> /\ pc[Main] # "down" /\ pc'[Main] # "probe"
    BY <1>0, <1>4 DEF SkipCandidate, FailCandidate, Candidate
  <2> QED
    BY <1>0, <1>1, <2>1, Untouched
<1>5. CASE Probe
  BY <1>5, ProbeCore
<1>6. ASSUME pc[Main] = "replace", lock = Main, pc' = pc
      PROVE  Lists'
  <2>1. \A t \in Thread : pc'[t] # "start"
    BY <1>0, <1>6 DEF Control
  <2> QED
    BY <1>1, <2>1 DEF Lists
<1>7. ASSUME NEW u \in Uri, AssignCandidate(u)
      PROVE  Core'
  <2>1. PICK p \in FreshPid :
           /\ slots' = [slots EXCEPT ![Head(dead)] = Served(@.port, u, p)]
           /\ engines' = engines \cup {Engine(p, slots[Head(dead)].port, u)}
    BY <1>7 DEF AssignCandidate
  <2>2. /\ pc[Main] = "replace" /\ lock = Main /\ dead # <<>>
        /\ pc' = pc /\ dead' = Tail(dead)
    BY <1>7 DEF AssignCandidate, Candidate
  <2> DEFINE s == Served(slots[Head(dead)].port, u, p)
  <2>3. slots' = [slots EXCEPT ![Head(dead)] = s]
    BY <2>1
  <2>4. s \in PortSlot
    <3>1. slots[Head(dead)] \in PortSlot
      BY <1>0, <2>2, DeadTail DEF TableTypes
    <3>2. p \in Pid
      BY DEF FreshPid
    <3> QED
      BY <3>1, <3>2 DEF PortSlot, Served
  <2>5. /\ s.port = slots[Head(dead)].port /\ s.pid = p /\ s.uri = u /\ s.alive
        /\ s.fails = 0 /\ s.pid \notin Remembered /\ s.pid # NoPid
    BY DEF Served, FreshPid
  <2> HIDE DEF s
  <2>6. engines' \subseteq engines \cup {Engine(s.pid, s.port, s.uri)}
    BY <2>1, <2>5
  <2>7. s.uri # NoUri /\ s.fails < DeadFails
    BY <2>5
  <2> QED
    BY <1>0, <1>6, <2>2, <2>3, <2>4, <2>5, <2>6, <2>7, Replacing
<1>8. CASE Unassigned
  <2>1. /\ slots' = [slots EXCEPT ![Head(dead)] = NotServed(@.port, NoUri, DeadFails)]
        /\ pc[Main] = "replace" /\ lock = Main /\ dead # <<>>
        /\ pc' = pc /\ dead' = Tail(dead) /\ engines' = engines
    BY <1>8 DEF Unassigned
  <2> DEFINE s == NotServed(slots[Head(dead)].port, NoUri, DeadFails)
  <2>2. slots' = [slots EXCEPT ![Head(dead)] = s]
    BY <2>1
  <2>3. s \in PortSlot
    <3>1. slots[Head(dead)] \in PortSlot
      BY <1>0, <2>1, DeadTail DEF TableTypes
    <3> QED
      BY <3>1 DEF PortSlot, NotServed
  <2>4. s.port = slots[Head(dead)].port /\ s.pid = NoPid /\ ~s.alive
    BY DEF NotServed
  <2> HIDE DEF s
  <2> QED
    BY <1>0, <1>6, <2>1, <2>2, <2>3, <2>4, Replacing
<1> QED
  BY <1>2, <1>3, <1>4, <1>5, <1>7, <1>8 DEF Refresh, Replace

(* A removal takes slots' configs and engines from them, while nobody else *)
(* has the mutex; stopping empties the table.                              *)
LEMMA SweepCore ==
    ASSUME Inv, Control', NEW t \in Commander, Sweep(t)
    PROVE  Core'
<1>0. /\ Core /\ Control /\ PlaceTypes /\ TableTypes /\ Lists
      /\ Apart /\ Fields /\ EnginesOwned
  BY InvCore DEF Core
<1> DEFINE hit == {i \in DOMAIN slots : slots[i].uri = removing[t]}
<1>1. /\ lock = Nobody /\ list' = list /\ dead' = dead /\ pc[t] = "sweep"
      /\ pc' = [pc EXCEPT ![t] = IF hit = {} THEN "idle" ELSE "again"]
      /\ engines' = WithoutPids({slots[i].pid : i \in hit})
      /\ slots' = [i \in DOMAIN slots |->
                      IF i \in hit THEN NotServed(slots[i].port, NoUri, 0) ELSE slots[i]]
  BY DEF Sweep, Goto
<1>2. /\ dead = <<>> /\ t \in Thread
      /\ \A s \in Thread : pc[s] # "start" /\ pc'[s] # "start"
      /\ \A s \in Thread : pc'[s] = "provision" => pc[s] = "provision"
      /\ pc[Main] # "down"
  BY <1>0, <1>1, Constants DEF Control, PlaceTypes
<1> HIDE DEF hit
<1>3. ASSUME NEW i \in DOMAIN slots
      PROVE  /\ slots'[i] \in PortSlot /\ slots'[i].port = slots[i].port
             /\ i \notin hit => slots'[i] = slots[i]
             /\ i \in hit => slots'[i].pid = NoPid /\ ~slots'[i].alive
  <2>1. slots[i] \in PortSlot
    BY <1>0 DEF TableTypes
  <2>2. slots'[i] = IF i \in hit THEN NotServed(slots[i].port, NoUri, 0) ELSE slots[i]
    BY <1>1
  <2>3. NotServed(slots[i].port, NoUri, 0) \in PortSlot
    <3>1. 0 \in 0 .. DeadFails
      BY Constants
    <3> QED
      BY <2>1, <3>1 DEF PortSlot, NotServed
  <2>4. /\ NotServed(slots[i].port, NoUri, 0).port = slots[i].port
        /\ NotServed(slots[i].port, NoUri, 0).pid = NoPid
        /\ ~NotServed(slots[i].port, NoUri, 0).alive
    BY DEF NotServed
  <2> QED
    BY <2>1, <2>2, <2>3, <2>4
<1>4. DOMAIN slots' = DOMAIN slots /\ DOMAIN slots = 1 .. Len(slots) /\ Len(slots) \in Nat
  BY <1>0, <1>1 DEF TableTypes
<1>5. slots' \in Seq(PortSlot)
  <2>1. slots' \in [1 .. Len(slots) -> PortSlot]
    BY <1>1, <1>3, <1>4
  <2> QED
    BY <1>4, <2>1
<1>6. Apart'
  BY <1>0, <1>3, <1>4 DEF Apart
<1>7. Fields'
  BY <1>0, <1>3, <1>4 DEF Fields
<1>8. EnginesOwned'
  <2>1. SUFFICES ASSUME NEW e \in engines'
                 PROVE  \E i \in DOMAIN slots' : /\ slots'[i].pid = e.pid
                                                 /\ slots'[i].port = e.port
                                                 /\ slots'[i].uri = e.uri
    BY DEF EnginesOwned
  <2>2. e \in engines /\ e.pid \notin {slots[i].pid : i \in hit}
    BY <1>1 DEF WithoutPids
  <2>3. PICK i \in DOMAIN slots : /\ slots[i].pid = e.pid /\ slots[i].port = e.port
                                  /\ slots[i].uri = e.uri
    BY <1>0, <1>2, <2>2 DEF EnginesOwned
  <2>4. i \notin hit
    BY <2>2, <2>3
  <2> QED
    BY <1>3, <1>4, <2>3, <2>4
<1>9. TableTypes'
  BY <1>0, <1>1, <1>5 DEF TableTypes, WithoutPids
<1>10. Lists' /\ DeadDown'
  BY <1>0, <1>1, <1>2 DEF Lists, DeadDown
<1> QED
  BY <1>6, <1>7, <1>8, <1>9, <1>10 DEF Core

LEMMA RemovalCore ==
    ASSUME Inv, Control', RemovalStep
    PROVE  Core'
<1> USE Constants DEF Goto, table
<1>0. Core /\ Control /\ PlaceTypes /\ ListTypes /\ Lists /\ DeadDown
  BY InvCore DEF Core
<1>1. ASSUME NEW t \in Commander, \E u \in Uri : RemoveRecord(t, u)
      PROVE  Core'
  BY <1>0, <1>1, Untouched DEF RemoveRecord, PlaceTypes, Lists, DeadDown
<1>2. ASSUME NEW t \in Commander, ReadPool(t)
      PROVE  Core'
  <2>1. \A s \in Thread : s # t => pc'[s] = pc[s] /\ list'[s] = list[s]
    BY <1>0, <1>2 DEF ReadPool, PlaceTypes, ListTypes
  <2>2. pc'[t] = "filtered" /\ UNCHANGED <<slots, engines, at, dead>>
    BY <1>0, <1>2 DEF ReadPool, PlaceTypes
  <2> QED
    BY <1>0, <2>1, <2>2, Untouched DEF Lists, DeadDown
<1>3. ASSUME NEW t \in Commander, WritePool(t)
      PROVE  Core'
  <2>1. \A s \in Thread : s # t => pc'[s] = pc[s] /\ list'[s] = list[s]
    BY <1>0, <1>3 DEF WritePool, PlaceTypes, ListTypes
  <2>2. pc'[t] = "sweep" /\ UNCHANGED <<slots, engines, at, dead>>
    BY <1>0, <1>3 DEF WritePool, PlaceTypes
  <2> QED
    BY <1>0, <2>1, <2>2, Untouched DEF Lists, DeadDown
<1>4. ASSUME NEW t \in Commander, StopProvisioned(t)
      PROVE  Core'
  <2>1. /\ lock = Nobody /\ slots' = <<>> /\ engines' = WithoutPids(Remembered)
        /\ UNCHANGED <<dead, pc, list>> /\ pc[t] = "idle"
    BY <1>4 DEF StopProvisioned
  <2>2. dead = <<>> /\ pc[Main] # "down"
    BY <1>0, <2>1 DEF Control
  <2> QED
    BY <1>0, <2>1, <2>2, TableEmptied DEF Lists
<1>5. ASSUME NEW t \in Commander, StopAll(t)
      PROVE  Core'
  BY <1>0, <1>5, Untouched DEF StopAll, Lists, DeadDown
<1> QED
  BY <1>1, <1>2, <1>3, <1>4, <1>5, SweepCore DEF RemovalStep, Removal

(* The end of the process, and the start of the next.                      *)
LEMMA EndCore ==
    ASSUME Inv, EndStep
    PROVE  Core'
<1>0. TableTypes /\ DeadDown /\ Apart /\ Fields /\ Control
  BY InvCore DEF Core
<1>1. CASE Crash
  <2>1. /\ slots' = <<>> /\ dead' = <<>> /\ engines' = engines
        /\ \A t \in Thread : pc'[t] = "down"
    BY <1>1 DEF Crash
  <2>2. pc'[Main] = "down"
    BY <2>1, Constants
  <2> QED
    BY <1>0, <2>1, <2>2
    DEF Core, TableTypes, Lists, DeadDown, Apart, Fields, EnginesOwned
<1>2. CASE KillPortOccupants
  <2>1. /\ UNCHANGED <<slots, dead>> /\ engines' = {}
        /\ \A t \in Thread : pc'[t] = "idle"
    BY <1>0, <1>2 DEF KillPortOccupants, Start, TableTypes
  <2>2. TableTypes' /\ Apart' /\ Fields' /\ EnginesOwned'
    BY <1>0, <2>1 DEF TableTypes, Apart, Fields, EnginesOwned
  <2>3. Lists'
    BY <2>1 DEF Lists
  <2>4. DeadDown'
    <3>1. pc'[Main] # "probe"
      BY <2>1, Constants
    <3> QED
      BY <1>0, <2>1, <3>1 DEF DeadDown
  <2> QED
    BY <2>2, <2>3, <2>4 DEF Core
<1> QED
  BY <1>1, <1>2 DEF EndStep

LEMMA EnvironmentCore ==
    ASSUME Inv, Control', Environment \/ UNCHANGED vars
    PROVE  Core'
<1>0. Core /\ Control /\ Lists /\ DeadDown
  BY InvCore DEF Core
<1>1. UNCHANGED <<slots, dead, pc, list, at>> /\ engines' \subseteq engines
  BY DEF Environment, Result, Fetched, EngineDies, table, vars
<1> QED
  BY <1>0, <1>1, Untouched DEF Lists, DeadDown

LEMMA FeedCore ==
    ASSUME Inv, Control', NEW t \in Thread, Feed(t)
    PROVE  Core'
<1>0. Core /\ Control /\ Lists /\ DeadDown /\ PlaceTypes /\ ListTypes
  BY InvCore DEF Core
<1>1. /\ UNCHANGED <<slots, dead, at, engines>>
      /\ pc[t] \in {"idle", "feed"} /\ pc' = [pc EXCEPT ![t] = pc'[t]]
      /\ pc'[t] \in {"feed", "idle"} /\ list' = [list EXCEPT ![t] = list'[t]]
  BY <1>0 DEF Feed, FeedRead, FeedPool, table, Goto, PlaceTypes, ListTypes
<1>2. \A s \in Thread : s # t => pc'[s] = pc[s] /\ list'[s] = list[s]
  BY <1>0, <1>1 DEF PlaceTypes, ListTypes
<1>3. pc[Main] # "down" \/ pc'[Main] = "down"
  BY <1>1, <1>2, Constants
<1>4. pc'[Main] = "probe" => pc[Main] = "probe"
  BY <1>1, <1>2, Constants
<1> QED
  BY <1>0, <1>1, <1>2, <1>3, <1>4, Untouched DEF Lists, DeadDown

-----------------------------------------------------------------------------
(* Theorems                                                                *)

LEMMA InvInit == Init => Inv
<1> SUFFICES ASSUME Init PROVE Inv
  OBVIOUS
<1> USE Constants
<1>1. RecordTypes
  BY DEF Init, RecordTypes, Live
<1>2. ListTypes
  <2>1. <<>> \in Seq(Uri) /\ 1 \in Nat \ {0}
    OBVIOUS
  <2> QED
    BY <2>1 DEF Init, ListTypes
<1>3. PlaceTypes /\ Control
  BY DEF Init, PlaceTypes, PC, Control, Refreshing
<1>4. TableTypes /\ Apart /\ Fields /\ EnginesOwned
  BY DEF Init, TableTypes, Apart, Fields, EnginesOwned
<1>5. Lists /\ DeadDown
  BY DEF Init, Lists, DeadDown
<1> QED
  BY <1>1, <1>2, <1>3, <1>4, <1>5, InvCore DEF Core

LEMMA InvStep == Inv /\ [Next]_vars => Inv'
<1> SUFFICES ASSUME Inv, [Next]_vars PROVE Inv'
  OBVIOUS
<1>1. RecordTypes' /\ ListTypes' /\ PlaceTypes' /\ Control'
  BY RecordStep, ListStep, PlaceStep
<1>2. Core'
  BY <1>1, Steps, ProvisionCore, RefreshCore, RemovalCore, EndCore, EnvironmentCore,
     FeedCore
  DEF ProvisionStep, FeedStep
<1>3. TypeOK'
  BY <1>1, <1>2 DEF Core, TypeOK, RecordTypes, ListTypes, PlaceTypes, TableTypes
<1> QED
  BY <1>1, <1>2, <1>3 DEF Inv, Core

(* The inductive invariant: what the fields hold, who may have the mutex,  *)
(* what a list fits in, and that a slot remembered as dead is down.        *)
THEOREM TableInvariant == Spec => []Inv
<1>1. Init => Inv
  BY InvInit
<1>2. Inv /\ [Next]_vars => Inv'
  BY InvStep
<1> QED
  BY <1>1, <1>2, PTL DEF Spec

(* No engine is lost, with any number of ports, threads and ends of the    *)
(* process: provisionPorts, refreshProvisionedPorts, removeConfigs and stop*)
(* leave none running that no slot remembers.                              *)
THEOREM NoEngineLost == Spec => []EnginesOwned
<1>1. Inv => EnginesOwned
  BY DEF Inv
<1> QED
  BY <1>1, TableInvariant, PTL

(* The fields hold what they should, no two slots share a port or an       *)
(* engine, and what a slot shows agrees with the engine it remembers.      *)
THEOREM TableCoherent == Spec => []SlotsCoherent
<1>1. Inv => SlotsCoherent
  BY DEF Inv, SlotsCoherent, Apart, Fields
<1> QED
  BY <1>1, TableInvariant, PTL

-----------------------------------------------------------------------------
(* Configs that have been removed.  RemovedOnlyLate speaks of the slots;   *)
(* what reaches a slot was in a list before, and what is in a list was in  *)
(* the pool or in the database, so the invariant speaks of all of them.    *)

Listed == UNION {ToSet(list[t]) : t \in Thread}
Shown == {slots[i].uri : i \in DOMAIN slots}
Held == pool \cup Listed \cup Shown

(* A removed config that somebody still holds was found late, or its       *)
(* removal goes on.                                                        *)
HeldOnlyLate ==
    \A u \in Held : u \in Uri /\ health[u] = "gone" =>
        u \in late \/ \E t \in Thread : removing[t] = u

(* A thread removes one config at a time, and has dropped its copy of the  *)
(* pool when it comes to the slots.                                        *)
Removals ==
    \A t \in Thread :
        /\ pc[t] \notin {"removed", "filtered", "sweep"} => removing[t] = NoUri
        /\ pc[t] = "sweep" => list[t] = <<>>

LEMMA Sublists ==
    ASSUME NEW q \in Seq(Uri), NEW r \in Seq(Uri), NEW n \in Nat
    PROVE  /\ ToSet(<<>>) = {}
           /\ ToSet(FirstOf(n, q)) \subseteq ToSet(q)
           /\ ToSet(q \o r) \subseteq ToSet(q) \cup ToSet(r)
           /\ q # <<>> => Tail(q) \in Seq(Uri) /\ ToSet(Tail(q)) \subseteq ToSet(q)
           /\ q # <<>> => Head(q) \in ToSet(q)
<1>1. ToSet(<<>>) = {}
  BY DEF ToSet
<1>2. ToSet(FirstOf(n, q)) \subseteq ToSet(q)
  <2>1. PICK m \in Nat : m <= Len(q) /\ FirstOf(n, q) = SubSeq(q, 1, m)
    BY DEF FirstOf
  <2>2. /\ DOMAIN SubSeq(q, 1, m) = 1 .. m
        /\ \A i \in 1 .. m : SubSeq(q, 1, m)[i] = q[i]
    BY <2>1
  <2>3. 1 .. m \subseteq DOMAIN q
    BY <2>1
  <2> QED
    BY <2>1, <2>2, <2>3 DEF ToSet
<1>3. ToSet(q \o r) \subseteq ToSet(q) \cup ToSet(r)
  <2>1. /\ DOMAIN (q \o r) = 1 .. Len(q) + Len(r)
        /\ \A i \in 1 .. Len(q) + Len(r) :
              (q \o r)[i] = IF i <= Len(q) THEN q[i] ELSE r[i - Len(q)]
    BY ConcatProperties
  <2>2. ASSUME NEW i \in 1 .. Len(q) + Len(r)
        PROVE  (q \o r)[i] \in ToSet(q) \cup ToSet(r)
    <3>1. CASE i <= Len(q)
      <4>1. i \in DOMAIN q
        BY <3>1
      <4> QED
        BY <2>1, <3>1, <4>1 DEF ToSet
    <3>2. CASE ~(i <= Len(q))
      <4>1. i - Len(q) \in DOMAIN r
        BY <3>2
      <4> QED
        BY <2>1, <3>2, <4>1 DEF ToSet
    <3> QED
      BY <3>1, <3>2
  <2> QED
    BY <2>1, <2>2 DEF ToSet
<1>4. ASSUME q # <<>>
      PROVE  /\ Tail(q) \in Seq(Uri) /\ ToSet(Tail(q)) \subseteq ToSet(q)
             /\ Head(q) \in ToSet(q)
  <2>1. /\ Tail(q) \in Seq(Uri) /\ Len(Tail(q)) = Len(q) - 1
        /\ \A i \in 1 .. Len(Tail(q)) : Tail(q)[i] = q[i + 1]
        /\ Head(q) = q[1] /\ Len(q) \in Nat \ {0}
    BY <1>4, HeadTailProperties
  <2>2. \A i \in 1 .. Len(Tail(q)) : i + 1 \in DOMAIN q
    BY <2>1
  <2>3. 1 \in DOMAIN q
    BY <2>1
  <2>4. DOMAIN Tail(q) = 1 .. Len(Tail(q))
    BY <2>1
  <2> QED
    BY <2>1, <2>2, <2>3, <2>4 DEF ToSet
<1> QED
  BY <1>1, <1>2, <1>3, <1>4

LEMMA SortedHas ==
    ASSUME NEW set, NEW s \in Sorted(set)
    PROVE  ToSet(s) = set
  BY DEF Sorted

(* One thread's list is replaced.                                          *)
LEMMA ListChanged ==
    ASSUME ListTypes, NEW t \in Thread, NEW s, list' = [list EXCEPT ![t] = s]
    PROVE  Listed' \subseteq Listed \cup ToSet(s)
<1>1. ASSUME NEW v \in Thread
      PROVE  ToSet(list'[v]) \subseteq Listed \cup ToSet(s)
  <2>1. list'[v] \in {s, list[v]}
    BY DEF ListTypes
  <2> QED
    BY <2>1 DEF Listed
<1> QED
  BY <1>1 DEF Listed

LEMMA ListsAreHeld ==
    \A t \in Thread : ToSet(list[t]) \subseteq Held
  BY DEF Held, Listed

(* A step that takes configs from what is held, or live or usable for      *)
(* Telegram in the database, brings back none that has been removed.       *)
LEMMA NothingBack ==
    ASSUME HeldOnlyLate, late' = late, removing' = removing,
           Held' \subseteq Held \cup Live \cup TelegramOnly \cup {NoUri},
           \A u \in Uri : health'[u] = "gone" => health[u] = "gone"
    PROVE  HeldOnlyLate'
<1>1. SUFFICES ASSUME NEW u \in Held', u \in Uri, health'[u] = "gone"
               PROVE  u \in late \/ \E t \in Thread : removing[t] = u
  BY DEF HeldOnlyLate
<1>2. health[u] = "gone"
  BY <1>1
<1>3. u \notin Live /\ u \notin TelegramOnly
  BY <1>2 DEF Live, TelegramOnly
<1>4. u # NoUri
  BY <1>1, Constants
<1> QED
  BY <1>1, <1>2, <1>3, <1>4 DEF HeldOnlyLate

LEMMA GoneStays ==
    ASSUME health \in [Uri -> Health], NEW u, NEW result, result # "gone",
           UpdateHealth(u, result)
    PROVE  \A v \in Uri : health'[v] = "gone" => health[v] = "gone"
  BY DEF UpdateHealth


LEMMA ShownAdded ==
    ASSUME TableTypes, NEW s, slots' = Append(slots, s)
    PROVE  Shown' \subseteq Shown \cup {s.uri}
<1>1. slots \in Seq(PortSlot)
  BY DEF TableTypes
<1>2. /\ Len(slots') = Len(slots) + 1 /\ DOMAIN slots' = 1 .. Len(slots')
      /\ \A i \in 1 .. Len(slots) : slots'[i] = slots[i]
      /\ slots'[Len(slots) + 1] = s
  BY <1>1
<1>3. \A i \in DOMAIN slots' : i \in 1 .. Len(slots) \/ i = Len(slots) + 1
  BY <1>1, <1>2
<1>4. DOMAIN slots = 1 .. Len(slots)
  BY <1>1
<1> QED
  BY <1>2, <1>3, <1>4 DEF Shown

LEMMA ShownChanged ==
    ASSUME TableTypes, NEW i, NEW s, slots' = [slots EXCEPT ![i] = s]
    PROVE  Shown' \subseteq Shown \cup {s.uri}
<1>1. DOMAIN slots' = DOMAIN slots
  BY DEF TableTypes
<1>2. \A j \in DOMAIN slots : slots'[j] \in {s, slots[j]}
  BY DEF TableTypes
<1> QED
  BY <1>1, <1>2 DEF Shown

LEMMA ProvisionHeld ==
    ASSUME Inv, HeldOnlyLate, NEW t \in Thread, Provision(t)
    PROVE  HeldOnlyLate'
<1> USE Constants DEF table
<1>0. TypeOK /\ ListTypes /\ TableTypes /\ ToSet(list[t]) \subseteq Held /\ list[t] \in Seq(Uri)
  BY InvCore, ListsAreHeld DEF Inv, Core, ListTypes
<1>1. UNCHANGED <<health, pool, removing, late>>
  BY DEF Provision, Collect, CollectTelegram, StopOld, StartSlot, Provisioned
<1>2. Held' = pool \cup Listed' \cup Shown' /\ Held = pool \cup Listed \cup Shown
  BY <1>1 DEF Held
<1>3. CASE Collect(t)
  <2>1. PICK best \in Sorted(IF pool # {} THEN pool ELSE Live) :
           list' = [list EXCEPT ![t] = best]
    BY <1>3 DEF Collect, CollectList
  <2>2. ToSet(best) \subseteq pool \cup Live
    BY SortedHas
  <2>3. Shown' = Shown
    BY <1>3 DEF Collect, Shown
  <2> QED
    BY <1>0, <1>1, <1>2, <2>1, <2>2, <2>3, ListChanged, NothingBack
<1>4. CASE CollectTelegram(t)
  <2>1. PICK more \in Sorted(TelegramOnly \ ToSet(list[t])) :
           list' = [list EXCEPT ![t] =
                       FirstOf(PortCount, list[t] \o FirstOf(TelegramTarget, more))]
    BY <1>4 DEF CollectTelegram
  <2> DEFINE all == list[t] \o FirstOf(TelegramTarget, more)
  <2>2. more \in Seq(Uri) /\ ToSet(more) \subseteq TelegramOnly
    BY <1>0, SetsOfUris, SortedSeq, SortedHas
  <2>3. /\ FirstOf(TelegramTarget, more) \in Seq(Uri)
        /\ ToSet(FirstOf(TelegramTarget, more)) \subseteq TelegramOnly
    BY <2>2, Sublists, FirstOfSeq
  <2>4. all \in Seq(Uri) /\ ToSet(all) \subseteq Held \cup TelegramOnly
    BY <1>0, <2>3, Sublists
  <2>5. ToSet(FirstOf(PortCount, all)) \subseteq Held \cup TelegramOnly
    BY <2>4, Sublists
  <2>6. Shown' = Shown
    BY <1>4 DEF CollectTelegram, Shown
  <2> QED
    BY <1>0, <1>1, <1>2, <2>1, <2>5, <2>6, ListChanged, NothingBack
<1>5. CASE StopOld(t)
  <2>1. Shown' = {} /\ Listed' = Listed
    BY <1>5 DEF StopOld, Shown, Listed
  <2> QED
    BY <1>1, <1>2, <2>1, NothingBack
<1>6. CASE StartSlot(t)
  <2>1. /\ list' = list /\ at[t] \in 1 .. Len(list[t])
        /\ \/ slots' = slots
           \/ \E p \in Pid \cup {NoPid} :
                 \/ slots' = Append(slots, Served(at[t], list[t][at[t]], p))
                 \/ slots' = Append(slots, NotServed(at[t], list[t][at[t]], 0))
    <3>1. at[t] \in Nat \ {0} /\ at[t] <= Len(list[t])
      BY <1>0, <1>6 DEF StartSlot, ListTypes
    <3> QED
      BY <1>0, <1>6, <3>1 DEF StartSlot, FreshPid
  <2>2. list[t][at[t]] \in Held
    <3>1. at[t] \in DOMAIN list[t]
      BY <1>0, <2>1
    <3> QED
      BY <1>0, <3>1 DEF ToSet
  <2>3. \A p : /\ Served(at[t], list[t][at[t]], p).uri = list[t][at[t]]
               /\ NotServed(at[t], list[t][at[t]], 0).uri = list[t][at[t]]
    BY DEF Served, NotServed
  <2>4. Shown' \subseteq Shown \cup {list[t][at[t]]}
    <3>1. CASE slots' = slots
      BY <3>1 DEF Shown
    <3>2. ASSUME NEW p,
                 \/ slots' = Append(slots, Served(at[t], list[t][at[t]], p))
                 \/ slots' = Append(slots, NotServed(at[t], list[t][at[t]], 0))
          PROVE  Shown' \subseteq Shown \cup {list[t][at[t]]}
      BY <1>0, <2>3, <3>2, ShownAdded
    <3> QED
      BY <2>1, <3>1, <3>2
  <2>5. Listed' = Listed
    BY <2>1 DEF Listed
  <2> QED
    BY <1>1, <1>2, <2>2, <2>4, <2>5, NothingBack
<1>7. CASE Provisioned(t)
  <2>1. Shown' = Shown /\ list' = [list EXCEPT ![t] = <<>>]
    BY <1>7 DEF Provisioned, Shown
  <2>2. ToSet(<<>>) = {}
    BY DEF ToSet
  <2> QED
    BY <1>0, <1>1, <1>2, <2>1, <2>2, ListChanged, NothingBack
<1> QED
  BY <1>3, <1>4, <1>5, <1>6, <1>7 DEF Provision

LEMMA RefreshHeld ==
    ASSUME Inv, HeldOnlyLate, Refresh
    PROVE  HeldOnlyLate'
<1> USE Constants DEF table
<1>0. /\ TypeOK /\ ListTypes /\ TableTypes /\ ToSet(list[Main]) \subseteq Held
      /\ list[Main] \in Seq(Uri) /\ health \in [Uri -> Health]
      /\ DeadDown
  BY InvCore, ListsAreHeld DEF Inv, Core, ListTypes, TypeOK
<1>1. UNCHANGED <<pool, removing, late>>
  BY DEF Refresh, RefreshBegin, Probe, Probed, Replace, FoundDown, NotDue, ProbeUp,
         ProbeFailed, ProbeDead, SelectLive, SelectTelegram, Unassigned, Replaced,
         SkipCandidate, FailCandidate, AssignCandidate
<1>2. \A u \in Uri : health'[u] = "gone" => health[u] = "gone"
  <2>1. health' = health \/ \E u : UpdateHealth(u, "dead")
    BY DEF Refresh, RefreshBegin, Probe, Probed, Replace, FoundDown, NotDue, ProbeUp,
           ProbeFailed, ProbeDead, SelectLive, SelectTelegram, Unassigned, Replaced,
           SkipCandidate, FailCandidate, AssignCandidate
  <2> QED
    BY <1>0, <2>1, GoneStays
<1>3. Held' = pool \cup Listed' \cup Shown' /\ Held = pool \cup Listed \cup Shown
  BY <1>1 DEF Held
<1>4. CASE RefreshBegin \/ Probed \/ FoundDown \/ NotDue
  <2>1. Listed' = Listed /\ Shown' = Shown
    BY <1>4 DEF RefreshBegin, Probed, FoundDown, NotDue, Listed, Shown
  <2> QED
    BY <1>1, <1>2, <1>3, <2>1, NothingBack
<1>5. CASE ProbeUp \/ ProbeFailed \/ ProbeDead
  <2>1. Listed' = Listed
    BY <1>5 DEF ProbeUp, ProbeFailed, ProbeDead, Listed
  <2>2. /\ slots \in Seq(PortSlot) /\ DOMAIN slots' = DOMAIN slots
        /\ \A j \in DOMAIN slots : slots'[j].uri = slots[j].uri
    <3>1. slots \in Seq(PortSlot) /\ \A j \in DOMAIN slots : slots[j] \in PortSlot
      BY <1>0 DEF TableTypes
    <3>2. CASE ProbeUp
      BY <3>1, <3>2 DEF ProbeUp, PortSlot
    <3>3. CASE ProbeFailed
      BY <3>1, <3>3 DEF ProbeFailed, PortSlot
    <3>4. CASE ProbeDead
      BY <3>1, <3>4 DEF ProbeDead, PortSlot, NotServed
    <3> QED
      BY <1>5, <3>1, <3>2, <3>3, <3>4
  <2>3. Shown' = Shown
    BY <2>2 DEF Shown
  <2> QED
    BY <1>1, <1>2, <1>3, <2>1, <2>3, NothingBack
<1>6. CASE SelectLive
  <2>1. PICK best \in Sorted(Live \ Existing) : list' = [list EXCEPT ![Main] = best]
    BY <1>6 DEF SelectLive
  <2>2. ToSet(best) \subseteq Live
    BY SortedHas
  <2>3. Shown' = Shown
    BY <1>6 DEF SelectLive, Shown
  <2> QED
    BY <1>0, <1>1, <1>2, <1>3, <2>1, <2>2, <2>3, ListChanged, NothingBack
<1>7. CASE SelectTelegram
  <2>1. PICK more \in Sorted(TelegramOnly \ Existing), rest \in Sorted(pool \ Existing) :
           list' = [list EXCEPT ![Main] =
                      IF list[Main] \o FirstOf(TelegramTarget, more) = <<>> THEN rest
                      ELSE list[Main] \o FirstOf(TelegramTarget, more)]
    BY <1>7 DEF SelectTelegram
  <2> DEFINE all == list[Main] \o FirstOf(TelegramTarget, more)
             new == IF all = <<>> THEN rest ELSE all
  <2>2. more \in Seq(Uri) /\ ToSet(more) \subseteq TelegramOnly /\ ToSet(rest) \subseteq pool
    BY <1>0, SetsOfUris, SortedSeq, SortedHas
  <2>3. /\ FirstOf(TelegramTarget, more) \in Seq(Uri)
        /\ ToSet(FirstOf(TelegramTarget, more)) \subseteq TelegramOnly
    BY <2>2, Sublists, FirstOfSeq
  <2>4. ToSet(all) \subseteq Held \cup TelegramOnly
    BY <1>0, <2>3, Sublists
  <2>5. ToSet(new) \subseteq Held \cup TelegramOnly
    BY <1>3, <2>2, <2>4
  <2>6. Shown' = Shown
    BY <1>7 DEF SelectTelegram, Shown
  <2> HIDE DEF all
  <2>7. Listed' \subseteq Listed \cup ToSet(new)
    BY <1>0, <2>1, ListChanged DEF all
  <2> QED
    BY <1>1, <1>2, <1>3, <2>5, <2>6, <2>7, NothingBack
<1>8. ASSUME NEW u \in Uri, SkipCandidate(u) \/ FailCandidate(u) \/ AssignCandidate(u)
      PROVE  HeldOnlyLate'
  <2>1. list' = [list EXCEPT ![Main] = Tail(list[Main])] /\ list[Main] # <<>>
        /\ u = Head(list[Main]) /\ dead # <<>>
    BY <1>8 DEF SkipCandidate, FailCandidate, AssignCandidate, Candidate, DropCandidate
  <2>2. ToSet(Tail(list[Main])) \subseteq Held /\ u \in Held
    BY <1>0, <2>1, Sublists
  <2>3. Shown' \subseteq Shown \cup {u}
    <3>1. CASE SkipCandidate(u) \/ FailCandidate(u)
      BY <3>1 DEF SkipCandidate, FailCandidate, Shown
    <3>2. CASE AssignCandidate(u)
      <4>1. PICK p \in FreshPid :
               slots' = [slots EXCEPT ![Head(dead)] = Served(slots[Head(dead)].port, u, p)]
        BY <3>2 DEF AssignCandidate
      <4>2. Served(slots[Head(dead)].port, u, p).uri = u
        BY DEF Served
      <4> QED
        BY <1>0, <4>1, <4>2, ShownChanged
    <3> QED
      BY <1>8, <3>1, <3>2
  <2>4. Listed' \subseteq Listed \cup ToSet(Tail(list[Main]))
    BY <1>0, <2>1, ListChanged
  <2> QED
    BY <1>1, <1>2, <1>3, <2>2, <2>3, <2>4, NothingBack
<1>9. CASE Unassigned
  <2>1. slots' = [slots EXCEPT ![Head(dead)] =
                     NotServed(slots[Head(dead)].port, NoUri, DeadFails)]
    BY <1>9 DEF Unassigned
  <2>2. NotServed(slots[Head(dead)].port, NoUri, DeadFails).uri = NoUri
    BY DEF NotServed
  <2>3. Shown' \subseteq Shown \cup {NoUri}
    BY <1>0, <2>1, <2>2, ShownChanged
  <2>4. Listed' = Listed
    BY <1>9 DEF Unassigned, Listed
  <2> QED
    BY <1>1, <1>2, <1>3, <2>3, <2>4, NothingBack
<1>10. CASE Replaced
  <2>1. Shown' = Shown /\ list' = [list EXCEPT ![Main] = <<>>]
    BY <1>10 DEF Replaced, Shown
  <2>2. ToSet(<<>>) = {}
    BY DEF ToSet
  <2> QED
    BY <1>0, <1>1, <1>2, <1>3, <2>1, <2>2, ListChanged, NothingBack
<1> QED
  BY <1>4, <1>5, <1>6, <1>7, <1>8, <1>9, <1>10 DEF Refresh, Probe, Replace


(* The slots are swept: whoever else holds the config then is late.        *)
LEMMA SweepHeld ==
    ASSUME Inv, HeldOnlyLate, Removals, NEW t \in Commander, Sweep(t)
    PROVE  HeldOnlyLate'
<1> DEFINE u == removing[t]
<1>0. TypeOK /\ TableTypes /\ t \in Thread /\ removing \in [Thread -> Uri \cup {NoUri}]
  BY InvCore, Constants DEF Inv, Core, TypeOK
<1>1. /\ UNCHANGED <<health, pool, list>> /\ pc[t] = "sweep"
      /\ removing' = [removing EXCEPT ![t] = NoUri]
      /\ late' = late \cup ({u} \cap InFlight(t))
  BY DEF Sweep
<1>2. list[t] = <<>>
  BY <1>0, <1>1 DEF Removals
<1>3. Listed' = Listed /\ Listed \cup pool \subseteq InFlight(t)
  <2>1. ToSet(list[t]) = {}
    BY <1>2 DEF ToSet
  <2>2. ASSUME NEW v \in Listed
        PROVE  v \in InFlight(t)
    <3>1. PICK s \in Thread : v \in ToSet(list[s])
      BY DEF Listed
    <3>2. s # t
      BY <2>1, <3>1
    <3> QED
      BY <3>1, <3>2 DEF InFlight
  <2> QED
    BY <1>1, <2>2 DEF Listed, InFlight
<1>4. Shown' \subseteq Shown \cup {NoUri} /\ u \notin Shown' \ {NoUri}
  <2> DEFINE hit == {i \in DOMAIN slots : slots[i].uri = u}
  <2>1. slots' = [i \in DOMAIN slots |-> IF i \in hit THEN NotServed(slots[i].port, NoUri, 0)
                                                      ELSE slots[i]]
    BY DEF Sweep
  <2>2. ASSUME NEW i \in DOMAIN slots
        PROVE  slots'[i].uri = IF slots[i].uri = u THEN NoUri ELSE slots[i].uri
    <3>1. NotServed(slots[i].port, NoUri, 0).uri = NoUri
      BY DEF NotServed
    <3> QED
      BY <2>1, <3>1
  <2>3. DOMAIN slots' = DOMAIN slots
    BY <2>1
  <2> HIDE DEF u, hit
  <2> QED
    BY <2>2, <2>3 DEF Shown
<1>5. SUFFICES ASSUME NEW v \in Held', v \in Uri, health'[v] = "gone"
               PROVE  v \in late' \/ \E s \in Thread : removing'[s] = v
  BY DEF HeldOnlyLate
<1>6. v # NoUri
  BY <1>5, Constants
<1>7. v \in Held
  BY <1>1, <1>3, <1>4, <1>5, <1>6 DEF Held
<1>8. v \in late \/ \E s \in Thread : removing[s] = v
  BY <1>1, <1>5, <1>7 DEF HeldOnlyLate
<1>9. CASE v = u
  <2>1. v \notin Shown'
    BY <1>4, <1>6, <1>9
  <2>2. v \in InFlight(t)
    BY <1>1, <1>3, <1>5, <2>1 DEF Held
  <2> QED
    BY <1>1, <1>9, <2>2
<1>10. CASE v # u
  <2>1. \A s \in Thread : removing[s] = v => removing'[s] = v
    BY <1>0, <1>1, <1>10
  <2> QED
    BY <1>1, <1>8, <2>1
<1> QED
  BY <1>9, <1>10

LEMMA RemovalHeld ==
    ASSUME Inv, HeldOnlyLate, Removals, RemovalStep
    PROVE  HeldOnlyLate'
<1> USE Constants DEF table
<1>0. /\ TypeOK /\ ListTypes /\ TableTypes /\ removing \in [Thread -> Uri \cup {NoUri}]
      /\ health \in [Uri -> Health] /\ Commander \subseteq Thread
  BY InvCore DEF Inv, Core, TypeOK
<1>1. ASSUME NEW t \in Commander, NEW u \in Uri, RemoveRecord(t, u)
      PROVE  HeldOnlyLate'
  <2>1. /\ pc[t] = "idle" /\ health' = [health EXCEPT ![u] = "gone"]
        /\ removing' = [removing EXCEPT ![t] = u] /\ UNCHANGED <<pool, list, slots, late>>
    BY <1>1 DEF RemoveRecord
  <2>2. removing[t] = NoUri
    BY <1>0, <2>1 DEF Removals
  <2>3. Held' = Held
    BY <2>1 DEF Held, Listed, Shown
  <2>4. SUFFICES ASSUME NEW v \in Held, v \in Uri, health'[v] = "gone"
                 PROVE  v \in late \/ \E s \in Thread : removing'[s] = v
    BY <2>1, <2>3 DEF HeldOnlyLate
  <2>5. CASE v = u
    BY <1>0, <2>1, <2>5
  <2>6. CASE v # u
    <3>1. health[v] = "gone"
      BY <1>0, <2>1, <2>4, <2>6
    <3>2. v \in late \/ \E s \in Thread : removing[s] = v
      BY <2>4, <3>1 DEF HeldOnlyLate
    <3>3. \A s \in Thread : removing[s] = v => removing'[s] = v
      BY <1>0, <2>1, <2>2, <2>4
    <3> QED
      BY <3>2, <3>3
  <2> QED
    BY <2>5, <2>6
<1>2. ASSUME NEW t \in Commander, ReadPool(t)
      PROVE  HeldOnlyLate'
  <2>1. PICK copy \in Sorted(pool \ {removing[t]}) : list' = [list EXCEPT ![t] = copy]
    BY <1>2 DEF ReadPool
  <2>2. ToSet(copy) \subseteq pool
    BY SortedHas
  <2>3. UNCHANGED <<health, pool, slots, removing, late>>
    BY <1>2 DEF ReadPool
  <2>4. Listed' \subseteq Listed \cup ToSet(copy)
    BY <1>0, <2>1, ListChanged
  <2>5. Held' \subseteq Held
    BY <2>2, <2>3, <2>4 DEF Held, Shown
  <2> QED
    BY <2>3, <2>5, NothingBack
<1>3. ASSUME NEW t \in Commander, WritePool(t)
      PROVE  HeldOnlyLate'
  <2>1. pool' = ToSet(list[t]) /\ list' = [list EXCEPT ![t] = <<>>]
    BY <1>3 DEF WritePool
  <2>2. UNCHANGED <<health, slots, removing, late>>
    BY <1>3 DEF WritePool
  <2>3. ToSet(<<>>) = {}
    BY DEF ToSet
  <2>4. Listed' \subseteq Listed
    BY <1>0, <2>1, <2>3, ListChanged
  <2>5. pool' \subseteq Listed
    BY <1>0, <2>1 DEF Listed
  <2>6. Held' \subseteq Held
    BY <2>2, <2>4, <2>5 DEF Held, Shown
  <2> QED
    BY <2>2, <2>6, NothingBack
<1>4. ASSUME NEW t \in Commander, StopProvisioned(t) \/ StopAll(t)
      PROVE  HeldOnlyLate'
  <2>1. /\ UNCHANGED <<health, pool, list, removing, late>>
        /\ slots' = slots \/ slots' = <<>>
    BY <1>4 DEF StopProvisioned, StopAll
  <2>2. Shown' \subseteq Shown
    BY <2>1 DEF Shown
  <2>3. Held' \subseteq Held
    BY <2>1, <2>2 DEF Held, Listed
  <2> QED
    BY <2>1, <2>3, NothingBack
<1> QED
  BY <1>1, <1>2, <1>3, <1>4, SweepHeld DEF RemovalStep, Removal

(* When the process ends only the pool's file holds configs.               *)
LEMMA EndHeld ==
    ASSUME Inv, HeldOnlyLate, EndStep
    PROVE  HeldOnlyLate'
<1>1. CASE Crash
  <2>1. /\ slots' = <<>> /\ list' = [t \in Thread |-> <<>>] /\ health' = health
        /\ late' = late \cup {u \in pool' : health[u] = "gone"}
    BY <1>1 DEF Crash
  <2>2. Listed' = {} /\ Shown' = {}
    BY <2>1 DEF Listed, Shown, ToSet
  <2> QED
    BY <2>1, <2>2 DEF HeldOnlyLate, Held
<1>2. CASE KillPortOccupants
  <2>1. UNCHANGED <<health, pool, slots, list, removing, late>>
    BY <1>2 DEF KillPortOccupants
  <2> QED
    BY <2>1 DEF HeldOnlyLate, Held, Listed, Shown
<1> QED
  BY <1>1, <1>2 DEF EndStep

LEMMA EnvironmentHeld ==
    ASSUME Inv, HeldOnlyLate, Environment \/ UNCHANGED vars
    PROVE  HeldOnlyLate'
<1>0. health \in [Uri -> Health]
  BY DEF Inv, TypeOK
<1>1. UNCHANGED <<pool, slots, list, removing, late>>
  BY DEF Environment, Result, Fetched, EngineDies, table, vars
<1>3. Held' = Held
  BY <1>1 DEF Held, Listed, Shown
<1>4. \A u \in Uri : health'[u] = "gone" => health[u] = "gone"
  <2>1. CASE health' = health
    BY <2>1
  <2>2. ASSUME NEW v \in Uri, Result(v)
        PROVE  \A u \in Uri : health'[u] = "gone" => health[u] = "gone"
    BY <1>0, <2>2, GoneStays DEF Result
  <2>3. ASSUME NEW v \in Uri, Fetched(v)
        PROVE  \A u \in Uri : health'[u] = "gone" => health[u] = "gone"
    BY <1>0, <2>3 DEF Fetched
  <2> QED
    BY <2>1, <2>2, <2>3 DEF Environment, EngineDies, vars
<1> QED
  BY <1>1, <1>3, <1>4, NothingBack

(* The list that a thread feeds was healthy when it was read.              *)
LEMMA FeedHeld ==
    ASSUME Inv, HeldOnlyLate, NEW t \in Thread, Feed(t)
    PROVE  HeldOnlyLate'
<1>0. ListTypes
  BY InvCore
<1>1. CASE FeedRead(t)
  <2>1. PICK healthy \in Sorted(Live) : list' = [list EXCEPT ![t] = healthy]
    BY <1>1 DEF FeedRead
  <2>2. ToSet(healthy) = Live
    BY SortedHas
  <2>3. UNCHANGED <<health, pool, slots, removing, late>>
    BY <1>1 DEF FeedRead, table
  <2>4. Listed' \subseteq Listed \cup ToSet(healthy)
    BY <1>0, <2>1, ListChanged
  <2>5. Held' \subseteq Held \cup Live
    BY <2>2, <2>3, <2>4 DEF Held, Shown
  <2> QED
    BY <2>3, <2>5, NothingBack
<1>2. CASE FeedPool(t)
  <2>1. pool' = ToSet(list[t]) /\ list' = [list EXCEPT ![t] = <<>>]
    BY <1>2 DEF FeedPool
  <2>2. UNCHANGED <<health, slots, removing, late>>
    BY <1>2 DEF FeedPool, table
  <2>3. ToSet(<<>>) = {}
    BY DEF ToSet
  <2>4. Listed' \subseteq Listed
    BY <1>0, <2>1, <2>3, ListChanged
  <2>5. pool' \subseteq Listed
    BY <1>0, <2>1 DEF Listed
  <2>6. Held' \subseteq Held
    BY <2>2, <2>4, <2>5 DEF Held, Shown
  <2> QED
    BY <2>2, <2>6, NothingBack
<1> QED
  BY <1>1, <1>2 DEF Feed

(* One removal at a time.                                                  *)
LEMMA RemovalsStep ==
    ASSUME Inv, Removals, [Next]_vars
    PROVE  Removals'
<1> USE Constants DEF table, Goto, Holds, Take, Release
<1>0. /\ PlaceTypes /\ Control /\ ListTypes /\ removing \in [Thread -> Uri \cup {NoUri}]
  BY InvCore DEF Inv, Core, TypeOK
<1> USE DEF PlaceTypes, ListTypes
<1>1. ASSUME NEW t \in Thread, Provision(t)
      PROVE  Removals'
  BY <1>0, <1>1 DEF Provision, Collect, CollectTelegram, StopOld, StartSlot, Provisioned,
                    Removals
<1>2. ASSUME NEW t \in Commander, Removal(t) \/ StopProvisioned(t) \/ StopAll(t)
      PROVE  Removals'
  BY <1>0, <1>2 DEF Removal, RemoveRecord, ReadPool, WritePool, Sweep, StopProvisioned,
                    StopAll, Removals
<1>3. CASE Refresh
  <2>1. removing' = removing /\ pc[Main] \in Refreshing \cup {"idle"}
        /\ pc'[Main] \in Refreshing \cup {"idle"}
        /\ \A s \in Thread : s # Main => pc'[s] = pc[s] /\ list'[s] = list[s]
    <3>1. CASE RefreshBegin \/ Probed \/ Probe
      BY <1>0, <3>1 DEF RefreshBegin, Probed, Probe, FoundDown, NotDue, ProbeUp, ProbeFailed,
                        ProbeDead, Refreshing
    <3>2. CASE SelectLive \/ SelectTelegram \/ Unassigned \/ Replaced
      BY <1>0, <3>2 DEF SelectLive, SelectTelegram, Unassigned, Replaced, Refreshing
    <3>3. CASE \E u \in Uri : SkipCandidate(u) \/ FailCandidate(u) \/ AssignCandidate(u)
      BY <1>0, <3>3 DEF SkipCandidate, FailCandidate, AssignCandidate, Candidate,
                        DropCandidate, Refreshing
    <3> QED
      BY <1>3, <3>1, <3>2, <3>3 DEF Refresh, Replace
  <2> QED
    BY <2>1 DEF Removals, Refreshing
<1>4. CASE EndStep
  BY <1>4 DEF EndStep, Crash, KillPortOccupants, Start, Removals
<1>5. CASE Environment \/ UNCHANGED vars
  BY <1>5 DEF Environment, Result, Fetched, EngineDies, vars, Removals
<1>6. ASSUME NEW t \in Thread, Feed(t)
      PROVE  Removals'
  BY <1>0, <1>6 DEF Feed, FeedRead, FeedPool, Removals
<1> QED
  BY <1>1, <1>2, <1>3, <1>4, <1>5, <1>6, Steps DEF ProvisionStep, RemovalStep, FeedStep

(* A config that a command has removed reaches a port only by a thread that*)
(* held it in a list made before, or in the pool: with any number of       *)
(* threads, ports and configs, removals that overlap, and a process that   *)
(* ends in the middle of one.                                              *)
THEOREM RemovedStaysOff == Spec => []RemovedOnlyLate
<1>1. Init => HeldOnlyLate /\ Removals
  <2>1. Init => Listed = {} /\ Shown = {}
    BY DEF Init, Listed, Shown, ToSet
  <2> QED
    BY <2>1 DEF Init, HeldOnlyLate, Held, Live, Removals
<1>2. Inv /\ HeldOnlyLate /\ Removals /\ [Next]_vars => (HeldOnlyLate /\ Removals)'
  BY Steps, ProvisionHeld, RefreshHeld, RemovalHeld, EndHeld, EnvironmentHeld, FeedHeld,
     RemovalsStep
  DEF ProvisionStep, FeedStep
<1>3. Inv /\ HeldOnlyLate => RemovedOnlyLate
  <2>1. SUFFICES ASSUME Inv, HeldOnlyLate, NEW i \in DOMAIN slots, slots[i].uri # NoUri,
                        health[slots[i].uri] = "gone"
                 PROVE  slots[i].uri \in late \/ \E t \in Thread : removing[t] = slots[i].uri
    BY DEF RemovedOnlyLate
  <2>2. slots[i] \in PortSlot
    BY <2>1 DEF Inv, TypeOK
  <2>3. slots[i].uri \in Uri /\ slots[i].uri \in Held
    BY <2>1, <2>2 DEF PortSlot, Held, Shown
  <2> QED
    BY <2>1, <2>3 DEF HeldOnlyLate
<1> QED
  BY <1>1, <1>2, <1>3, TableInvariant, PTL DEF Spec


=============================================================================
