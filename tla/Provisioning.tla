---------------------------- MODULE Provisioning ----------------------------
(***************************************************************************)
(* The local ports on which the orchestrator serves the best configs, one  *)
(* engine process per port.  provisionPorts rebuilds the table of slots,   *)
(* refreshProvisionedPorts probes it and replaces what has died,           *)
(* removeConfigs takes configs out of it, stop empties it.  The scanner    *)
(* provisions after each cycle, commands provision, remove and stop, the   *)
(* main loop refreshes.  The table is guarded by provision_mutex_, but the *)
(* list of configs to serve is made before the mutex is taken.  When the   *)
(* process ends its engines run on, and the next one's start ends them.    *)
(***************************************************************************)
EXTENDS Naturals, FiniteSets, Sequences, SequencesExt

CONSTANTS
    Thread,         \* the threads that call the orchestrator
    Main,           \* the one that runs its main loop and refreshes
    Provisioner,    \* those that call provisionPorts: scanner, commands
    Commander,      \* those that run commands
    Feeder,         \* those that feed the balancer: validator, scanner, commands
    Uri,            \* the configs
    Latency,        \* the order in which lists are sorted
    PortCount,      \* PROVISION_PORT_COUNT; 99 in the source
    TelegramTarget, \* configs usable for Telegram only that are served too
    DeadFails,      \* failed probes in a row that make a slot dead; 3
    Pid,            \* process identifiers
    NoPid, NoUri, Nobody,
    MaxChanges      \* bound: results, additions and deaths of engines

ASSUME ProvisioningAssumption ==
    /\ Main \in Thread /\ Nobody \notin Thread
    /\ Provisioner \subseteq Thread \ {Main}
    /\ Commander \subseteq Thread \ {Main}
    /\ Feeder \subseteq Thread \ {Main}
    /\ IsFiniteSet(Uri) /\ NoUri \notin Uri
    /\ Latency \in [Uri -> Nat]
    /\ PortCount \in Nat \ {0} /\ DeadFails \in Nat \ {0}
    /\ TelegramTarget \in Nat /\ MaxChanges \in Nat
    /\ NoPid \notin Pid

Port == 1..PortCount

VARIABLES
    health,     \* the database: the state of each config's record
    pool,       \* available_configs_ of the main balancer
    slots,      \* provisioned_ports_
    engines,    \* the engine processes that run
    lock,       \* who holds provision_mutex_
    pc,         \* where each thread is
    list,       \* the configs a thread goes through: best, replacements,
                \* live_records or a copy of the pool
    at,         \* the slot or the list position it has reached
    dead,       \* dead_indices of the refresh
    removing,   \* the config a thread is removing
    late,       \* history: configs some list still held when their removal
                \* reached the slots
    changes     \* results, additions and deaths so far

table == <<slots, engines, lock>>
vars == <<health, pool, slots, engines, lock, pc, list, at, dead,
          removing, late, changes>>

-----------------------------------------------------------------------------
(* The records and the table.  A record that has not been tested yet is    *)
(* not alive, like a dead one.                                             *)

Health == {"gone", "dead", "telegram", "live"}
PortSlot == [port: Port, uri: Uri \cup {NoUri}, pid: Pid \cup {NoPid},
             alive: BOOLEAN, fails: 0..DeadFails]

Live == {u \in Uri : health[u] = "live"}
TelegramOnly == {u \in Uri : health[u] = "telegram"}
(* The ways std::sort may order a list: by latency, ties as they come.     *)
Sorted(set) ==
    {s \in [1..Cardinality(set) -> set] :
        /\ ToSet(s) = set
        /\ \A i, j \in DOMAIN s : i < j => Latency[s[i]] <= Latency[s[j]]}
FirstOf(n, seq) == SubSeq(seq, 1, IF Len(seq) < n THEN Len(seq) ELSE n)

(* A record that is no longer there is not brought back by a result.       *)
UpdateHealth(u, result) ==
    health' = [health EXCEPT ![u] = IF @ = "gone" THEN @ ELSE result]

(* The pids a slot still remembers; the system is taken not to reuse one.  *)
Remembered == {slots[i].pid : i \in DOMAIN slots}
FreshPid == {p \in Pid \ Remembered : \A e \in engines : e.pid # p}
Engine(p, port, u) == [pid |-> p, port |-> port, uri |-> u]
WithoutPids(pids) == {e \in engines : e.pid \notin pids}

Served(port, u, p) ==
    [port |-> port, uri |-> u, pid |-> p, alive |-> TRUE, fails |-> 0]
NotServed(port, u, fails) ==
    [port |-> port, uri |-> u, pid |-> NoPid, alive |-> FALSE, fails |-> fails]

Goto(t, where) == pc' = [pc EXCEPT ![t] = where]
Holds(t, where) == pc[t] = where /\ lock = t
Take(t) == lock = Nobody /\ lock' = t
Release(t) == lock = t /\ lock' = Nobody

(* The database and the balancer's pool come from their files.             *)
Init ==
    /\ health \in [Uri -> Health]
    /\ pool \in {{}, Live}
    /\ slots = <<>>
    /\ engines = {}
    /\ lock = Nobody
    /\ pc = [t \in Thread |-> "idle"]
    /\ list = [t \in Thread |-> <<>>]
    /\ at = [t \in Thread |-> 1]
    /\ dead = <<>>
    /\ removing = [t \in Thread |-> NoUri]
    /\ late = {}
    /\ changes = 0

-----------------------------------------------------------------------------
(* provisionPorts                                                          *)

(* The list, before the mutex: the balancer's pool, or the live records.   *)
(* (The cached copy of the pool, asked last, is not kept apart from it.)   *)
CollectList == Sorted(IF pool # {} THEN pool ELSE Live)

Collect(t) ==
    /\ \/ pc[t] = "idle" /\ t \in Provisioner
       \/ pc[t] = "again"
    /\ \E best \in CollectList : list' = [list EXCEPT ![t] = best]
    /\ Goto(t, "collect")
    /\ UNCHANGED <<health, pool, table, at, dead, removing, late,
                   changes>>

CollectTelegram(t) ==
    /\ pc[t] = "collect"
    /\ \E more \in Sorted(TelegramOnly \ ToSet(list[t])) :
          list' = [list EXCEPT ![t] =
                       FirstOf(PortCount, @ \o FirstOf(TelegramTarget, more))]
    /\ Goto(t, "provision")
    /\ UNCHANGED <<health, pool, table, at, dead, removing, late,
                   changes>>

(* wrong variant: the table is not emptied *)
StopOldKeep(t) ==
    /\ pc[t] = "provision"
    /\ Take(t)
    /\ engines' = WithoutPids(Remembered)
    /\ at' = [at EXCEPT ![t] = 1]
    /\ Goto(t, "start")
    /\ UNCHANGED <<health, pool, slots, list, dead, removing, late, changes>>

(* The mutex is taken, every engine stopped, the table emptied.            *)
StopOld(t) ==
    /\ pc[t] = "provision"
    /\ Take(t)
    /\ engines' = WithoutPids(Remembered)
    /\ slots' = <<>>
    /\ at' = [at EXCEPT ![t] = 1]
    /\ Goto(t, "start")
    /\ UNCHANGED <<health, pool, list, dead, removing, late, changes>>

(* One turn of the loop.  A config that does not parse, or that no engine  *)
(* on the disk can run, leaves its port unused; an engine that does not    *)
(* come up leaves a slot without one.                                      *)
StartSlot(t) ==
    /\ Holds(t, "start") /\ at[t] <= Len(list[t])
    /\ LET u == list[t][at[t]]
       IN \/ UNCHANGED <<slots, engines>>
          \/ \E p \in FreshPid :
                /\ slots' = Append(slots, Served(at[t], u, p))
                /\ engines' = engines \cup {Engine(p, at[t], u)}
          \/ /\ slots' = Append(slots, NotServed(at[t], u, 0))
             /\ UNCHANGED engines
    /\ at' = [at EXCEPT ![t] = @ + 1]
    /\ UNCHANGED <<health, pool, lock, pc, list, dead, removing, late,
                   changes>>

Provisioned(t) ==
    /\ Holds(t, "start") /\ at[t] > Len(list[t])
    /\ Release(t)
    /\ list' = [list EXCEPT ![t] = <<>>]
    /\ at' = [at EXCEPT ![t] = 1]
    /\ Goto(t, "idle")
    /\ UNCHANGED <<health, pool, slots, engines, dead, removing, late,
                   changes>>

-----------------------------------------------------------------------------
(* refreshProvisionedPorts, under the mutex from beginning to end (the main *)
(* loop's, or a command's in its place)                                     *)

RefreshBegin ==
    /\ pc[Main] = "idle"
    /\ Take(Main)
    /\ at' = [at EXCEPT ![Main] = 1]
    /\ Goto(Main, "probe")
    /\ UNCHANGED <<health, pool, slots, engines, list, dead, removing,
                   late, changes>>

Down(slot) == ~slot.alive /\ slot.pid = NoPid
NextSlot == at' = [at EXCEPT ![Main] = @ + 1]

FoundDown ==
    /\ Holds(Main, "probe") /\ at[Main] \in DOMAIN slots
    /\ Down(slots[at[Main]])
    /\ dead' = Append(dead, at[Main])
    /\ NextSlot
    /\ UNCHANGED <<health, pool, table, pc, list, removing, late,
                   changes>>

(* Its last probe is less than 30 seconds old.                             *)
NotDue ==
    /\ Holds(Main, "probe") /\ at[Main] \in DOMAIN slots
    /\ ~Down(slots[at[Main]])
    /\ NextSlot
    /\ UNCHANGED <<health, pool, table, pc, list, dead, removing, late,
                   changes>>

(* Something answers on the port: only an engine of the table can.         *)
ProbeUp ==
    /\ Holds(Main, "probe") /\ at[Main] \in DOMAIN slots
    /\ ~Down(slots[at[Main]])
    /\ \E e \in engines : e.port = slots[at[Main]].port
    /\ slots' = [slots EXCEPT ![at[Main]].alive = TRUE,
                              ![at[Main]].fails = 0]
    /\ NextSlot
    /\ UNCHANGED <<health, pool, engines, lock, pc, list, dead,
                   removing, late, changes>>

(* wrong variant: the slot is shown as alive until it is dead *)
ProbeFailedShown ==
    /\ Holds(Main, "probe") /\ at[Main] \in DOMAIN slots
    /\ LET slot == slots[at[Main]]
       IN /\ ~Down(slot) /\ slot.fails + 1 < DeadFails
          /\ slots' = [slots EXCEPT ![at[Main]].fails = @ + 1]
    /\ NextSlot
    /\ UNCHANGED <<health, pool, engines, lock, pc, list, dead, removing, late,
                   changes>>

ProbeFailed ==
    /\ Holds(Main, "probe") /\ at[Main] \in DOMAIN slots
    /\ LET slot == slots[at[Main]]
       IN /\ ~Down(slot) /\ slot.fails + 1 < DeadFails
          /\ slots' = [slots EXCEPT ![at[Main]].alive = FALSE,
                                    ![at[Main]].fails = @ + 1]
    /\ NextSlot
    /\ UNCHANGED <<health, pool, engines, lock, pc, list, dead,
                   removing, late, changes>>

(* wrong variant: the engine of the dead slot is left running *)
ProbeDeadKeep ==
    /\ Holds(Main, "probe") /\ at[Main] \in DOMAIN slots
    /\ LET slot == slots[at[Main]]
       IN /\ ~Down(slot) /\ slot.fails + 1 >= DeadFails
          /\ slots' = [slots EXCEPT ![at[Main]] =
                           NotServed(slot.port, slot.uri, DeadFails)]
          /\ UpdateHealth(slot.uri, "dead")
    /\ dead' = Append(dead, at[Main])
    /\ NextSlot
    /\ UNCHANGED <<pool, engines, lock, pc, list, removing, late,
                   changes>>

(* One failure too many: the engine is stopped, the record forced dead.    *)
ProbeDead ==
    /\ Holds(Main, "probe") /\ at[Main] \in DOMAIN slots
    /\ LET slot == slots[at[Main]]
       IN /\ ~Down(slot) /\ slot.fails + 1 >= DeadFails
          /\ engines' = WithoutPids({slot.pid})
          /\ slots' = [slots EXCEPT ![at[Main]] =
                           NotServed(slot.port, slot.uri, DeadFails)]
          /\ UpdateHealth(slot.uri, "dead")
    /\ dead' = Append(dead, at[Main])
    /\ NextSlot
    /\ UNCHANGED <<pool, lock, pc, list, removing, late, changes>>

Probed ==
    /\ Holds(Main, "probe") /\ at[Main] \notin DOMAIN slots
    /\ at' = [at EXCEPT ![Main] = 1]
    /\ IF dead = <<>> THEN Release(Main) /\ Goto(Main, "idle")
                      ELSE Goto(Main, "select") /\ UNCHANGED lock
    /\ UNCHANGED <<health, pool, slots, engines, list, dead, removing,
                   late, changes>>

-----------------------------------------------------------------------------
(* replaceProvisionedPortsLocked                                           *)

(* What is served now: a slot that has just failed a probe does not count, *)
(* although its engine runs and may come back.                             *)
Existing ==
    {slots[i].uri : i \in {j \in DOMAIN slots :
                              slots[j].alive /\ slots[j].pid # NoPid}}

(* The live records, then those for Telegram, and only when there are none *)
(* the pool: three reads, the record of one config may change in between.  *)
SelectLive ==
    /\ Holds(Main, "select")
    /\ \E best \in Sorted(Live \ Existing) : list' = [list EXCEPT ![Main] = best]
    /\ Goto(Main, "telegram")
    /\ UNCHANGED <<health, pool, table, at, dead, removing, late,
                   changes>>

SelectTelegram ==
    /\ Holds(Main, "telegram")
    /\ \E more \in Sorted(TelegramOnly \ Existing), rest \in Sorted(pool \ Existing) :
          LET all == list[Main] \o FirstOf(TelegramTarget, more)
          IN  list' = [list EXCEPT ![Main] = IF all = <<>> THEN rest ELSE all]
    /\ Goto(Main, "replace")
    /\ UNCHANGED <<health, pool, table, at, dead, removing, late,
                   changes>>

(* The next candidate for the first dead slot: no engine for it, an engine *)
(* that does not come up (its record is forced dead), or a new service.    *)
Candidate(u) == Holds(Main, "replace") /\ dead # <<>> /\ list[Main] # <<>>
                /\ u = Head(list[Main])
DropCandidate == list' = [list EXCEPT ![Main] = Tail(@)]

SkipCandidate(u) ==
    /\ Candidate(u)
    /\ DropCandidate
    /\ UNCHANGED <<health, pool, table, pc, at, dead, removing, late,
                   changes>>

FailCandidate(u) ==
    /\ Candidate(u)
    /\ UpdateHealth(u, "dead")
    /\ DropCandidate
    /\ UNCHANGED <<pool, table, pc, at, dead, removing, late, changes>>

AssignCandidate(u) ==
    /\ Candidate(u)
    /\ \E p \in FreshPid :
          /\ slots' = [slots EXCEPT ![Head(dead)] = Served(@.port, u, p)]
          /\ engines' = engines \cup
                           {Engine(p, slots[Head(dead)].port, u)}
    /\ DropCandidate
    /\ dead' = Tail(dead)
    /\ UNCHANGED <<health, pool, lock, pc, at, removing, late, changes>>

(* Nobody left to put there.                                               *)
Unassigned ==
    /\ Holds(Main, "replace") /\ dead # <<>> /\ list[Main] = <<>>
    /\ slots' = [slots EXCEPT ![Head(dead)] =
                     NotServed(@.port, NoUri, DeadFails)]
    /\ dead' = Tail(dead)
    /\ UNCHANGED <<health, pool, engines, lock, pc, list, at, removing,
                   late, changes>>

Replaced ==
    /\ Holds(Main, "replace") /\ dead = <<>>
    /\ Release(Main)
    /\ list' = [list EXCEPT ![Main] = <<>>]
    /\ Goto(Main, "idle")
    /\ UNCHANGED <<health, pool, slots, engines, at, dead, removing,
                   late, changes>>

-----------------------------------------------------------------------------
(* removeConfigs, of one config                                            *)

RemoveRecord(t, u) ==
    /\ pc[t] = "idle" /\ health[u] # "gone"
    /\ health' = [health EXCEPT ![u] = "gone"]
    /\ removing' = [removing EXCEPT ![t] = u]
    /\ Goto(t, "removed")
    /\ UNCHANGED <<pool, table, list, at, dead, late, changes>>

(* filterBalancerPool: a copy of the pool is taken ...                     *)
ReadPool(t) ==
    /\ pc[t] = "removed"
    /\ \E copy \in Sorted(pool \ {removing[t]}) : list' = [list EXCEPT ![t] = copy]
    /\ Goto(t, "filtered")
    /\ UNCHANGED <<health, pool, table, at, dead, removing, late,
                   changes>>

(* ... and its filtered form put back, whatever was written meanwhile.     *)
WritePool(t) ==
    /\ pc[t] = "filtered"
    /\ pool' = ToSet(list[t])
    /\ list' = [list EXCEPT ![t] = <<>>]
    /\ Goto(t, "sweep")
    /\ UNCHANGED <<health, table, at, dead, removing, late, changes>>

(* The configs that others hold in a list, or that are back in the pool.   *)
InFlight(t) == pool \cup UNION {ToSet(list[s]) : s \in Thread \ {t}}

(* wrong variant: the slots are not looked at *)
SweepNothing(t) ==
    /\ pc[t] = "sweep" /\ lock = Nobody
    /\ late' = late \cup ({removing[t]} \cap InFlight(t))
    /\ removing' = [removing EXCEPT ![t] = NoUri]
    /\ Goto(t, "idle")
    /\ UNCHANGED <<health, pool, table, list, at, dead, changes>>

(* The slots that serve the config lose it; if there were any, the whole   *)
(* table is provisioned again.                                             *)
Sweep(t) ==
    /\ pc[t] = "sweep" /\ lock = Nobody
    /\ LET u   == removing[t]
           hit == {i \in DOMAIN slots : slots[i].uri = u}
       IN /\ engines' = WithoutPids({slots[i].pid : i \in hit})
          /\ slots' = [i \in DOMAIN slots |->
                          IF i \in hit THEN NotServed(slots[i].port, NoUri, 0)
                                       ELSE slots[i]]
          /\ late' = late \cup ({u} \cap InFlight(t))
          /\ Goto(t, IF hit = {} THEN "idle" ELSE "again")
    /\ removing' = [removing EXCEPT ![t] = NoUri]
    /\ UNCHANGED <<health, pool, lock, list, at, dead, changes>>

-----------------------------------------------------------------------------
(* stopProvisionedPorts, which changeEngines and stop call, and the end of *)
(* stop: the engine manager stops every process it has started.            *)

StopProvisioned(t) ==
    /\ pc[t] = "idle" /\ lock = Nobody
    /\ engines' = WithoutPids(Remembered)
    /\ slots' = <<>>
    /\ UNCHANGED <<health, pool, lock, pc, list, at, dead, removing,
                   late, changes>>

StopAll(t) ==
    /\ pc[t] = "idle"
    /\ engines' = {}
    /\ changes' = changes + 1
    /\ changes < MaxChanges
    /\ UNCHANGED <<health, pool, slots, lock, pc, list, at, dead,
                   removing, late>>

-----------------------------------------------------------------------------
(* A cycle's end: the healthy records are read under the database's mutex, *)
(* files are written, and the list replaces the balancer's pool.           *)

FeedRead(t) ==
    /\ pc[t] = "idle" /\ t \in Feeder /\ Live # {}
    /\ \E healthy \in Sorted(Live) : list' = [list EXCEPT ![t] = healthy]
    /\ Goto(t, "feed")
    /\ UNCHANGED <<health, pool, table, at, dead, removing, late, changes>>

FeedPool(t) ==
    /\ pc[t] = "feed"
    /\ pool' = ToSet(list[t])
    /\ list' = [list EXCEPT ![t] = <<>>]
    /\ Goto(t, "idle")
    /\ UNCHANGED <<health, table, at, dead, removing, late, changes>>

-----------------------------------------------------------------------------
(* What happens around: tests and fetches change the records, an engine    *)
(* ends by itself.                                                         *)

Result(u) ==
    /\ changes < MaxChanges
    /\ health[u] # "gone"
    /\ \E result \in {"dead", "telegram", "live"} : UpdateHealth(u, result)
    /\ changes' = changes + 1
    /\ UNCHANGED <<pool, table, pc, list, at, dead, removing, late>>

Fetched(u) ==
    /\ changes < MaxChanges
    /\ health[u] = "gone"
    /\ health' = [health EXCEPT ![u] = "dead"]
    /\ changes' = changes + 1
    /\ UNCHANGED <<pool, table, pc, list, at, dead, removing, late>>

EngineDies(e) ==
    /\ changes < MaxChanges
    /\ engines' = engines \ {e}
    /\ changes' = changes + 1
    /\ UNCHANGED <<health, pool, slots, lock, pc, list, at, dead,
                   removing, late>>

-----------------------------------------------------------------------------
(* The process ends and starts again: the table and what the threads held  *)
(* is lost, the engines run on.  (Ingestion has what of the records is     *)
(* lost; here they and the cached pool are as saved a moment before.)      *)

Crash ==
    /\ changes < MaxChanges
    /\ \A t \in Thread : pc[t] # "down"
    /\ pc' = [t \in Thread |-> "down"]
    /\ slots' = <<>> /\ lock' = Nobody /\ dead' = <<>>
    /\ list' = [t \in Thread |-> <<>>]
    /\ at' = [t \in Thread |-> 1]
    /\ removing' = [t \in Thread |-> NoUri]
    /\ pool' \in {{}, pool}
    /\ late' = late \cup {u \in pool' : health[u] = "gone"}
    /\ changes' = changes + 1
    /\ UNCHANGED <<health, engines>>

Start == pc' = [t \in Thread |-> "idle"]

(* wrong variant: only the ports of the balancers are looked at *)
KillNoOccupants ==
    /\ \A t \in Thread : pc[t] = "down"
    /\ Start
    /\ UNCHANGED <<health, pool, slots, engines, lock, list, at, dead, removing,
                   late, changes>>

(* The first thing start does: the engines on the ports it needs are ended *)
(* (it has the right to: the process before ran as the same user).         *)
KillPortOccupants ==
    /\ \A t \in Thread : pc[t] = "down"
    /\ engines' = {e \in engines : e.port \notin Port}
    /\ Start
    /\ UNCHANGED <<health, pool, slots, lock, list, at, dead, removing, late,
                   changes>>

-----------------------------------------------------------------------------

Provision(t) == Collect(t) \/ CollectTelegram(t) \/ StopOld(t) \/ StartSlot(t)
                \/ Provisioned(t)
Probe == FoundDown \/ NotDue \/ ProbeUp \/ ProbeFailed \/ ProbeDead
Replace == \/ SelectLive \/ SelectTelegram \/ Unassigned \/ Replaced
           \/ \E u \in Uri : SkipCandidate(u) \/ FailCandidate(u)
                             \/ AssignCandidate(u)
Refresh == RefreshBegin \/ Probe \/ Probed \/ Replace
Removal(t) == (\E u \in Uri : RemoveRecord(t, u)) \/ ReadPool(t) \/ WritePool(t)
             \/ Sweep(t)
Feed(t) == FeedRead(t) \/ FeedPool(t)
Environment == \/ pc[Main] # "down" /\ \E u \in Uri : Result(u) \/ Fetched(u)
               \/ \E e \in engines : EngineDies(e)

Next ==
    \/ \E t \in Thread : Provision(t) \/ Feed(t)
    \/ \E t \in Commander : Removal(t) \/ StopProvisioned(t) \/ StopAll(t)
    \/ Refresh
    \/ Crash \/ KillPortOccupants
    \/ Environment

Spec == Init /\ [][Next]_vars

-----------------------------------------------------------------------------
(* Properties                                                              *)

PC == {"idle", "again", "collect", "provision", "start", "probe", "select",
       "telegram", "replace", "removed", "filtered", "sweep", "feed", "down"}

(* What the variables hold.                                                *)
TypeOK ==
    /\ health \in [Uri -> Health]
    /\ pool \in SUBSET Uri
    /\ slots \in Seq(PortSlot)
    /\ engines \subseteq [pid: Pid, port: Port, uri: Uri]
    /\ lock \in Thread \cup {Nobody}
    /\ pc \in [Thread -> PC]
    /\ list \in [Thread -> Seq(Uri)]
    /\ at \in [Thread -> Nat \ {0}]
    /\ dead \in Seq(Nat \ {0})
    /\ removing \in [Thread -> Uri \cup {NoUri}]
    /\ late \in SUBSET Uri
    /\ changes \in 0..MaxChanges

(* No engine is lost: whatever provisioning, refresh, removal and stop do  *)
(* in whatever order, and wherever the process before ended, an engine     *)
(* that runs once start has looked at the ports is the one a slot          *)
(* remembers, on that slot's port and with that slot's config, so the next *)
(* of them can stop it.                                                    *)
EnginesOwned ==
    pc[Main] = "down" \/ \A e \in engines : \E i \in DOMAIN slots :
        /\ slots[i].pid = e.pid
        /\ slots[i].port = e.port
        /\ slots[i].uri = e.uri

(* Two slots never share a port or an engine, and the fields of a slot     *)
(* agree: one that is shown as alive remembers an engine and has not       *)
(* failed since, and a slot that remembers an engine has a config and is   *)
(* not dead.                                                               *)
SlotsCoherent ==
    /\ TypeOK
    /\ \A i, j \in DOMAIN slots : i # j =>
          /\ slots[i].port # slots[j].port
          /\ slots[i].pid = slots[j].pid => slots[i].pid = NoPid
    /\ \A i \in DOMAIN slots :
          /\ slots[i].alive => slots[i].pid # NoPid /\ slots[i].fails = 0
          /\ slots[i].pid # NoPid =>
                 slots[i].uri # NoUri /\ slots[i].fails < DeadFails

(* A config that a command has removed is on a port only while the removal *)
(* has not reached the slots, or when another thread held it in a list     *)
(* made before (or put it back into the pool): the refresh, which makes    *)
(* its list under the mutex, never brings it back by itself.               *)
RemovedOnlyLate ==
    \A i \in DOMAIN slots :
        LET u == slots[i].uri
        IN u # NoUri /\ health[u] = "gone" =>
               u \in late \/ \E t \in Thread : removing[t] = u

=============================================================================
