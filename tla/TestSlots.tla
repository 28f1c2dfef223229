----------------------------- MODULE TestSlots -----------------------------
(***************************************************************************)
(* The tests of ProxyTester: threads of the pool pass a gate that counts   *)
(* running tests, choose a local port, start an engine process on it,      *)
(* measure through the port and kill the process (testWithXray).  The gate *)
(* is an atomic counter that is read and then incremented; the port is     *)
(* chosen under a mutex, long before the engine binds it.                  *)
(***************************************************************************)
EXTENDS Naturals, FiniteSets

CONSTANTS
    Thread,         \* the threads that run tests
    PortCount,      \* ports of the rotation; 10000 in the source
    Taken,          \* those other programs listen on
    MaxActive,      \* getMaxConcurrentTests()
    MaxWait,        \* polls of the gate before giving up; 60
    MaxOvertakes,   \* bound: ports others may choose during one test
    Nobody          \* "no engine"

ASSUME TestSlotsAssumption ==
    /\ IsFiniteSet(Thread)
    /\ PortCount \in Nat \ {0} /\ MaxActive \in Nat \ {0}
    /\ Taken \subseteq 0 .. (PortCount - 1)
    /\ MaxWait \in Nat /\ MaxOvertakes \in Nat
    /\ Nobody \notin Thread

(* A rotation is longer than the choices others make during one test and   *)
(* the ports in use elsewhere: in the source 10000 ports, each choice      *)
(* holding the mutex for a probe of up to 50 ms.                           *)
ASSUME RotationAssumption == PortCount > MaxOvertakes + Cardinality(Taken)

Port == 0..(PortCount - 1)

VARIABLES
    active,     \* s_active_tests
    next,       \* s_next_port, counted from the first port
    pc,         \* where each test is
    waits,      \* wait_count of each test
    port,       \* test_port of each test
    proc,       \* the engine process of each test
    source,     \* the test whose engine the speed was measured through
    overtakes   \* ports chosen by others since each test chose its own

slotVars == <<active, next, pc, waits, port, proc, source, overtakes>>

SlotInit ==
    /\ active = 0
    /\ next = 0
    /\ pc = [t \in Thread |-> "idle"]
    /\ waits = [t \in Thread |-> 0]
    /\ port = [t \in Thread |-> 0]
    /\ proc = [t \in Thread |-> "none"]
    /\ source = [t \in Thread |-> Nobody]
    /\ overtakes = [t \in Thread |-> 0]

Goto(t, where) == pc' = [pc EXCEPT ![t] = where]

(* Whose engine listens on p: at most one process can bind it.             *)
Listener(p) == {u \in Thread : proc[u] = "up" /\ port[u] = p}

(* isPortAlive: somebody listens on p.                                     *)
Answers(p) == p \in Taken \/ Listener(p) # {}

(* The tests that have chosen a port and not given it back.                *)
OnPort == {t \in Thread : pc[t] \in {"ready", "probe", "measure", "kill"}}

-----------------------------------------------------------------------------
(* The gate                                                                *)

Begin(t) ==
    /\ pc[t] = "idle"
    /\ Goto(t, "gate")
    /\ UNCHANGED <<active, next, waits, port, proc, source, overtakes>>

(* The loop's condition is false: the test goes on, and counts itself in   *)
(* a later step.                                                           *)
Pass(t) ==
    /\ pc[t] = "gate"
    /\ active < MaxActive
    /\ Goto(t, "enter")
    /\ waits' = [waits EXCEPT ![t] = 0]
    /\ UNCHANGED <<active, next, port, proc, source, overtakes>>

(* wrong variant: nobody counts the polls *)
PollForever(t) ==
    /\ pc[t] = "gate"
    /\ active >= MaxActive
    /\ UNCHANGED slotVars

(* Full: sleep, count the poll, give up after too many.                    *)
Poll(t) ==
    /\ pc[t] = "gate"
    /\ active >= MaxActive
    /\ IF waits[t] + 1 > MaxWait
       THEN waits' = [waits EXCEPT ![t] = 0] /\ Goto(t, "idle")
       ELSE waits' = [waits EXCEPT ![t] = @ + 1] /\ UNCHANGED pc
    /\ UNCHANGED <<active, next, port, proc, source, overtakes>>

Enter(t) ==
    /\ pc[t] = "enter"
    /\ active' = active + 1
    /\ Goto(t, "slot")
    /\ UNCHANGED <<next, waits, port, proc, source, overtakes>>

(* What every return from behind the gate does; its locals end.            *)
Leave(t) ==
    /\ active' = active - 1
    /\ port' = [port EXCEPT ![t] = 0]
    /\ overtakes' = [overtakes EXCEPT ![t] = 0]
    /\ Goto(t, "idle")

(* The optional TCP pre-screen finds the server dead.                      *)
Prescreen(t) ==
    /\ pc[t] = "slot"
    /\ Leave(t)
    /\ UNCHANGED <<next, waits, proc, source>>

-----------------------------------------------------------------------------
(* The port and the process                                                *)

(* The ports in the order in which a search looks at them.                 *)
At(i) ==
    LET start == IF next >= PortCount THEN 0 ELSE next
    IN  IF start + i >= PortCount THEN start + i - PortCount ELSE start + i

TakePort(t, p) ==
    /\ port' = [port EXCEPT ![t] = p]
    /\ next' = p + 1
    /\ overtakes' = [u \in Thread |-> IF u = t THEN 0
                                      ELSE IF u \in OnPort THEN overtakes[u] + 1
                                      ELSE overtakes[u]]
    /\ Goto(t, "ready")
    /\ UNCHANGED <<active, waits, proc, source>>

(* wrong variant: every search starts at the first port *)
FirstPort(t) ==
    /\ pc[t] = "slot"
    /\ \A u \in OnPort : overtakes[u] < MaxOvertakes
    /\ \E p \in Port : /\ ~Answers(p)
                       /\ \A q \in 0 .. p - 1 : Answers(q)
                       /\ TakePort(t, p)

(* getFreePort, under its mutex: the first port from next on, around the   *)
(* range, that nobody answers on.  (It looks at 500 ports and then takes   *)
(* one unseen; with at most 128 tests some port is free before that.)      *)
(* The bound on overtakes is a bound of the model: see the README.         *)
GetFreePort(t) ==
    /\ pc[t] = "slot"
    /\ \A u \in OnPort : overtakes[u] < MaxOvertakes
    /\ \E i \in Port : /\ ~Answers(At(i))
                       /\ \A j \in 0 .. i - 1 : Answers(At(j))
                       /\ TakePort(t, At(i))

(* The config has no engine form, or its file or process cannot be made.   *)
GiveUp(t) ==
    /\ pc[t] = "ready"
    /\ Leave(t)
    /\ UNCHANGED <<next, waits, proc, source>>

CreateProcess(t) ==
    /\ pc[t] = "ready"
    /\ proc' = [proc EXCEPT ![t] = "starting"]
    /\ Goto(t, "probe")
    /\ UNCHANGED <<active, next, waits, port, source, overtakes>>

(* The port answers: to whom it belongs cannot be seen.                    *)
PortAlive(t) ==
    /\ pc[t] = "probe"
    /\ Answers(port[t])
    /\ Goto(t, "measure")
    /\ UNCHANGED <<active, next, waits, port, proc, source, overtakes>>

(* wrong variant: this return forgets the slot *)
PortDeadLeak(t) ==
    /\ pc[t] = "probe"
    /\ ~Answers(port[t])
    /\ proc' = [proc EXCEPT ![t] = "none"]
    /\ Goto(t, "idle")
    /\ UNCHANGED <<active, next, waits, port, source, overtakes>>

(* The process is dead or ten probes have failed: kill it, give up.        *)
PortDead(t) ==
    /\ pc[t] = "probe"
    /\ ~Answers(port[t])
    /\ proc' = [proc EXCEPT ![t] = "none"]
    /\ Leave(t)
    /\ UNCHANGED <<next, waits, source>>

(* Download, or else the Telegram probes, through the port.  A success is  *)
(* the success of whoever listens there.                                   *)
Measure(t) ==
    /\ pc[t] = "measure"
    /\ \E s \in Listener(port[t]) \cup {Nobody} : source' = [source EXCEPT ![t] = s]
    /\ Goto(t, "kill")
    /\ UNCHANGED <<active, next, waits, port, proc, overtakes>>

(* Hold, kill the process, return the result.                              *)
Return(t) ==
    /\ pc[t] = "kill"
    /\ proc' = [proc EXCEPT ![t] = "none"]
    /\ source' = [source EXCEPT ![t] = Nobody]
    /\ Leave(t)
    /\ UNCHANGED <<next, waits>>

Step(t) ==
    \/ Pass(t) \/ Poll(t) \/ Enter(t) \/ Prescreen(t)
    \/ GetFreePort(t) \/ GiveUp(t) \/ CreateProcess(t)
    \/ PortAlive(t) \/ PortDead(t) \/ Measure(t) \/ Return(t)

(* The engine: it binds its port, if the port is free, or it dies.         *)
Listen(t) ==
    /\ proc[t] = "starting"
    /\ ~Answers(port[t])
    /\ proc' = [proc EXCEPT ![t] = "up"]
    /\ UNCHANGED <<active, next, pc, waits, port, source, overtakes>>

Die(t) ==
    /\ proc[t] \in {"starting", "up"}
    /\ proc' = [proc EXCEPT ![t] = "dead"]
    /\ UNCHANGED <<active, next, pc, waits, port, source, overtakes>>

SlotNext == \E t \in Thread : Begin(t) \/ Step(t) \/ Listen(t) \/ Die(t)

SlotSpec == SlotInit /\ [][SlotNext]_slotVars

(* The threads of the pool are scheduled; every network operation of a     *)
(* test has a timeout, so each of its steps ends.                          *)
SlotFairSpec == SlotSpec /\ \A t \in Thread : WF_slotVars(Step(t))

-----------------------------------------------------------------------------
(* Type correctness: the counter never falls below zero or passes the      *)
(* number of threads.                                                      *)
SlotTypeOK ==
    /\ active \in 0..Cardinality(Thread)
    /\ next \in 0..PortCount
    /\ pc \in [Thread -> {"idle", "gate", "enter", "slot", "ready", "probe",
                          "measure", "kill"}]
    /\ waits \in [Thread -> 0..MaxWait]
    /\ port \in [Thread -> Port]
    /\ proc \in [Thread -> {"none", "starting", "up", "dead"}]
    /\ source \in [Thread -> Thread \cup {Nobody}]
    /\ overtakes \in [Thread -> 0..MaxOvertakes]

(* Every return from behind the gate gives its slot back, once: the        *)
(* counter is the number of tests behind the gate (a leaked slot never     *)
(* comes back while the program runs).                                     *)
Inside == {t \in Thread : pc[t] = "slot"} \cup OnPort
SlotsAccounted == active = Cardinality(Inside)

(* No engine process outlives its test, on any path out of testWithXray.   *)
NoStrayEngine ==
    \A t \in Thread : proc[t] # "none" => pc[t] \in {"probe", "measure", "kill"}

(* A test is never credited with what another test's engine achieved,      *)
(* although ports are chosen long before they are bound and a test cannot  *)
(* see who answers on its port.                                            *)
ResultsAreOwn ==
    /\ SlotTypeOK
    /\ \A t \in Thread : source[t] \in {t, Nobody}

(* Every test comes to an end: also one that finds the gate full again and *)
(* again while others overtake it.                                         *)
TestsEnd == \A t \in Thread : pc[t] = "gate" ~> pc[t] = "idle"

=============================================================================
