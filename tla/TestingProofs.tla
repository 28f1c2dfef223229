--------------------------- MODULE TestingProofs ---------------------------
(***************************************************************************)
(* Proofs about the tests and about what their results become.             *)
(*                                                                         *)
(* Feed, for any number of configurations, cycles and commands: what a     *)
(* client is given has been tested since it was last removed, except by a  *)
(* thread that had listed it before; and finding nothing empties nothing.  *)
(*                                                                         *)
(* TestSlots, for any finite number of threads, any limit and any port     *)
(* range: no slot is lost or given back twice, no engine process outlives  *)
(* its test, and no test is credited with what another's engine achieved.  *)
(***************************************************************************)
EXTENDS Feed, TestSlots, Integers, FiniteSetTheorems, SequenceTheorems, TLAPS

-----------------------------------------------------------------------------
(* TestSlots: the gate                                                     *)

(* The part of SlotTypeOK the invariants rest on.                              *)
Shape ==
    /\ active \in Int
    /\ pc \in [Thread -> {"idle", "gate", "enter", "slot", "ready", "probe",
                          "measure", "kill"}]
    /\ proc \in [Thread -> {"none", "starting", "up", "dead"}]

SlotInv == Shape /\ SlotsAccounted /\ NoStrayEngine

(* The tests behind the gate, as one condition on where they are.          *)
LEMMA InsideIs ==
    Inside = {t \in Thread : pc[t] \in {"slot", "ready", "probe", "measure", "kill"}}
  BY DEF Inside, OnPort

(* A test that enters adds one to the number of tests behind the gate.     *)
LEMMA OneMore ==
    ASSUME Shape, NEW t \in Thread, pc[t] = "enter",
           pc' = [pc EXCEPT ![t] = "slot"]
    PROVE  Cardinality(Inside') = Cardinality(Inside) + 1
  <1>1. IsFiniteSet(Inside)
    BY TestSlotsAssumption, FS_Subset, InsideIs
  <1>2. Inside' = Inside \cup {t} /\ t \notin Inside
    BY DEF Inside, OnPort, Shape
  <1> QED BY <1>1, <1>2, FS_AddElement

(* A test that leaves takes one from it.                                   *)
LEMMA OneLess ==
    ASSUME Shape, NEW t \in Thread, t \in Inside,
           pc' = [pc EXCEPT ![t] = "idle"]
    PROVE  Cardinality(Inside') = Cardinality(Inside) - 1
  <1>1. IsFiniteSet(Inside)
    BY TestSlotsAssumption, FS_Subset, InsideIs
  <1>2. Inside' = Inside \ {t}
    BY DEF Inside, OnPort, Shape
  <1> QED BY <1>1, <1>2, FS_RemoveElement

(* A step that moves no test through the gate keeps the number.            *)
LEMMA Same ==
    ASSUME Shape, NEW t \in Thread, NEW where,
           pc' = [pc EXCEPT ![t] = where],
           \/ pc[t] \in {"idle", "gate"} /\ where \in {"idle", "gate", "enter"}
           \/ /\ pc[t] \in {"slot", "ready", "probe", "measure"}
              /\ where \in {"ready", "probe", "measure", "kill"}
    PROVE  Inside' = Inside
  BY DEF Inside, OnPort, Shape

(* No test is running and no process either.                               *)
LEMMA InitEstablishes == SlotInit => SlotInv
  <1> SUFFICES ASSUME SlotInit PROVE SlotInv
    OBVIOUS
  <1>1. Inside = {}
    BY DEF SlotInit, Inside, OnPort
  <1> QED BY <1>1, FS_EmptySet DEF SlotInit, SlotInv, Shape, SlotsAccounted, NoStrayEngine

(* The steps that count: entering, and each of the four ways out.          *)
LEMMA CountedSteps ==
    ASSUME SlotInv, NEW t \in Thread,
           \/ Enter(t) \/ Prescreen(t) \/ GiveUp(t) \/ PortDead(t) \/ Return(t)
    PROVE  SlotInv'
  <1> USE DEF SlotInv, Shape
  <1>1. CASE Enter(t)
    <2> USE <1>1 DEF Enter, Goto
    <2>1. SlotsAccounted'
      BY OneMore DEF SlotsAccounted
    <2> QED BY <2>1 DEF NoStrayEngine
  <1>2. CASE Prescreen(t) \/ GiveUp(t) \/ PortDead(t) \/ Return(t)
    <2>1. /\ pc[t] \in {"slot", "ready", "probe", "kill"}
          /\ active' = active - 1 /\ pc' = [pc EXCEPT ![t] = "idle"]
          /\ \/ proc' = proc /\ pc[t] \in {"slot", "ready"}
             \/ proc' = [proc EXCEPT ![t] = "none"]
      BY <1>2 DEF Prescreen, GiveUp, PortDead, Return, Leave, Goto
    <2>2. SlotsAccounted'
      BY <2>1, OneLess, InsideIs DEF SlotsAccounted
    <2>3. NoStrayEngine'
      BY <2>1 DEF NoStrayEngine
    <2> QED BY <2>1, <2>2, <2>3
  <1> QED BY <1>1, <1>2

(* The other steps of a test, and those of its engine.                     *)
LEMMA OtherSteps ==
    ASSUME SlotInv, NEW t \in Thread,
           \/ Begin(t) \/ Pass(t) \/ Poll(t) \/ GetFreePort(t)
           \/ CreateProcess(t) \/ PortAlive(t) \/ Measure(t)
           \/ Listen(t) \/ Die(t)
    PROVE  SlotInv'
  <1> USE DEF SlotInv, Shape
  <1>1. CASE Begin(t) \/ Pass(t) \/ GetFreePort(t) \/ PortAlive(t) \/ Measure(t)
    <2>1. /\ UNCHANGED <<active, proc>>
          /\ \E where \in {"gate", "enter", "ready", "measure", "kill"} :
                /\ pc' = [pc EXCEPT ![t] = where]
                /\ \/ pc[t] \in {"idle", "gate"} /\ where \in {"gate", "enter"}
                   \/ pc[t] = "slot" /\ where = "ready"
                   \/ pc[t] \in {"probe", "measure"} /\ where \in {"measure", "kill"}
      BY <1>1 DEF Begin, Pass, GetFreePort, TakePort, PortAlive, Measure, Goto
    <2>2. Inside' = Inside
      BY <2>1, Same
    <2> QED BY <2>1, <2>2 DEF SlotsAccounted, NoStrayEngine
  <1>2. CASE Poll(t)
    <2>1. /\ UNCHANGED <<active, proc>> /\ pc[t] = "gate"
          /\ pc' = pc \/ pc' = [pc EXCEPT ![t] = "idle"]
      BY <1>2 DEF Poll, Goto
    <2>2. Inside' = Inside
      BY <2>1 DEF Inside, OnPort
    <2> QED BY <2>1, <2>2 DEF SlotsAccounted, NoStrayEngine
  <1>3. CASE CreateProcess(t)
    <2>1. Inside' = Inside
      BY <1>3, Same DEF CreateProcess, Goto
    <2> QED BY <1>3, <2>1 DEF CreateProcess, Goto, SlotsAccounted, NoStrayEngine
  <1>4. CASE Listen(t) \/ Die(t)
    <2>1. /\ proc[t] # "none" /\ UNCHANGED <<active, pc>>
          /\ \E s \in {"up", "dead"} : proc' = [proc EXCEPT ![t] = s]
      BY <1>4 DEF Listen, Die
    <2>2. Inside' = Inside
      BY <2>1 DEF Inside, OnPort
    <2> QED BY <2>1, <2>2 DEF SlotsAccounted, NoStrayEngine
  <1> QED BY <1>1, <1>2, <1>3, <1>4

(* No step leaves the invariant.                                           *)
LEMMA NextPreserves == SlotInv /\ [SlotNext]_slotVars => SlotInv'
  <1> SUFFICES ASSUME SlotInv, [SlotNext]_slotVars PROVE SlotInv'
    OBVIOUS
  <1>1. CASE SlotNext
    BY <1>1, CountedSteps, OtherSteps DEF SlotNext, Step
  <1>2. CASE UNCHANGED slotVars
    BY <1>2 DEF slotVars, SlotInv, Shape, SlotsAccounted, NoStrayEngine, Inside, OnPort
  <1> QED BY <1>1, <1>2

(* The counter is the number of tests behind the gate, whatever way each   *)
(* of them goes (testWithXray).                                            *)
THEOREM SlotsCounted == SlotSpec => []SlotsAccounted
  <1>1. SlotInv => SlotsAccounted
    BY DEF SlotInv
  <1> QED BY InitEstablishes, NextPreserves, <1>1, PTL DEF SlotSpec

(* An engine process exists only while its test is behind the gate and has *)
(* yet to kill it (testWithXray).                                          *)
THEOREM EnginesEndWithTests == SlotSpec => []NoStrayEngine
  <1>1. SlotInv => NoStrayEngine
    BY DEF SlotInv
  <1> QED BY InitEstablishes, NextPreserves, <1>1, PTL DEF SlotSpec

-----------------------------------------------------------------------------
(* TestSlots: the rotation of the ports.  A port is not chosen again while *)
(* the test that chose it is running: all others come first.               *)

(* The rest of SlotTypeOK.                                                 *)
RangeOK ==
    /\ next \in 0 .. PortCount
    /\ pc \in [Thread -> {"idle", "gate", "enter", "slot", "ready", "probe",
                          "measure", "kill"}]
    /\ waits \in [Thread -> 0 .. MaxWait]
    /\ port \in [Thread -> Port]
    /\ proc \in [Thread -> {"none", "starting", "up", "dead"}]
    /\ source \in [Thread -> Thread \cup {Nobody}]
    /\ overtakes \in [Thread -> 0 .. MaxOvertakes]

(* The ports of this program the rotation has passed since it was at the   *)
(* port that comes up again after i others.                                *)
Since(i) == {At(j) : j \in i + 1 .. PortCount - 1} \ Taken

(* No more of them have been passed than others have chosen.               *)
Behind ==
    \A u \in OnPort : \E i \in Port : /\ port[u] = At(i)
                                      /\ Cardinality(Since(i)) <= overtakes[u]

Distinct == \A u, w \in OnPort : port[u] = port[w] => u = w

Credited == \A t \in Thread : source[t] \in {t, Nobody}

RotInv == RangeOK /\ Behind /\ Distinct /\ Credited

(* Every set of numbers has a least one.                                   *)
LEMMA Least ==
    ASSUME NEW S \in SUBSET Nat, S # {}
    PROVE  \E m \in S : \A n \in S : m <= n
  <1> DEFINE T == {0 .. m : m \in S}
  <1>1. T \subseteq FiniteSubsetsOf(Nat) /\ T # {}
    <2>1. \A m \in S : 0 .. m \in SUBSET Nat /\ IsFiniteSet(0 .. m)
      BY FS_Interval
    <2> QED BY <2>1 DEF FiniteSubsetsOf
  <1>2. PICK X \in T : \A Y \in T : ~(<<Y, X>> \in StrictSubsetOrdering(Nat))
    <2> HIDE DEF T
    <2> QED BY <1>1, FS_StrictSubsetOrderingWellFounded, WFMin
  <1>3. PICK m \in S : X = 0 .. m
    BY <1>2
  <1>4. ASSUME NEW n \in S, n < m PROVE FALSE
    <2>1. 0 .. n \subseteq 0 .. m /\ m \in 0 .. m /\ m \notin 0 .. n
      BY <1>4
    <2>2. 0 .. n \in SUBSET Nat /\ 0 .. m \in SUBSET Nat /\ 0 .. n # 0 .. m
      BY <2>1
    <2>3. <<0 .. n, 0 .. m>> \in StrictSubsetOrdering(Nat)
      BY <2>1, <2>2 DEF StrictSubsetOrdering
    <2> QED BY <1>2, <1>3, <1>4, <2>3
  <1> QED BY <1>4

(* One element adds at most one to the size of a set.                      *)
LEMMA AddAtMostOne ==
    ASSUME NEW S, IsFiniteSet(S), NEW x
    PROVE  /\ IsFiniteSet(S \cup {x})
           /\ Cardinality(S \cup {x}) <= Cardinality(S) + 1
  <1>1. PICK n \in Nat : n = Cardinality(S)
    BY FS_CardinalityType
  <1>2. /\ IsFiniteSet(S \cup {x})
        /\ Cardinality(S \cup {x}) = IF x \in S THEN n ELSE n + 1
    BY <1>1, FS_AddElement
  <1> QED BY <1>1, <1>2

(* A search looks at every port once.                                      *)
LEMMA AtIs ==
    ASSUME next \in 0 .. PortCount
    PROVE  /\ \A i \in Port : At(i) \in Port
           /\ \A i, j \in Port : At(i) = At(j) => i = j
           /\ \A p \in Port : \E i \in Port : At(i) = p
  <1>1. \A i \in Port : At(i) \in Port
    BY TestSlotsAssumption DEF At, Port
  <1>2. \A i, j \in Port : At(i) = At(j) => i = j
    BY TestSlotsAssumption DEF At, Port
  <1>3. ASSUME NEW p \in Port PROVE \E i \in Port : At(i) = p
    <2> DEFINE start == IF next >= PortCount THEN 0 ELSE next
               i == IF p >= start THEN p - start ELSE p - start + PortCount
    <2>1. i \in Port /\ At(i) = p
      BY TestSlotsAssumption DEF At, Port
    <2> QED BY <2>1
  <1> QED BY <1>1, <1>2, <1>3

(* Where the ports are in the next search, when the k-th has been chosen.  *)
LEMMA Turn ==
    ASSUME next \in 0 .. PortCount, NEW k \in Port, next' = At(k) + 1
    PROVE  /\ next' \in 0 .. PortCount
           /\ \A i \in k + 1 .. PortCount - 1 : At(i) = At(i - k - 1)'
           /\ \A i \in 0 .. k : At(i) = At(i + PortCount - k - 1)'
  BY TestSlotsAssumption DEF At, Port

(* How many ports the rotation has to itself.                              *)
LEMMA OwnPorts ==
    /\ IsFiniteSet(Port \ Taken)
    /\ Cardinality(Port \ Taken) > MaxOvertakes
  <1>1. IsFiniteSet(Port) /\ Cardinality(Port) = PortCount
    <2>1. 0 \in Int /\ PortCount - 1 \in Int
      BY TestSlotsAssumption
    <2>2. IsFiniteSet(0 .. PortCount - 1) /\ Cardinality(0 .. PortCount - 1) =
             IF 0 > PortCount - 1 THEN 0 ELSE (PortCount - 1) - 0 + 1
      BY <2>1, FS_Interval
    <2> QED BY <2>2, TestSlotsAssumption DEF Port
  <1>2. Port \cap Taken = Taken
    BY TestSlotsAssumption DEF Port
  <1>3. Cardinality(Port \ Taken) = PortCount - Cardinality(Taken)
    BY <1>1, <1>2, FS_Difference
  <1>4. IsFiniteSet(Port \ Taken) /\ IsFiniteSet(Taken) /\ Cardinality(Taken) \in Nat
    BY <1>1, FS_Subset, FS_CardinalityType, TestSlotsAssumption DEF Port
  <1> QED BY <1>3, <1>4, RotationAssumption, TestSlotsAssumption

LEMMA SinceFinite ==
    ASSUME next \in 0 .. PortCount, NEW i \in Port
    PROVE  /\ Since(i) \subseteq Port \ Taken /\ IsFiniteSet(Since(i))
           /\ Cardinality(Since(i)) \in Nat
  <1>1. \A j \in i + 1 .. PortCount - 1 : At(j) \in Port
    BY AtIs, TestSlotsAssumption DEF Port
  <1>2. Since(i) \subseteq Port \ Taken
    BY <1>1 DEF Since
  <1> QED BY <1>2, OwnPorts, FS_Subset, FS_CardinalityType

(* The port that is chosen comes before the port of every running test;    *)
(* what the search skips is not the program's own.                         *)
LEMMA NoneBefore ==
    ASSUME RangeOK, Behind, NoStrayEngine,
           \A u \in OnPort : overtakes[u] < MaxOvertakes,
           NEW k \in Port, ~Answers(At(k)), \A j \in 0 .. k - 1 : Answers(At(j))
    PROVE  /\ \A u \in OnPort : \E i \in k + 1 .. PortCount - 1 :
                 port[u] = At(i) /\ Cardinality(Since(i)) <= overtakes[u]
           /\ \A j \in 0 .. k - 1 : At(j) \in Taken
  <1> DEFINE J == {j \in Port : At(j) \notin Taken}
  <1>0. next \in 0 .. PortCount
    BY DEF RangeOK
  <1>1. k \in J /\ J \subseteq Nat
    BY DEF Answers, Port
  <1>2. PICK a \in J : \A j \in J : a <= j
    BY <1>1, Least
  <1>3. ASSUME NEW u \in OnPort
        PROVE  \E i \in Port : /\ i > a /\ port[u] = At(i)
                               /\ Cardinality(Since(i)) <= overtakes[u]
    <2>1. PICK i \in Port : port[u] = At(i) /\ Cardinality(Since(i)) <= overtakes[u]
      BY DEF Behind
    <2>2. ASSUME i <= a PROVE FALSE
      <3>1. ASSUME NEW q \in Port \ Taken, q # At(i) PROVE q \in Since(i)
        <4>1. PICK j \in Port : At(j) = q
          BY <1>0, AtIs
        <4>2. j \in J /\ j # i
          BY <3>1, <4>1
        <4>3. j \in i + 1 .. PortCount - 1
          BY <1>2, <2>2, <4>2, TestSlotsAssumption DEF Port
        <4> QED BY <4>1, <4>3 DEF Since
      <3>2. Port \ Taken \subseteq Since(i) \cup {At(i)}
        BY <3>1
      <3>3. IsFiniteSet(Since(i)) /\ Cardinality(Since(i)) \in Nat
        BY <1>0, SinceFinite
      <3>4. /\ IsFiniteSet(Since(i) \cup {At(i)})
            /\ Cardinality(Since(i) \cup {At(i)}) <= Cardinality(Since(i)) + 1
        BY <3>3, AddAtMostOne
      <3>5. Cardinality(Port \ Taken) <= Cardinality(Since(i) \cup {At(i)})
        BY <3>2, <3>4, FS_Subset
      <3>6. overtakes[u] < MaxOvertakes /\ overtakes[u] \in Nat
        BY DEF RangeOK, OnPort
      <3>7. /\ Cardinality(Port \ Taken) \in Nat
            /\ Cardinality(Since(i) \cup {At(i)}) \in Nat
        BY <3>4, OwnPorts, FS_CardinalityType
      <3> QED BY <2>1, <3>3, <3>4, <3>5, <3>6, <3>7, OwnPorts, TestSlotsAssumption
    <2>3. i > a
      BY <2>2, <1>2 DEF Port
    <2> QED BY <2>1, <2>3
  <1>4. ~Answers(At(a))
    <2>1. ASSUME NEW w \in Listener(At(a)) PROVE FALSE
      <3>1. w \in OnPort /\ port[w] = At(a)
        BY <2>1 DEF Listener, NoStrayEngine, OnPort
      <3>2. PICK i \in Port : i > a /\ port[w] = At(i)
        BY <3>1, <1>3
      <3>3. i = a
        BY <1>0, <1>2, <3>1, <3>2, AtIs
      <3> QED BY <3>2, <3>3 DEF Port
    <2> QED BY <2>1, <1>2 DEF Answers
  <1>5. a = k
    <2>1. a <= k /\ a \in Nat /\ k \in Nat
      BY <1>1, <1>2
    <2>2. ~(a < k)
      BY <1>4, <2>1
    <2> QED BY <2>1, <2>2
  <1>6. \A j \in 0 .. k - 1 : At(j) \in Taken
    <2>1. \A j \in 0 .. k - 1 : j \in Port /\ ~(k <= j)
      BY TestSlotsAssumption DEF Port
    <2> QED BY <1>2, <1>5, <2>1
  <1>7. \A i \in Port : i > a => i \in k + 1 .. PortCount - 1
    BY <1>5, TestSlotsAssumption DEF Port
  <1> QED BY <1>3, <1>6, <1>7

(* Choosing a port: the others are further behind, by one port of the      *)
(* program's own, and the new one is nobody's.                             *)
LEMMA ChoiceKeeps ==
    ASSUME RangeOK, Behind, Distinct, NoStrayEngine, NEW t \in Thread, GetFreePort(t)
    PROVE  /\ next' \in 0 .. PortCount /\ port' \in [Thread -> Port]
           /\ overtakes' \in [Thread -> 0 .. MaxOvertakes]
           /\ Behind' /\ Distinct'
  <1>1. /\ pc[t] = "slot" /\ \A u \in OnPort : overtakes[u] < MaxOvertakes
        /\ t \notin OnPort
    BY DEF GetFreePort, OnPort
  <1>2. PICK k \in Port : /\ ~Answers(At(k))
                          /\ \A j \in 0 .. k - 1 : Answers(At(j))
                          /\ TakePort(t, At(k))
    BY DEF GetFreePort
  <1>3. /\ port' = [port EXCEPT ![t] = At(k)] /\ next' = At(k) + 1
        /\ overtakes' = [u \in Thread |-> IF u = t THEN 0
                                          ELSE IF u \in OnPort THEN overtakes[u] + 1
                                          ELSE overtakes[u]]
        /\ pc' = [pc EXCEPT ![t] = "ready"]
    BY <1>2 DEF TakePort, Goto
  <1>4. next \in 0 .. PortCount /\ At(k) \in Port
    BY AtIs DEF RangeOK
  <1>5. /\ next' \in 0 .. PortCount
        /\ \A i \in k + 1 .. PortCount - 1 : At(i) = At(i - k - 1)'
        /\ \A i \in 0 .. k : At(i) = At(i + PortCount - k - 1)'
    BY <1>3, <1>4, Turn
  <1>6. /\ \A u \in OnPort : \E i \in k + 1 .. PortCount - 1 :
              port[u] = At(i) /\ Cardinality(Since(i)) <= overtakes[u]
        /\ \A j \in 0 .. k - 1 : At(j) \in Taken
    BY <1>1, <1>2, NoneBefore
  <1>7. port' \in [Thread -> Port]
    BY <1>3, <1>4 DEF RangeOK
  <1>8. overtakes' \in [Thread -> 0 .. MaxOvertakes]
    <2>1. \A u \in Thread : overtakes[u] \in 0 .. MaxOvertakes
      BY DEF RangeOK
    <2>2. \A u \in Thread : overtakes'[u] \in 0 .. MaxOvertakes
      BY <1>1, <1>3, <2>1, TestSlotsAssumption
    <2> QED BY <1>3, <2>2
  <1>9. OnPort' = OnPort \cup {t}
    BY <1>1, <1>3 DEF OnPort, RangeOK
  <1>10. ASSUME NEW i \in k + 1 .. PortCount - 1
         PROVE  Since(i - k - 1)' \subseteq Since(i) \cup {At(k)}
    <2>1. ASSUME NEW j \in i - k .. PortCount - 1, At(j)' \notin Taken
          PROVE  At(j)' \in Since(i) \cup {At(k)}
      <3>1. CASE j + k + 1 <= PortCount - 1
        <4>1. j + k + 1 \in i + 1 .. PortCount - 1
          BY <3>1, TestSlotsAssumption DEF Port
        <4>2. j + k + 1 \in k + 1 .. PortCount - 1 /\ (j + k + 1) - k - 1 = j
          BY <4>1, TestSlotsAssumption DEF Port
        <4>3. At(j)' = At(j + k + 1)
          BY <4>2, <1>5
        <4> QED BY <2>1, <4>1, <4>3 DEF Since
      <3>2. CASE j + k + 1 > PortCount - 1
        <4>1. /\ j + k + 1 - PortCount \in 0 .. k
              /\ (j + k + 1 - PortCount) + PortCount - k - 1 = j
          BY <3>2, TestSlotsAssumption DEF Port
        <4>2. At(j)' = At(j + k + 1 - PortCount)
          BY <4>1, <1>5
        <4>3. j + k + 1 - PortCount = k
          <5>1. j + k + 1 - PortCount \notin 0 .. k - 1
            BY <2>1, <4>2, <1>6
          <5> QED BY <4>1, <5>1, TestSlotsAssumption DEF Port
        <4> QED BY <4>2, <4>3
      <3> QED BY <3>1, <3>2, TestSlotsAssumption DEF Port
    <2>2. (i - k - 1) + 1 = i - k
      BY DEF Port
    <2> QED BY <2>1, <2>2 DEF Since
  <1>11. ASSUME NEW u \in OnPort
         PROVE  \E i \in Port : /\ port'[u] = At(i)'
                                /\ Cardinality(Since(i)') <= overtakes'[u]
    <2>1. PICK i \in k + 1 .. PortCount - 1 :
             port[u] = At(i) /\ Cardinality(Since(i)) <= overtakes[u]
      BY <1>6
    <2>2. i - k - 1 \in Port /\ i \in Port
      BY TestSlotsAssumption DEF Port
    <2>3. port'[u] = At(i - k - 1)'
      BY <1>1, <1>3, <1>5, <2>1 DEF RangeOK, OnPort
    <2>4. /\ IsFiniteSet(Since(i)) /\ Cardinality(Since(i)) \in Nat
      BY <1>4, <2>2, SinceFinite
    <2>5. /\ IsFiniteSet(Since(i) \cup {At(k)})
          /\ Cardinality(Since(i) \cup {At(k)}) <= Cardinality(Since(i)) + 1
      BY <2>4, AddAtMostOne
    <2>6. /\ IsFiniteSet(Since(i - k - 1)')
          /\ Cardinality(Since(i - k - 1)') <= Cardinality(Since(i) \cup {At(k)})
      BY <1>10, <2>5, FS_Subset
    <2>7. overtakes'[u] = overtakes[u] + 1 /\ overtakes[u] \in Nat
      BY <1>1, <1>3 DEF RangeOK, OnPort
    <2>8. /\ Cardinality(Since(i - k - 1)') \in Nat
          /\ Cardinality(Since(i) \cup {At(k)}) \in Nat
      BY <2>5, <2>6, FS_CardinalityType
    <2>9. Cardinality(Since(i - k - 1)') <= overtakes'[u]
      BY <2>1, <2>4, <2>5, <2>6, <2>7, <2>8
    <2> QED BY <2>2, <2>3, <2>9
  <1>12. \E i \in Port : port'[t] = At(i)' /\ Cardinality(Since(i)') <= overtakes'[t]
    <2>1. /\ PortCount - 1 \in Port /\ k \in 0 .. k
          /\ k + PortCount - k - 1 = PortCount - 1
      BY TestSlotsAssumption DEF Port
    <2>2. port'[t] = At(PortCount - 1)'
      BY <1>3, <1>5, <2>1 DEF RangeOK
    <2>3. Since(PortCount - 1)' = {}
      BY TestSlotsAssumption DEF Since
    <2>4. Cardinality(Since(PortCount - 1)') = 0 /\ overtakes'[t] = 0
      BY <1>3, <2>3, FS_EmptySet
    <2>5. 0 <= 0
      OBVIOUS
    <2> QED BY <2>1, <2>2, <2>4, <2>5
  <1>13. Behind'
    BY <1>9, <1>11, <1>12 DEF Behind
  <1>14. ASSUME NEW u \in OnPort PROVE port'[u] = port[u] /\ port[u] # At(k)
    <2>1. PICK i \in k + 1 .. PortCount - 1 : port[u] = At(i)
      BY <1>6
    <2>2. i \in Port /\ i # k
      BY TestSlotsAssumption DEF Port
    <2> QED BY <1>1, <1>3, <1>4, <2>1, <2>2, AtIs DEF RangeOK
  <1>15. port'[t] = At(k)
    BY <1>3 DEF RangeOK
  <1>16. Distinct'
    BY <1>9, <1>14, <1>15 DEF Distinct
  <1> QED BY <1>5, <1>7, <1>8, <1>13, <1>16

(* Nobody chooses a port; some may give theirs back.                       *)
LEMMA NoChoice ==
    ASSUME Behind, Distinct, next' = next, OnPort' \subseteq OnPort,
           \A u \in OnPort' : port'[u] = port[u] /\ overtakes'[u] = overtakes[u]
    PROVE  Behind' /\ Distinct'
  <1>1. \A i \in Port : At(i)' = At(i)
    BY DEF At
  <1>2. \A i \in Port : Since(i)' = Since(i)
    BY DEF Since, At
  <1>3. Behind'
    BY <1>1, <1>2 DEF Behind
  <1> QED BY <1>3 DEF Distinct

(* Who answers on a test's port is its own engine.                         *)
LEMMA OwnListener ==
    ASSUME RangeOK, Distinct, NoStrayEngine, NEW t \in OnPort
    PROVE  Listener(port[t]) \subseteq {t}
  BY DEF Listener, NoStrayEngine, Distinct, OnPort

(* A test that ends.                                                       *)
LEMMA LeaveKeeps ==
    ASSUME RotInv, NEW t \in Thread, Leave(t), next' = next, waits' = waits,
           proc' = proc \/ proc' = [proc EXCEPT ![t] = "none"],
           source' = source \/ source' = [source EXCEPT ![t] = Nobody]
    PROVE  RotInv'
  <1>1. /\ port' = [port EXCEPT ![t] = 0] /\ overtakes' = [overtakes EXCEPT ![t] = 0]
        /\ pc' = [pc EXCEPT ![t] = "idle"]
    BY DEF Leave, Goto
  <1>2. RangeOK'
    <2>1. 0 \in Port /\ 0 \in 0 .. MaxOvertakes
      BY TestSlotsAssumption DEF Port
    <2> QED BY <1>1, <2>1 DEF RotInv, RangeOK
  <1>3. OnPort' \subseteq OnPort /\ t \notin OnPort'
    BY <1>1 DEF OnPort, RotInv, RangeOK
  <1>4. \A u \in OnPort' : port'[u] = port[u] /\ overtakes'[u] = overtakes[u]
    BY <1>1, <1>3 DEF OnPort, RotInv, RangeOK
  <1>5. Behind' /\ Distinct'
    BY <1>3, <1>4, NoChoice DEF RotInv
  <1>6. Credited'
    BY DEF Credited, RotInv, RangeOK
  <1> QED BY <1>2, <1>5, <1>6 DEF RotInv

(* A step of a test that neither takes nor gives back a port.              *)
LEMMA MoveOn ==
    ASSUME RotInv, NEW t \in Thread, UNCHANGED <<next, port, overtakes>>,
           RangeOK', OnPort' \subseteq OnPort, Credited'
    PROVE  RotInv'
  BY NoChoice DEF RotInv

LEMMA TestSteps ==
    ASSUME RotInv, NoStrayEngine, NEW t \in Thread,
           Begin(t) \/ Step(t) \/ Listen(t) \/ Die(t)
    PROVE  RotInv'
  <1>1. CASE GetFreePort(t)
    <2>1. /\ next' \in 0 .. PortCount /\ port' \in [Thread -> Port]
          /\ overtakes' \in [Thread -> 0 .. MaxOvertakes]
          /\ Behind' /\ Distinct'
      BY <1>1, ChoiceKeeps DEF RotInv
    <2>2. /\ UNCHANGED <<waits, proc, source>> /\ pc' = [pc EXCEPT ![t] = "ready"]
      BY <1>1 DEF GetFreePort, TakePort, Goto
    <2>3. RangeOK' /\ Credited'
      BY <2>1, <2>2 DEF RotInv, RangeOK, Credited
    <2> QED BY <2>1, <2>3 DEF RotInv
  <1>2. CASE Prescreen(t) \/ GiveUp(t) \/ PortDead(t) \/ Return(t)
    BY <1>2, LeaveKeeps DEF Prescreen, GiveUp, PortDead, Return
  <1>3. CASE Measure(t)
    <2>1. PICK s \in Listener(port[t]) \cup {Nobody} : source' = [source EXCEPT ![t] = s]
      BY <1>3 DEF Measure
    <2>2. /\ UNCHANGED <<next, waits, port, proc, overtakes>> /\ pc[t] = "measure"
          /\ pc' = [pc EXCEPT ![t] = "kill"]
      BY <1>3 DEF Measure, Goto
    <2>3. t \in OnPort /\ OnPort' \subseteq OnPort
      BY <2>2 DEF OnPort, RotInv, RangeOK
    <2>4. s \in {t, Nobody}
      BY <2>1, <2>3, OwnListener DEF RotInv
    <2>5. RangeOK' /\ Credited'
      BY <2>1, <2>2, <2>4 DEF RotInv, RangeOK, Credited
    <2> QED BY <2>2, <2>3, <2>5, MoveOn
  <1>4. CASE Begin(t) \/ Pass(t) \/ Enter(t) \/ CreateProcess(t) \/ PortAlive(t)
               \/ Listen(t) \/ Die(t)
    <2>1. /\ UNCHANGED <<next, port, source, overtakes>>
          /\ waits' = waits \/ waits' = [waits EXCEPT ![t] = 0]
          /\ proc' = proc \/ \E x \in {"starting", "up", "dead"} :
                                proc' = [proc EXCEPT ![t] = x]
          /\ \/ pc' = pc
             \/ /\ pc[t] \in {"idle", "gate", "enter"}
                /\ \E x \in {"gate", "enter", "slot"} : pc' = [pc EXCEPT ![t] = x]
             \/ /\ pc[t] \in {"ready", "probe"}
                /\ \E x \in {"probe", "measure"} : pc' = [pc EXCEPT ![t] = x]
      BY <1>4 DEF Begin, Pass, Enter, CreateProcess, PortAlive, Listen, Die, Goto
    <2>2. OnPort' \subseteq OnPort
      BY <2>1 DEF OnPort, RotInv, RangeOK
    <2>3. RangeOK'
      BY <2>1, TestSlotsAssumption DEF RotInv, RangeOK
    <2>4. Credited'
      BY <2>1 DEF RotInv, Credited
    <2> QED BY <2>1, <2>2, <2>3, <2>4, MoveOn
  <1>5. CASE Poll(t)
    <2>1. /\ UNCHANGED <<next, port, proc, source, overtakes>> /\ pc[t] = "gate"
          /\ pc' = pc \/ pc' = [pc EXCEPT ![t] = "idle"]
          /\ \/ waits' = [waits EXCEPT ![t] = 0]
             \/ waits[t] + 1 <= MaxWait /\ waits' = [waits EXCEPT ![t] = @ + 1]
      <3>1. waits[t] \in Nat
        BY DEF RotInv, RangeOK
      <3> QED BY <1>5, <3>1, TestSlotsAssumption DEF Poll, Goto
    <2>2. OnPort' \subseteq OnPort
      BY <2>1 DEF OnPort, RotInv, RangeOK
    <2>3. RangeOK'
      BY <2>1, TestSlotsAssumption DEF RotInv, RangeOK
    <2>4. Credited'
      BY <2>1 DEF RotInv, Credited
    <2> QED BY <2>1, <2>2, <2>3, <2>4, MoveOn
  <1> QED BY <1>1, <1>2, <1>3, <1>4, <1>5 DEF Step

LEMMA RotationStarts == SlotInit => RotInv
  <1> SUFFICES ASSUME SlotInit PROVE RotInv
    OBVIOUS
  <1>1. OnPort = {}
    BY DEF SlotInit, OnPort
  <1>2. RangeOK
    BY TestSlotsAssumption DEF SlotInit, RangeOK, Port
  <1> QED BY <1>1, <1>2 DEF SlotInit, RotInv, Behind, Distinct, Credited

LEMMA RotationSteps == SlotInv /\ RotInv /\ [SlotNext]_slotVars => RotInv'
  <1> SUFFICES ASSUME SlotInv, RotInv, [SlotNext]_slotVars PROVE RotInv'
    OBVIOUS
  <1>1. CASE SlotNext
    BY <1>1, TestSteps DEF SlotNext, SlotInv
  <1>2. CASE UNCHANGED slotVars
    <2>1. UNCHANGED <<active, next, pc, waits, port, proc, source, overtakes>>
      BY <1>2 DEF slotVars
    <2>2. OnPort' = OnPort /\ RangeOK' /\ Credited'
      BY <2>1 DEF OnPort, RotInv, RangeOK, Credited
    <2> QED BY <2>1, <2>2, NoChoice DEF RotInv
  <1> QED BY <1>1, <1>2

(* A test is never credited with what another test's engine achieved,      *)
(* although its port was chosen long before its engine binds it            *)
(* (getFreePort, testWithXray).                                            *)
THEOREM ResultsBelong == SlotSpec => []ResultsAreOwn
  <1>1. SlotInv /\ RotInv => ResultsAreOwn
    <2> SUFFICES ASSUME SlotInv, RotInv PROVE ResultsAreOwn
      OBVIOUS
    <2>1. active \in 0 .. Cardinality(Thread)
      <3>1. /\ Inside \subseteq Thread /\ IsFiniteSet(Thread)
            /\ Cardinality(Thread) \in Nat
        BY TestSlotsAssumption, FS_CardinalityType, InsideIs
      <3>2. /\ Cardinality(Inside) <= Cardinality(Thread)
            /\ Cardinality(Inside) \in Nat
        BY <3>1, FS_Subset, FS_CardinalityType
      <3> QED BY <3>1, <3>2 DEF SlotInv, SlotsAccounted
    <2>2. SlotTypeOK
      BY <2>1 DEF RotInv, RangeOK, SlotTypeOK
    <2> QED BY <2>2 DEF RotInv, Credited, ResultsAreOwn
  <1> QED BY InitEstablishes, NextPreserves, RotationStarts, RotationSteps, <1>1,
             PTL DEF SlotSpec

-----------------------------------------------------------------------------
(* Feed                                                                    *)

(* Every configuration of an endpoint has passed a test since it was last  *)
(* removed, or a configuration of the same endpoint has.                   *)
AllPassed(k) == \A u \in Uri : KeyOf[u] = k => fate[u] = "passed"

(* A live record stands for an endpoint that has passed.                   *)
DbInv ==
    /\ DOMAIN db \subseteq Key
    /\ db \in [DOMAIN db -> Record]
    /\ \A k \in DOMAIN db : /\ KeyOf[db[k].uri] = k
                            /\ db[k].health = "live" => AllPassed(k)

FateInv == fate \in [Uri -> {"never", "passed"}]

(* A list that waits to be handed out: everything on it has passed a test, *)
(* or was removed after it was put on the list.                            *)
Listed(list, late) == \A u \in list : fate[u] = "passed" \/ u \in late

ValInv ==
    /\ val \in Execution
    /\ Listed(val.list, val.late)
    /\ val.at = "hand" => /\ val.list # {} /\ val.to # <<>>
                          /\ val.to \in Seq(DOMAIN out \cup {"github"})

(* A passed test that is still to be stored counts for its endpoint, or    *)
(* the endpoint was removed after it.                                      *)
Owing(owed, late) ==
    \A u \in Uri : <<u, "ok">> \in owed => AllPassed(KeyOf[u]) \/ u \in late

CycInv ==
    /\ cyc \in Cycle
    /\ Listed(cyc.list, cyc.late)
    /\ Owing(cyc.owed, cyc.late)
    /\ cyc.at = "hand" => /\ cyc.list # {} /\ cyc.to # <<>>
                          /\ cyc.to \in Seq(DOMAIN out \cup {"github"})

(* The steps a command has left: each names a sink, or reads the one the   *)
(* next step names.                                                        *)
Plan(to) ==
    /\ to \in Seq(DOMAIN out \cup {"read"})
    /\ \A i \in 1 .. Len(to) :
           to[i] = "read" => i + 1 \in 1 .. Len(to) /\ to[i + 1] \in DOMAIN out

Named(to) == {to[i] : i \in 1 .. Len(to)}

Clears == cmd.do \in {"clear", "remove"}

CmdInv ==
    /\ cmd \in Request
    /\ Clears => Plan(cmd.to) /\ cmd.to # <<>>
    /\ \A u \in cmd.read : fate[u] = "passed"

(* What a sink holds has passed a test, or the command in progress still   *)
(* has to take it out.                                                     *)
OutInv ==
    /\ DOMAIN out \in Watch
    /\ out \in [DOMAIN out -> SUBSET Uri]
    /\ \A s \in DOMAIN out : \A u \in out[s] :
           fate[u] = "passed" \/ (Clears /\ s \in Named(cmd.to) /\ u \in cmd.uris)

RestInv == paused \in BOOLEAN /\ used \in [cycles: Nat, commands: Nat]

FeedInv == DbInv /\ FateInv /\ ValInv /\ CycInv /\ CmdInv /\ OutInv /\ RestInv

(* How fate changes when nothing is removed.                               *)
Raised ==
    /\ FateInv'
    /\ \A u \in Uri : fate[u] = "passed" => fate'[u] = "passed"

LEMMA SameFate == ASSUME FateInv, fate' = fate PROVE Raised
  BY DEF Raised, FateInv

LEMMA KeptPassed == ASSUME Raised, NEW k, AllPassed(k) PROVE AllPassed(k)'
  BY DEF Raised, AllPassed

LEMMA PassedRaises ==
    ASSUME FateInv, NEW u \in Uri, fate' = Passed(u)
    PROVE  Raised /\ AllPassed(KeyOf[u])' /\ fate'[u] = "passed"
  BY DEF Raised, FateInv, Passed, AllPassed

LEMMA PassesRaises ==
    ASSUME FateInv, NEW u \in Uri, NEW v, Passes(u, v)
    PROVE  Raised /\ (v = "ok" => AllPassed(KeyOf[u])' /\ fate'[u] = "passed")
  BY PassedRaises, SameFate DEF Passes

(* Plans are put together from pieces.                                     *)
LEMMA Joined ==
    ASSUME NEW a, NEW b, Plan(a), Plan(b)
    PROVE  Plan(a \o b) /\ Named(a \o b) = Named(a) \cup Named(b)
  <1> DEFINE S == DOMAIN out \cup {"read"}
  <1>1. a \in Seq(S) /\ b \in Seq(S)
    BY DEF Plan
  <1>2. /\ a \o b \in Seq(S) /\ Len(a \o b) = Len(a) + Len(b)
        /\ \A i \in 1 .. Len(a) + Len(b) :
              (a \o b)[i] = IF i <= Len(a) THEN a[i] ELSE b[i - Len(a)]
    <2> HIDE DEF S
    <2> QED BY <1>1, ConcatProperties
  <1>3. Len(a) \in Nat /\ Len(b) \in Nat
    BY <1>1, LenProperties
  <1> DEFINE c == a \o b
  <1>4. /\ c \in Seq(S) /\ Len(c) = Len(a) + Len(b)
        /\ \A i \in 1 .. Len(a) : c[i] = a[i]
        /\ \A i \in 1 .. Len(b) : c[Len(a) + i] = b[i]
    BY <1>2, <1>3
  <1> HIDE DEF c
  <1>5. ASSUME NEW i \in 1 .. Len(c), c[i] = "read"
        PROVE  i + 1 \in 1 .. Len(c) /\ c[i + 1] \in DOMAIN out
    <2>1. CASE i <= Len(a)
      <3>1. i \in 1 .. Len(a) /\ a[i] = "read"
        BY <2>1, <1>3, <1>4, <1>5
      <3>2. i + 1 \in 1 .. Len(a) /\ a[i + 1] \in DOMAIN out
        BY <3>1 DEF Plan
      <3> QED BY <3>2, <1>3, <1>4
    <2>2. CASE ~(i <= Len(a))
      <3>1. PICK j \in 1 .. Len(b) : i = Len(a) + j
        <4>1. i - Len(a) \in 1 .. Len(b) /\ i = Len(a) + (i - Len(a))
          BY <2>2, <1>3, <1>4
        <4> QED BY <4>1
      <3>2. b[j] = "read"
        BY <3>1, <1>4, <1>5
      <3>3. j + 1 \in 1 .. Len(b) /\ b[j + 1] \in DOMAIN out
        BY <3>2 DEF Plan
      <3>4. i + 1 = Len(a) + (j + 1)
        BY <3>1, <1>3
      <3>5. c[i + 1] = b[j + 1]
        BY <3>3, <3>4, <1>4
      <3>6. i + 1 \in 1 .. Len(c)
        BY <3>3, <3>4, <1>3, <1>4
      <3> QED BY <3>3, <3>5, <3>6
    <2> QED BY <2>1, <2>2
  <1>6. Plan(c)
    BY <1>4, <1>5 DEF Plan
  <1>7. Named(c) = Named(a) \cup Named(b)
    <2>1. ASSUME NEW i \in 1 .. Len(a) PROVE a[i] \in Named(c)
      <3>1. i \in 1 .. Len(c) /\ c[i] = a[i]
        BY <1>3, <1>4
      <3> QED BY <3>1 DEF Named
    <2>2. ASSUME NEW i \in 1 .. Len(b) PROVE b[i] \in Named(c)
      <3>1. Len(a) + i \in 1 .. Len(c) /\ c[Len(a) + i] = b[i]
        BY <1>3, <1>4
      <3> QED BY <3>1 DEF Named
    <2>3. ASSUME NEW i \in 1 .. Len(c) PROVE c[i] \in Named(a) \cup Named(b)
      <3>1. CASE i <= Len(a)
        BY <3>1, <1>3, <1>4 DEF Named
      <3>2. CASE ~(i <= Len(a))
        <4>1. i - Len(a) \in 1 .. Len(b) /\ c[i] = b[i - Len(a)]
          BY <3>2, <1>3, <1>4
        <4> QED BY <4>1 DEF Named
      <3> QED BY <3>1, <3>2
    <2> QED BY <2>1, <2>2, <2>3 DEF Named
  <1> QED BY <1>6, <1>7 DEF c

(* What is left of a plan after its first step.                            *)
LEMMA Rest ==
    ASSUME NEW to, Plan(to), to # <<>>
    PROVE  /\ Len(to) \in Nat \ {0}
           /\ Head(to) = to[1] /\ Head(to) \in DOMAIN out \cup {"read"}
           /\ Head(to) = "read" => Len(to) # 1 /\ to[2] \in DOMAIN out
           /\ Len(to) = 1 => Named(to) = {Head(to)}
           /\ Len(to) # 1 => /\ Plan(Tail(to)) /\ Tail(to) # <<>> /\ Tail(to) # to
                             /\ Named(to) = {Head(to)} \cup Named(Tail(to))
  <1> DEFINE S == DOMAIN out \cup {"read"}
  <1>1. to \in Seq(S)
    BY DEF Plan
  <1>2. Len(to) \in Nat \ {0} /\ Head(to) = to[1] /\ to[1] \in S
    <2> HIDE DEF S
    <2> QED BY <1>1
  <1>3. /\ Tail(to) \in Seq(S) /\ Len(Tail(to)) = Len(to) - 1
        /\ \A i \in 1 .. Len(to) - 1 : Tail(to)[i] = to[i + 1]
    <2> HIDE DEF S
    <2> QED BY <1>1, <1>2
  <1> DEFINE r == Tail(to)
  <1>4. Head(to) = "read" => Len(to) # 1 /\ to[2] \in DOMAIN out
    <2> SUFFICES ASSUME to[1] = "read" PROVE Len(to) # 1 /\ to[2] \in DOMAIN out
      BY <1>2
    <2>1. 1 \in 1 .. Len(to) /\ 1 + 1 = 2
      BY <1>2
    <2>2. 2 \in 1 .. Len(to) /\ to[2] \in DOMAIN out
      BY <2>1 DEF Plan
    <2> QED BY <2>2, <1>2
  <1>5. Len(to) = 1 => Named(to) = {Head(to)}
    BY <1>2 DEF Named
  <1> HIDE DEF r
  <1>6. ASSUME Len(to) # 1
        PROVE  /\ Plan(r) /\ r # <<>> /\ r # to
               /\ Named(to) = {Head(to)} \cup Named(r)
    <2>1. Len(r) = Len(to) - 1 /\ r \in Seq(S)
          /\ \A i \in 1 .. Len(to) - 1 : r[i] = to[i + 1]
      BY <1>3 DEF r
    <2>2. r # <<>> /\ r # to
      BY <2>1, <1>2, <1>6
    <2>3. ASSUME NEW i \in 1 .. Len(r), r[i] = "read"
          PROVE  i + 1 \in 1 .. Len(r) /\ r[i + 1] \in DOMAIN out
      <3>1. i + 1 \in 1 .. Len(to) /\ to[i + 1] = "read"
        BY <2>1, <2>3, <1>2
      <3>2. (i + 1) + 1 \in 1 .. Len(to) /\ to[(i + 1) + 1] \in DOMAIN out
        BY <3>1 DEF Plan
      <3>3. i + 1 \in 1 .. Len(to) - 1
        BY <3>2, <1>2
      <3> QED BY <3>2, <3>3, <2>1
    <2>4. Plan(r)
      BY <2>1, <2>3 DEF Plan
    <2>5. Named(to) = {Head(to)} \cup Named(r)
      <3>1. ASSUME NEW i \in 1 .. Len(to) PROVE to[i] \in {Head(to)} \cup Named(r)
        <4>1. CASE i = 1
          BY <4>1, <1>2
        <4>2. CASE i # 1
          <5>1. i - 1 \in 1 .. Len(r) /\ r[i - 1] = to[i]
            BY <4>2, <2>1, <1>2
          <5> QED BY <5>1 DEF Named
        <4> QED BY <4>1, <4>2
      <3>2. ASSUME NEW i \in 1 .. Len(r) PROVE r[i] \in Named(to)
        <4>1. i + 1 \in 1 .. Len(to) /\ r[i] = to[i + 1]
          BY <2>1, <1>2
        <4> QED BY <4>1 DEF Named
      <3>3. Head(to) \in Named(to)
        BY <1>2 DEF Named
      <3> QED BY <3>1, <3>2, <3>3 DEF Named
    <2> QED BY <2>2, <2>4, <2>5
  <1> QED BY <1>2, <1>4, <1>5, <1>6 DEF r

(* The database.                                                           *)
LEMMA AgeKeeps ==
    ASSUME DbInv, NEW k \in Key, Age(k) PROVE DbInv'
  <1>1. PICK r \in {[db[k] EXCEPT !.due = "stale"], [db[k] EXCEPT !.boost = FALSE]} :
           k \in DOMAIN db /\ fate' = fate /\ db' = [db EXCEPT ![k] = r]
    BY DEF Age
  <1>2. db[k] \in Record
    BY <1>1 DEF DbInv
  <1>3. r \in Record /\ r.health = db[k].health /\ r.uri = db[k].uri
    BY <1>1, <1>2 DEF Record
  <1>4. \A j \in DOMAIN db' : /\ j \in DOMAIN db /\ db'[j].uri = db[j].uri
                             /\ db'[j].health = db[j].health /\ db'[j] \in Record
    BY <1>1, <1>3 DEF DbInv
  <1> QED BY <1>1, <1>4 DEF DbInv, AllPassed

LEMMA AddKeeps ==
    ASSUME DbInv, FateInv, Raised, NEW uris \in SUBSET Uri, NEW high \in BOOLEAN,
           Add(uris, high)
    PROVE  DbInv'
  <1> DEFINE fresh(u) == [uri |-> u, health |-> "new", fails |-> 0, due |-> "flag",
                          boost |-> high]
             again(k) == [db[k] EXCEPT !.due = "flag", !.boost = TRUE]
  <1>1. PICK first \in [KeysOf(uris) -> uris] :
           /\ \A k \in DOMAIN first : KeyOf[first[k]] = k
           /\ db' = [k \in DOMAIN db \cup KeysOf(uris) |->
                       IF k \notin DOMAIN db THEN fresh(first[k])
                       ELSE IF high /\ k \in KeysOf(uris) THEN again(k) ELSE db[k]]
    BY DEF Add
  <1>2. KeysOf(uris) \subseteq Key
    BY FeedAssumption DEF KeysOf
  <1>3. \A u \in Uri : fresh(u) \in Record /\ fresh(u).health = "new" /\ fresh(u).uri = u
    BY FeedAssumption DEF Record
  <1>4. \A k \in DOMAIN db : /\ db[k] \in Record /\ again(k) \in Record
                             /\ again(k).health = db[k].health
                             /\ again(k).uri = db[k].uri
    <2>1. \A rec \in Record :
             LET more == [rec EXCEPT !.due = "flag", !.boost = TRUE]
             IN  more \in Record /\ more.health = rec.health /\ more.uri = rec.uri
      BY DEF Record
    <2>2. \A k \in DOMAIN db : db[k] \in Record
      BY DEF DbInv
    <2> QED BY <2>1, <2>2
  <1> HIDE DEF fresh, again
  <1>5. DOMAIN db' = DOMAIN db \cup KeysOf(uris)
    BY <1>1
  <1>6. ASSUME NEW k \in DOMAIN db'
        PROVE  /\ db'[k] \in Record /\ KeyOf[db'[k].uri] = k
               /\ db'[k].health = "live" => AllPassed(k)'
    <2>1. CASE k \in DOMAIN db
      <3>1. db'[k] \in {again(k), db[k]}
        BY <1>1, <1>5, <2>1
      <3>2. /\ db'[k] \in Record /\ db'[k].uri = db[k].uri
            /\ db'[k].health = db[k].health
        BY <1>4, <2>1, <3>1
      <3> QED BY <2>1, <3>2, KeptPassed DEF DbInv
    <2>2. CASE k \notin DOMAIN db
      <3>1. k \in KeysOf(uris) /\ db'[k] = fresh(first[k]) /\ first[k] \in Uri
        BY <1>1, <1>5, <2>2
      <3> QED BY <1>1, <1>3, <3>1
    <2> QED BY <2>1, <2>2
  <1>7. db' \in [DOMAIN db' -> Record]
    BY <1>1, <1>5, <1>6
  <1> QED BY <1>2, <1>5, <1>6, <1>7 DEF DbInv

(* A result: a record is live afterwards only if it was, or has passed.    *)
LEMMA TestedIs ==
    ASSUME NEW rec \in Record, NEW v \in Verdict, NEW forced \in BOOLEAN
    PROVE  /\ Tested(rec, v, forced) \in Record
           /\ Tested(rec, v, forced).uri = rec.uri
           /\ Tested(rec, v, forced).health = "live" =>
                 v = "ok" \/ rec.health = "live"
  <1>1. /\ rec.health \in {"new", "live", "telegram", "dead"}
        /\ rec.fails \in 0 .. DeadFails /\ DeadFails \in Nat \ {0}
        /\ rec.uri \in Uri
    BY FeedAssumption DEF Record
  <1>2. PICK f \in 0 .. DeadFails :
           f = IF forced \/ rec.fails + 1 >= DeadFails THEN DeadFails ELSE rec.fails + 1
    <2>1. (IF forced \/ rec.fails + 1 >= DeadFails THEN DeadFails ELSE rec.fails + 1)
             \in 0 .. DeadFails
      BY <1>1
    <2> QED BY <2>1
  <1>3. PICK h \in {"new", "live", "telegram", "dead"} :
           h = IF rec.health = "new" \/ f = DeadFails THEN "dead" ELSE rec.health
    BY <1>1
  <1>4. h = "live" => rec.health = "live"
    BY <1>3
  <1>5. CASE v = "fail"
    <2>1. Tested(rec, v, forced) =
             [uri |-> rec.uri, health |-> h, fails |-> f, due |-> "no", boost |-> FALSE]
      BY <1>2, <1>3, <1>5 DEF Tested
    <2> QED BY <1>1, <2>1, <1>4 DEF Record
  <1>6. CASE v # "fail"
    <2>1. PICK k \in {"live", "telegram"} : k = IF v = "ok" THEN "live" ELSE "telegram"
      OBVIOUS
    <2>2. Tested(rec, v, forced) =
             [uri |-> rec.uri, health |-> k, fails |-> 0, due |-> "no", boost |-> FALSE]
      BY <2>1, <1>6 DEF Tested
    <2> QED BY <2>1, <2>2, <1>1 DEF Record
  <1> QED BY <1>5, <1>6

LEMMA StoreKeeps ==
    ASSUME DbInv, Raised, NEW u \in Uri, NEW v \in Verdict, NEW forced \in BOOLEAN,
           StoreVerdict(u, v, forced),
           v = "ok" /\ KeyOf[u] \in DOMAIN db => AllPassed(KeyOf[u])'
    PROVE  DbInv'
  <1> DEFINE k == KeyOf[u]
  <1>1. \A j \in DOMAIN db : AllPassed(j) => AllPassed(j)'
    BY KeptPassed
  <1>2. CASE k \notin DOMAIN db
    BY <1>1, <1>2 DEF StoreVerdict, DbInv
  <1>3. CASE k \in DOMAIN db
    <2>1. db[k] \in Record
      BY <1>3 DEF DbInv
    <2>2. PICK r \in Record : /\ r = Tested(db[k], v, forced) /\ r.uri = db[k].uri
                              /\ r.health = "live" => v = "ok" \/ db[k].health = "live"
      BY <2>1, TestedIs
    <2>3. db' = [db EXCEPT ![k] = r]
      BY <1>3, <2>2 DEF StoreVerdict
    <2>4. r.health = "live" => AllPassed(k)'
      BY <1>1, <1>3, <2>2 DEF DbInv
    <2> HIDE DEF k
    <2>5. /\ DOMAIN db' = DOMAIN db /\ db' \in [DOMAIN db' -> Record]
          /\ \A j \in DOMAIN db : j # k => db'[j] = db[j]
          /\ db'[k] = r
      BY <1>3, <2>3 DEF DbInv
    <2> QED BY <1>1, <1>3, <2>2, <2>4, <2>5 DEF DbInv
  <1> QED BY <1>2, <1>3

LEMMA RemovedKeeps ==
    ASSUME DbInv, FateInv, NEW uris, Removed(uris)
    PROVE  DbInv' /\ FateInv'
  <1>1. FateInv'
    BY DEF FateInv, Removed
  <1>2. db' = Restrict(db, DOMAIN db \ KeysOf(uris))
    BY DEF Removed
  <1>3. \A k \in DOMAIN db' : k \notin KeysOf(uris) /\ k \in DOMAIN db /\ db'[k] = db[k]
    BY <1>2 DEF Restrict
  <1>4. ASSUME NEW k, k \notin KeysOf(uris), AllPassed(k) PROVE AllPassed(k)'
    <2>1. \A u \in Uri : KeyOf[u] = k => u \notin uris
      BY <1>4 DEF KeysOf
    <2> QED BY <1>4, <2>1 DEF AllPassed, Removed
  <1>5. DOMAIN db' \subseteq Key /\ db' \in [DOMAIN db' -> Record]
    BY <1>2, <1>3 DEF DbInv, Restrict
  <1>6. ASSUME NEW k \in DOMAIN db'
        PROVE  KeyOf[db'[k].uri] = k /\ (db'[k].health = "live" => AllPassed(k)')
    BY <1>3, <1>4 DEF DbInv
  <1>7. DbInv'
    BY <1>5, <1>6 DEF DbInv
  <1> QED BY <1>1, <1>7

(* Nobody touches the database.                                            *)
LEMMA DbStays ==
    ASSUME DbInv, Raised, db' = db PROVE DbInv'
  BY KeptPassed DEF DbInv

(* The records that are handed out.                                        *)
LEMMA HealthyPassed ==
    ASSUME DbInv PROVE Healthy \in SUBSET Uri /\ \A u \in Healthy : fate[u] = "passed"
  <1>1. \A k \in DOMAIN db : Live(k) => db[k].uri \in Uri /\ fate[db[k].uri] = "passed"
    BY DEF DbInv, Live, AllPassed, Record
  <1> QED BY <1>1 DEF Healthy

(* What a step that leaves a part alone keeps of it.                       *)
LEMMA ValStays ==
    ASSUME ValInv, Raised, val' = val, DOMAIN out' = DOMAIN out PROVE ValInv'
  <1>1. Listed(val.list, val.late)'
    BY DEF ValInv, Listed, Raised, Execution
  <1> QED BY <1>1 DEF ValInv

LEMMA CycStays ==
    ASSUME CycInv, Raised, cyc' = cyc, DOMAIN out' = DOMAIN out PROVE CycInv'
  <1>1. Listed(cyc.list, cyc.late)'
    BY DEF CycInv, Listed, Raised, Cycle
  <1>2. Owing(cyc.owed, cyc.late)'
    BY KeptPassed DEF CycInv, Owing
  <1> QED BY <1>1, <1>2 DEF CycInv

LEMMA CmdStays ==
    ASSUME CmdInv, Raised, cmd' = cmd, DOMAIN out' = DOMAIN out PROVE CmdInv'
  <1>1. \A u \in cmd.read : u \in Uri /\ fate'[u] = "passed"
    BY DEF CmdInv, Raised, Request
  <1> QED BY <1>1 DEF CmdInv, Clears, Plan

LEMMA OutStays ==
    ASSUME OutInv, Raised, cmd' = cmd, out' = out PROVE OutInv'
  <1>1. \A s \in DOMAIN out : \A u \in out[s] : u \in Uri
    BY DEF OutInv
  <1> QED BY <1>1 DEF OutInv, Clears, Named, Raised

LEMMA RestStays ==
    ASSUME RestInv, paused' = paused, used' = used PROVE RestInv'
  BY DEF RestInv

(* Handing out a list that is not empty leaves a sink that is not empty,   *)
(* with nothing in it that has not passed a test or been on the list.      *)
LEMMA GivenIs ==
    ASSUME NEW s, NEW list \in SUBSET Uri, list # {}, NEW L \in Given(s, list)
    PROVE  L \in SUBSET list /\ L # {}
  <1>1. CASE s = "gemini"
    <2>1. /\ L \in SUBSET list
          /\ Cardinality(L) = Cardinality(list) - Cardinality(list) \div 2
      BY <1>1 DEF Given
    <2>2. Cardinality(list) \in Nat \ {0}
      BY FeedAssumption, FS_Subset, FS_CardinalityType, FS_EmptySet
    <2>3. \A n \in Nat \ {0} : n - n \div 2 # 0
      OBVIOUS
    <2>4. Cardinality(L) # 0
      BY <2>1, <2>2, <2>3
    <2> QED BY <2>1, <2>4, FS_EmptySet
  <1>2. CASE s # "gemini"
    BY <1>2 DEF Given
  <1> QED BY <1>1, <1>2

LEMMA HandKeeps ==
    ASSUME OutInv, FateInv, cmd' = cmd,
           NEW s \in DOMAIN out, NEW list \in SUBSET Uri, list # {},
           NEW late, Listed(list, late), Hand(s, list, late)
    PROVE  /\ Raised /\ OutInv' /\ DOMAIN out' = DOMAIN out
           /\ \A x \in DOMAIN out : out[x] # {} => out'[x] # {}
  <1>1. PICK L \in Given(s, list) :
           /\ out' = [out EXCEPT ![s] = IF s = "gold" THEN @ \cup L ELSE L]
           /\ fate' = [u \in Uri |-> IF u \in L \cap late /\ fate[u] = "never"
                                     THEN "passed" ELSE fate[u]]
    BY DEF Hand
  <1>2. L \in SUBSET list /\ L # {}
    BY GivenIs
  <1>3. Raised
    BY <1>1 DEF Raised, FateInv
  <1>4. \A u \in L : u \in Uri /\ fate'[u] = "passed"
    <2>1. \A u \in L : u \in Uri /\ (fate[u] = "passed" \/ u \in late)
      BY <1>2 DEF Listed
    <2>2. \A u \in Uri : fate[u] = "never" \/ fate[u] = "passed"
      BY DEF FateInv
    <2> QED BY <1>1, <2>1, <2>2
  <1>5. /\ DOMAIN out' = DOMAIN out
        /\ \A x \in DOMAIN out \ {s} : out'[x] = out[x]
        /\ out'[s] = out[s] \cup L \/ out'[s] = L
    BY <1>1
  <1>6. /\ \A x \in DOMAIN out : out'[x] \in SUBSET Uri
        /\ \A x \in DOMAIN out : out[x] # {} => out'[x] # {}
    BY <1>2, <1>5 DEF OutInv
  <1>7. out' \in [DOMAIN out -> SUBSET Uri]
    BY <1>1, <1>6
  <1>8. Clears' = Clears /\ Named(cmd.to)' = Named(cmd.to)
    BY DEF Clears, Named
  <1>9. ASSUME NEW x \in DOMAIN out, NEW u \in out'[x]
        PROVE  fate'[u] = "passed" \/ (Clears /\ x \in Named(cmd.to) /\ u \in cmd.uris)
    <2>1. CASE u \in L
      BY <2>1, <1>4
    <2>2. CASE u \notin L
      <3>1. u \in out[x]
        BY <2>2, <1>5
      <3>2. u \in Uri
        BY <3>1 DEF OutInv
      <3> QED BY <3>1, <3>2, <1>3 DEF OutInv, Raised
    <2> QED BY <2>1, <2>2
  <1>10. OutInv'
    BY <1>5, <1>7, <1>8, <1>9 DEF OutInv
  <1> QED BY <1>3, <1>5, <1>6, <1>10

(* Lists of sinks are put together from pieces.                            *)
LEMMA SeenIs ==
    ASSUME NEW s, NEW list
    PROVE  /\ Seen(s) \in Seq(DOMAIN out \cup {"github"})
           /\ Second(list) \in Seq(DOMAIN out \cup {"github"})
           /\ <<"github">> \in Seq(DOMAIN out \cup {"github"})
           /\ <<"github">> # <<>>
  <1> DEFINE S == DOMAIN out \cup {"github"}
  <1>1. <<>> \in Seq(S)
    OBVIOUS
  <1>2. <<"github">> \in Seq(S)
    <2>1. "github" \in S
      OBVIOUS
    <2> HIDE DEF S
    <2> QED BY <2>1
  <1>3. ASSUME NEW x \in DOMAIN out PROVE <<x>> \in Seq(S)
    <2>1. x \in S
      OBVIOUS
    <2> HIDE DEF S
    <2> QED BY <2>1
  <1> HIDE DEF S
  <1>4. \A x : Seen(x) \in Seq(S)
    BY <1>1, <1>3 DEF Seen
  <1>5. Second(list) \in Seq(S)
    BY <1>1, <1>4 DEF Second
  <1>6. <<"github">> # <<>>
    OBVIOUS
  <1> QED BY <1>2, <1>4, <1>5, <1>6 DEF S

LEMMA JoinedTo ==
    ASSUME NEW S, NEW a \in Seq(S), NEW b \in Seq(S)
    PROVE  /\ a \o b \in Seq(S)
           /\ a # <<>> \/ b # <<>> => a \o b # <<>>
  <1>1. a \o b \in Seq(S) /\ Len(a \o b) = Len(a) + Len(b)
    BY ConcatProperties
  <1>2. \A q \in Seq(S) : Len(q) \in Nat /\ (q # <<>> <=> Len(q) # 0)
    OBVIOUS
  <1> QED BY <1>1, <1>2

(* The list of sinks after its first.                                      *)
LEMMA NextTo ==
    ASSUME NEW S, NEW to \in Seq(S), to # <<>>
    PROVE  /\ Head(to) \in S
           /\ Len(to) # 1 => Tail(to) \in Seq(S) /\ Tail(to) # <<>>
  <1>1. Len(to) \in Nat \ {0} /\ Head(to) \in S
    OBVIOUS
  <1>2. Tail(to) \in Seq(S) /\ Len(Tail(to)) = Len(to) - 1
    BY HeadTailProperties
  <1>3. \A q \in Seq(S) : Len(q) # 0 => q # <<>>
    OBVIOUS
  <1>4. Len(to) # 1 => Len(Tail(to)) # 0
    <2>1. \A n \in Nat : n # 1 => n - 1 # 0
      OBVIOUS
    <2> QED BY <2>1, <1>1, <1>2
  <1> QED BY <1>1, <1>2, <1>3, <1>4

LEMMA SinksAreSinks ==
    ASSUME OutInv
    PROVE  /\ DOMAIN out \subseteq Sink /\ DOMAIN out # {}
           /\ "read" \notin DOMAIN out /\ "github" \notin DOMAIN out
  <1>1. DOMAIN out \subseteq Sink /\ DOMAIN out # {}
    <2>1. DOMAIN out \in Watch
      BY DEF OutInv
    <2>2. \A W \in Watch : W \subseteq Sink /\ W # {}
      BY FeedAssumption
    <2> QED BY <2>1, <2>2, Zenon
  <1>2. "read" \notin Sink /\ "github" \notin Sink
    BY DEF Sink
  <1> QED BY <1>1, <1>2

(* The parts of the invariant a step leaves alone, together.               *)
LEMMA Untouched ==
    ASSUME FeedInv, Raised, out' = out
    PROVE  /\ FateInv'
           /\ db' = db => DbInv'
           /\ val' = val => ValInv'
           /\ cyc' = cyc => CycInv'
           /\ cmd' = cmd => CmdInv' /\ OutInv'
           /\ paused' = paused /\ used' = used => RestInv'
  BY DbStays, ValStays, CycStays, CmdStays, OutStays, RestStays DEF FeedInv, Raised

LEMMA BatchesIs == ASSUME DbInv, NEW B \in Batches PROVE B \in SUBSET Uri
  <1>1. \A k \in DOMAIN db : db[k].uri \in Uri
    BY DEF DbInv, Record
  <1> QED BY <1>1 DEF Batches

(* The validator.                                                          *)
LEMMA TakeBatchKeeps == ASSUME FeedInv, TakeBatch PROVE FeedInv'
  <1>1. PICK B \in Batches : val' = [val EXCEPT !.at = "test", !.batch = B]
    BY DEF TakeBatch
  <1>2. UNCHANGED <<db, out, fate, cyc, cmd, paused, used>>
    BY DEF TakeBatch
  <1>3. B \in SUBSET Uri
    BY BatchesIs DEF FeedInv
  <1>4. Raised
    BY <1>2, SameFate DEF FeedInv
  <1>5. ValInv'
    <2>1. val' \in Execution /\ val'.list = val.list /\ val'.late = val.late
          /\ val'.at = "test"
      BY <1>1, <1>3 DEF FeedInv, ValInv, Execution
    <2>2. Listed(val.list, val.late)
      BY DEF FeedInv, ValInv
    <2> QED BY <1>2, <2>1, <2>2 DEF ValInv, Listed
  <1> QED BY <1>2, <1>4, <1>5, Untouched DEF FeedInv

LEMMA BatchShrinks ==
    ASSUME ValInv, Raised, out' = out, NEW u, val' = [val EXCEPT !.batch = @ \ {u}]
    PROVE  ValInv'
  <1>1. /\ val' \in Execution /\ val'.list = val.list /\ val'.late = val.late
        /\ val'.at = val.at /\ val'.to = val.to /\ val.list \in SUBSET Uri
    BY DEF ValInv, Execution
  <1>2. \A w \in val.list : fate'[w] = "passed" \/ w \in val.late
    BY <1>1 DEF ValInv, Listed, Raised
  <1>3. Listed(val.list, val.late)'
    BY <1>1, <1>2 DEF Listed
  <1> QED BY <1>1, <1>3 DEF ValInv

LEMMA StoreResultKeeps ==
    ASSUME FeedInv, NEW u \in Uri, StoreResult(u) PROVE FeedInv'
  <1>1. PICK v \in Verdict : StoreVerdict(u, v, FALSE) /\ Passes(u, v)
    BY DEF StoreResult
  <1>2. /\ val' = [val EXCEPT !.batch = @ \ {u}]
        /\ UNCHANGED <<out, cyc, cmd, paused, used>>
    BY DEF StoreResult
  <1>3. Raised /\ (v = "ok" => AllPassed(KeyOf[u])')
    BY <1>1, PassesRaises DEF FeedInv
  <1>4. DbInv'
    <2>1. FALSE \in BOOLEAN
      OBVIOUS
    <2> QED BY <1>1, <1>3, <2>1, StoreKeeps DEF FeedInv
  <1>5. ValInv'
    BY <1>2, <1>3, BatchShrinks DEF FeedInv
  <1> QED BY <1>2, <1>3, <1>4, <1>5, Untouched DEF FeedInv

LEMMA LoseResultKeeps ==
    ASSUME FeedInv, NEW u \in Uri, LoseResult(u) PROVE FeedInv'
  <1>1. /\ val' = [val EXCEPT !.batch = @ \ {u}]
        /\ UNCHANGED <<db, out, fate, cyc, cmd, paused, used>>
    BY DEF LoseResult
  <1>2. Raised
    BY <1>1, SameFate DEF FeedInv
  <1>3. ValInv'
    BY <1>1, <1>2, BatchShrinks DEF FeedInv
  <1> QED BY <1>1, <1>2, <1>3, Untouched DEF FeedInv

LEMMA RestingIs == Resting \in Execution /\ Resting.list = {} /\ Resting.at = "idle"
  <1>1. <<>> \in Seq(Sink \cup {"github"})
    OBVIOUS
  <1> QED BY <1>1 DEF Resting, Execution

LEMMA ReadRecordsKeeps == ASSUME FeedInv, ReadRecords PROVE FeedInv'
  <1> DEFINE S == DOMAIN out \cup {"github"}
  <1> DEFINE to == Seen("gold") \o Seen("cache") \o Seen("pool")
                       \o Second(Healthy) \o <<"github">>
  <1>1. val' = IF Healthy = {} THEN Resting
               ELSE [Resting EXCEPT !.at = "hand", !.list = Healthy, !.to = to]
    BY DEF ReadRecords
  <1>2. UNCHANGED <<db, out, fate, cyc, cmd, paused, used>>
    BY DEF ReadRecords
  <1>3. to \in Seq(S) /\ to # <<>>
    <2>1. /\ Seen("gold") \in Seq(S) /\ Seen("cache") \in Seq(S)
          /\ Seen("pool") \in Seq(S) /\ Second(Healthy) \in Seq(S)
          /\ <<"github">> \in Seq(S) /\ <<"github">> # <<>>
      BY SeenIs
    <2> HIDE DEF S
    <2> QED BY <2>1, JoinedTo
  <1>4. Raised
    BY <1>2, SameFate DEF FeedInv
  <1>5. Healthy \in SUBSET Uri /\ \A u \in Healthy : fate[u] = "passed"
    BY HealthyPassed DEF FeedInv
  <1>6. DOMAIN out \subseteq Sink
    BY SinksAreSinks DEF FeedInv
  <1>7. to \in Seq(Sink \cup {"github"})
    <2>1. S \subseteq Sink \cup {"github"}
      BY <1>6
    <2> HIDE DEF S, to
    <2> QED BY <1>3, <2>1
  <1> HIDE DEF to
  <1>8. ValInv'
    <2>1. CASE val' = Resting
      BY <2>1, RestingIs DEF ValInv, Listed
    <2>2. CASE val' # Resting
      <3>1. /\ Healthy # {}
            /\ val' = [Resting EXCEPT !.at = "hand", !.list = Healthy, !.to = to]
        BY <1>1, <2>2
      <3>2. /\ val' \in Execution /\ val'.list = Healthy /\ val'.to = to
        BY <3>1, <1>5, <1>7, RestingIs DEF Execution
      <3>3. Listed(val.list, val.late)'
        BY <3>2, <1>2, <1>5 DEF Listed
      <3> QED BY <3>1, <3>2, <3>3, <1>2, <1>3 DEF ValInv
    <2> QED BY <2>1, <2>2
  <1> QED BY <1>2, <1>4, <1>8, Untouched DEF FeedInv

(* Nothing is taken from the clients.                                      *)
Serves == \A s \in DOMAIN out : out[s] # {} => out'[s] # {}

LEMMA GithubKeeps ==
    ASSUME FeedInv, RefreshGithub, UNCHANGED <<out, fate>>
    PROVE  DbInv' /\ Raised /\ DOMAIN out' = DOMAIN out /\ Serves
           /\ (cmd' = cmd => OutInv')
  <1>1. Raised
    BY SameFate DEF FeedInv
  <1>2. PICK uris \in SUBSET Uri : Add(uris, FALSE)
    BY DEF RefreshGithub
  <1>3. FALSE \in BOOLEAN
    OBVIOUS
  <1>4. DbInv'
    BY <1>1, <1>2, <1>3, AddKeeps DEF FeedInv
  <1> QED BY <1>1, <1>4, Untouched DEF Serves

LEMMA ValidatorHandsKeeps == ASSUME FeedInv, ValidatorHands PROVE FeedInv' /\ Serves
  <1> DEFINE S == DOMAIN out \cup {"github"}
  <1>1. /\ val.at = "hand"
        /\ val' = IF Len(val.to) = 1 THEN Resting ELSE [val EXCEPT !.to = Tail(@)]
        /\ UNCHANGED <<cyc, cmd, paused, used>>
    BY DEF ValidatorHands
  <1>2. /\ val \in Execution /\ val.list \in SUBSET Uri /\ Listed(val.list, val.late)
        /\ val.list # {} /\ val.to # <<>> /\ val.to \in Seq(S)
        /\ val.to \in Seq(Sink \cup {"github"})
    BY <1>1 DEF FeedInv, ValInv, Execution
  <1>3. /\ Head(val.to) \in S
        /\ Len(val.to) # 1 => /\ Tail(val.to) \in Seq(S) /\ Tail(val.to) # <<>>
                              /\ Tail(val.to) \in Seq(Sink \cup {"github"})
    <2> HIDE DEF S
    <2> QED BY <1>2, NextTo
  <1>4. DbInv' /\ Raised /\ DOMAIN out' = DOMAIN out /\ Serves /\ OutInv'
    <2>1. CASE Head(val.to) = "github"
      BY <1>1, <2>1, GithubKeeps DEF ValidatorHands
    <2>2. CASE Head(val.to) # "github"
      <3>1. Hand(Head(val.to), val.list, val.late) /\ db' = db
        BY <2>2 DEF ValidatorHands
      <3>2. Head(val.to) \in DOMAIN out
        BY <1>3, <2>2
      <3>3. Raised /\ OutInv' /\ DOMAIN out' = DOMAIN out /\ Serves
        BY <1>1, <1>2, <3>1, <3>2, HandKeeps DEF FeedInv, Serves
      <3> QED BY <3>1, <3>3, DbStays DEF FeedInv
    <2> QED BY <2>1, <2>2
  <1>5. ValInv'
    <2>1. CASE Len(val.to) = 1
      BY <1>1, <2>1, RestingIs DEF ValInv, Listed
    <2>2. CASE Len(val.to) # 1
      <3>1. /\ val' \in Execution /\ val'.list = val.list /\ val'.late = val.late
            /\ val'.to = Tail(val.to)
        BY <1>1, <1>2, <1>3, <2>2 DEF Execution
      <3>2. \A w \in val.list : fate'[w] = "passed" \/ w \in val.late
        BY <1>2, <1>4 DEF Listed, Raised
      <3>3. Listed(val.list, val.late)'
        BY <3>1, <3>2 DEF Listed
      <3> QED BY <1>2, <1>3, <1>4, <2>2, <3>1, <3>3 DEF ValInv
    <2> QED BY <2>1, <2>2
  <1>6. CycInv' /\ CmdInv' /\ RestInv' /\ FateInv'
    BY <1>1, <1>4, CycStays, CmdStays, RestStays DEF FeedInv, Raised
  <1> QED BY <1>4, <1>5, <1>6 DEF FeedInv

(* The hunting cycle.  Steps that only move configurations between its     *)
(* sets leave its list alone.                                              *)
LEMMA NoCycleIs ==
    NoCycle \in Cycle /\ NoCycle.list = {} /\ NoCycle.owed = {} /\ NoCycle.at = "idle"
  <1>1. <<>> \in Seq(Sink \cup {"github"})
    OBVIOUS
  <1> QED BY <1>1 DEF NoCycle, Cycle

LEMMA CycleEnds == ASSUME cyc' = NoCycle PROVE CycInv'
  BY NoCycleIs DEF CycInv, Listed, Owing

LEMMA SameList ==
    ASSUME CycInv, Raised, cyc' \in Cycle, cyc'.list = cyc.list,
           cyc'.owed \subseteq cyc.owed, cyc'.late = cyc.late, cyc'.at # "hand"
    PROVE  CycInv'
  <1>1. cyc.list \in SUBSET Uri /\ \A u \in cyc.list : fate'[u] = "passed" \/ u \in cyc.late
    BY DEF CycInv, Listed, Cycle, Raised
  <1>2. Owing(cyc.owed, cyc.late)'
    BY KeptPassed DEF CycInv, Owing
  <1> QED BY <1>1, <1>2 DEF CycInv, Listed

LEMMA BeginCycleKeeps == ASSUME FeedInv, BeginCycle PROVE FeedInv'
  <1>1. PICK s \in Scraped :
           /\ Add(s[1] \cup s[2], FALSE)
           /\ cyc' = [NoCycle EXCEPT !.at = "select", !.todo = s[1], !.rest = s[2]]
    BY DEF BeginCycle
  <1>2. /\ used' = [used EXCEPT !.cycles = @ + 1]
        /\ UNCHANGED <<out, fate, val, cmd, paused>>
    BY DEF BeginCycle
  <1>3. s[1] \in SUBSET Uri /\ s[2] \in SUBSET Uri /\ s[1] \cup s[2] \in SUBSET Uri
    BY DEF Scraped
  <1>4. Raised
    BY <1>2, SameFate DEF FeedInv
  <1>5. DbInv'
    <2>1. FALSE \in BOOLEAN
      OBVIOUS
    <2> QED BY <1>1, <1>3, <1>4, <2>1, AddKeeps DEF FeedInv
  <1>6. CycInv'
    <2>1. cyc' \in Cycle /\ cyc'.list = {} /\ cyc'.owed = {} /\ cyc'.at = "select"
      BY <1>1, <1>3, NoCycleIs DEF Cycle
    <2> QED BY <2>1 DEF CycInv, Listed, Owing
  <1>7. RestInv'
    BY <1>2 DEF FeedInv, RestInv
  <1> QED BY <1>2, <1>4, <1>5, <1>6, <1>7, Untouched DEF FeedInv

LEMMA SelectKeeps == ASSUME FeedInv, Select PROVE FeedInv'
  <1>1. PICK B \in Batches :
           cyc' = [cyc EXCEPT !.at = "line",
                              !.rest = @ \cup ((Healthy \cup B) \ cyc.todo)]
    BY DEF Select
  <1>2. UNCHANGED <<db, out, fate, val, cmd, paused, used>>
    BY DEF Select
  <1>3. B \in SUBSET Uri /\ Healthy \in SUBSET Uri
    BY BatchesIs, HealthyPassed DEF FeedInv
  <1>4. Raised
    BY <1>2, SameFate DEF FeedInv
  <1>5. CycInv'
    <2>1. cyc' \in Cycle /\ cyc'.list = cyc.list /\ cyc'.late = cyc.late
          /\ cyc'.owed = cyc.owed /\ cyc'.at = "line"
      BY <1>1, <1>3 DEF FeedInv, CycInv, Cycle
    <2> QED BY <1>4, <2>1, SameList DEF FeedInv
  <1> QED BY <1>2, <1>4, <1>5, Untouched DEF FeedInv

LEMMA TestNextKeeps ==
    ASSUME FeedInv, NEW u \in Uri, TestNext(u) PROVE FeedInv'
  <1> DEFINE todo == {w \in cyc.todo : KeyOf[w] # KeyOf[u]}
  <1>1. cyc.at = "line" /\ UNCHANGED <<db, out, val, cmd, paused, used>>
    BY DEF TestNext
  <1>2. /\ cyc \in Cycle /\ cyc.list \in SUBSET Uri /\ todo \in SUBSET Uri
        /\ Listed(cyc.list, cyc.late) /\ Owing(cyc.owed, cyc.late)
    BY DEF FeedInv, CycInv, Cycle
  <1>3. Raised /\ CycInv'
    <2>1. CASE cyc' = [cyc EXCEPT !.todo = todo] /\ UNCHANGED fate
      <3>1. Raised
        BY <2>1, SameFate DEF FeedInv
      <3>2. cyc' \in Cycle /\ cyc'.list = cyc.list /\ cyc'.late = cyc.late
            /\ cyc'.owed = cyc.owed /\ cyc'.at = "line"
        BY <1>1, <1>2, <2>1 DEF Cycle
      <3> QED BY <3>1, <3>2, SameList DEF FeedInv
    <2>2. ASSUME NEW v \in {"ok", "other"}, Passes(u, v), NEW done \in SUBSET Key,
                 NEW L \in {cyc.list, cyc.list \cup {u}}, v # "ok" => L = cyc.list,
                 cyc' = [cyc EXCEPT !.todo = todo, !.owed = @ \cup {<<u, v>>},
                                    !.done = done, !.list = L]
          PROVE  Raised /\ CycInv'
      <3>1. Raised /\ (v = "ok" => AllPassed(KeyOf[u])' /\ fate'[u] = "passed")
        BY <2>2, PassesRaises DEF FeedInv
      <3>2. /\ cyc' \in Cycle /\ cyc'.list = L /\ cyc'.late = cyc.late
            /\ cyc'.owed = cyc.owed \cup {<<u, v>>} /\ cyc'.at = "line"
        <4> HIDE DEF todo
        <4>1. /\ cyc.owed \cup {<<u, v>>} \in SUBSET (Uri \X {"ok", "other"})
              /\ L \in SUBSET Uri
          BY <1>2, <2>2 DEF Cycle
        <4> DEFINE owed == cyc.owed \cup {<<u, v>>}
        <4>2. cyc' = [cyc EXCEPT !.todo = todo, !.owed = owed, !.done = done, !.list = L]
          BY <2>2
        <4> HIDE DEF owed
        <4>3. cyc' \in Cycle /\ cyc'.list = L /\ cyc'.late = cyc.late
              /\ cyc'.owed = owed /\ cyc'.at = "line"
          <5>1. owed \in SUBSET (Uri \X {"ok", "other"})
            BY <4>1 DEF owed
          <5> QED BY <1>1, <1>2, <2>2, <4>1, <4>2, <5>1 DEF Cycle
        <4> QED BY <4>3 DEF owed
      <3>3. Listed(cyc.list, cyc.late)'
        BY <1>2, <2>2, <3>1, <3>2 DEF Listed, Raised
      <3>4. Owing(cyc.owed, cyc.late)'
        <4> SUFFICES ASSUME NEW w \in Uri, <<w, "ok">> \in cyc.owed \cup {<<u, v>>}
                     PROVE  AllPassed(KeyOf[w])' \/ w \in cyc.late
          BY <3>2 DEF Owing
        <4>1. CASE <<w, "ok">> \in cyc.owed
          BY <1>2, <3>1, <4>1, KeptPassed DEF Owing
        <4>2. CASE <<w, "ok">> = <<u, v>>
          BY <3>1, <4>2
        <4> QED BY <4>1, <4>2
      <3> QED BY <3>1, <3>2, <3>3, <3>4 DEF CycInv
    <2>3. ASSUME NEW v \in {"ok", "other"}, Passes(u, v),
                 cyc' = [cyc EXCEPT
                           !.todo = todo,
                           !.owed = @ \cup {<<u, v>>},
                           !.done = @ \cup ({KeyOf[u]} \cap KeysOf(cyc.rest)),
                           !.list = IF v = "ok" /\ KeyOf[u] \notin cyc.done
                                    THEN @ \cup {u} ELSE @]
          PROVE  Raised /\ CycInv'
      <3> DEFINE L == IF v = "ok" /\ KeyOf[u] \notin cyc.done
                      THEN cyc.list \cup {u} ELSE cyc.list
                 done == cyc.done \cup ({KeyOf[u]} \cap KeysOf(cyc.rest))
      <3>1. L \in {cyc.list, cyc.list \cup {u}} /\ (v # "ok" => L = cyc.list)
        OBVIOUS
      <3>2. done \in SUBSET Key
        BY <1>2, FeedAssumption DEF Cycle
      <3>3. cyc' = [cyc EXCEPT !.todo = todo, !.owed = @ \cup {<<u, v>>},
                               !.done = done, !.list = L]
        BY <2>3
      <3> HIDE DEF L, done, todo
      <3> QED BY <2>2, <2>3, <3>1, <3>2, <3>3
    <2> QED BY <2>1, <2>3 DEF TestNext
  <1> QED BY <1>1, <1>3, Untouched DEF FeedInv

LEMMA MoveKeeps ==
    ASSUME FeedInv, CutShort \/ NextLine \/ AbortCycle PROVE FeedInv'
  <1>1. UNCHANGED <<db, out, fate, val, cmd, paused, used>>
    BY DEF CutShort, NextLine, AbortCycle
  <1>2. Raised
    BY <1>1, SameFate DEF FeedInv
  <1>3. CycInv'
    <2>1. CASE AbortCycle
      BY <2>1, CycleEnds DEF AbortCycle
    <2>2. CASE CutShort \/ NextLine
      <3>1. /\ cyc.at = "line"
            /\ \/ cyc' = [cyc EXCEPT !.todo = {}]
               \/ cyc' = [cyc EXCEPT !.todo = cyc.rest, !.rest = {}]
        BY <2>2 DEF CutShort, NextLine
      <3>2. cyc' \in Cycle /\ cyc'.list = cyc.list /\ cyc'.late = cyc.late
            /\ cyc'.owed = cyc.owed /\ cyc'.at = "line"
        BY <3>1 DEF FeedInv, CycInv, Cycle
      <3> QED BY <1>2, <3>2, SameList DEF FeedInv
    <2> QED BY <2>1, <2>2
  <1> QED BY <1>1, <1>2, <1>3, Untouched DEF FeedInv

LEMMA StoreOwedKeeps ==
    ASSUME FeedInv, NEW u \in Uri, StoreOwed(u) PROVE FeedInv'
  <1>1. PICK r \in {"ok", "other"}, v \in Verdict :
           /\ <<u, r>> \in cyc.owed /\ cyc' = [cyc EXCEPT !.owed = @ \ {<<u, r>>}]
           /\ (v = "ok" <=> r = "ok") /\ StoreVerdict(u, v, FALSE)
           /\ fate' = IF r = "ok" /\ u \in cyc.late /\ KeyOf[u] \in DOMAIN db
                      THEN Passed(u) ELSE fate
    BY DEF StoreOwed
  <1>2. cyc.at = "line" /\ UNCHANGED <<out, val, cmd, paused, used>>
    BY DEF StoreOwed
  <1>3. Raised
    BY <1>1, PassedRaises, SameFate DEF FeedInv
  <1>4. v = "ok" /\ KeyOf[u] \in DOMAIN db => AllPassed(KeyOf[u])'
    <2> SUFFICES ASSUME v = "ok", KeyOf[u] \in DOMAIN db PROVE AllPassed(KeyOf[u])'
      OBVIOUS
    <2>1. AllPassed(KeyOf[u]) \/ u \in cyc.late
      BY <1>1 DEF FeedInv, CycInv, Owing
    <2>2. CASE u \in cyc.late
      BY <1>1, <2>2, PassedRaises DEF FeedInv
    <2> QED BY <1>3, <2>1, <2>2, KeptPassed
  <1>5. DbInv'
    <2>1. FALSE \in BOOLEAN
      OBVIOUS
    <2> QED BY <1>1, <1>3, <1>4, <2>1, StoreKeeps DEF FeedInv
  <1>6. CycInv'
    <2>1. cyc' \in Cycle /\ cyc'.list = cyc.list /\ cyc'.late = cyc.late
          /\ cyc'.owed \subseteq cyc.owed /\ cyc'.at = "line"
      BY <1>1, <1>2 DEF FeedInv, CycInv, Cycle
    <2> QED BY <1>3, <2>1, SameList DEF FeedInv
  <1> QED BY <1>2, <1>3, <1>5, <1>6, Untouched DEF FeedInv

LEMMA RankKeeps == ASSUME FeedInv, Rank PROVE FeedInv'
  <1> DEFINE S == DOMAIN out \cup {"github"}
  <1> DEFINE to == Seen("good") \o <<"github">> \o Seen("pool") \o Seen("cache")
                       \o Second(cyc.list) \o Seen("gold")
  <1>1. cyc' = IF cyc.list = {} THEN NoCycle
               ELSE [cyc EXCEPT !.at = "hand", !.done = {}, !.to = to]
    BY DEF Rank
  <1>2. UNCHANGED <<db, out, fate, val, cmd, paused, used>>
    BY DEF Rank
  <1>3. to \in Seq(S) /\ to # <<>>
    <2>1. /\ Seen("good") \in Seq(S)
          /\ <<"github">> \in Seq(S) /\ <<"github">> # <<>>
          /\ Seen("pool") \in Seq(S) /\ Seen("cache") \in Seq(S)
          /\ Second(cyc.list) \in Seq(S) /\ Seen("gold") \in Seq(S)
      BY SeenIs
    <2> HIDE DEF S
    <2> QED BY <2>1, JoinedTo
  <1>4. Raised
    BY <1>2, SameFate DEF FeedInv
  <1>5. to \in Seq(Sink \cup {"github"})
    <2>1. S \subseteq Sink \cup {"github"}
      BY SinksAreSinks DEF FeedInv
    <2> HIDE DEF S, to
    <2> QED BY <1>3, <2>1
  <1> HIDE DEF to
  <1>6. CycInv'
    <2>1. CASE cyc' = NoCycle
      BY <2>1, CycleEnds
    <2>2. CASE cyc' # NoCycle
      <3>1. /\ cyc.list # {}
            /\ cyc' = [cyc EXCEPT !.at = "hand", !.done = {}, !.to = to]
        BY <1>1, <2>2
      <3>2. /\ cyc' \in Cycle /\ cyc'.list = cyc.list /\ cyc'.to = to
            /\ cyc'.late = cyc.late /\ cyc'.owed = cyc.owed
        BY <3>1, <1>5 DEF FeedInv, CycInv, Cycle
      <3>3. Listed(cyc.list, cyc.late)' /\ Owing(cyc.owed, cyc.late)'
        BY <3>2, <1>2, <1>4, KeptPassed DEF Listed, Owing, FeedInv, CycInv
      <3> QED BY <3>1, <3>2, <3>3, <1>2, <1>3 DEF CycInv
    <2> QED BY <2>1, <2>2
  <1> QED BY <1>2, <1>4, <1>6, Untouched DEF FeedInv

LEMMA CycleHandsKeeps == ASSUME FeedInv, CycleHands PROVE FeedInv' /\ Serves
  <1> DEFINE S == DOMAIN out \cup {"github"}
  <1>1. /\ cyc.at = "hand"
        /\ cyc' = IF Len(cyc.to) = 1 THEN NoCycle ELSE [cyc EXCEPT !.to = Tail(@)]
        /\ UNCHANGED <<val, cmd, paused, used>>
    BY DEF CycleHands
  <1>2. /\ cyc \in Cycle /\ cyc.list \in SUBSET Uri /\ Listed(cyc.list, cyc.late)
        /\ Owing(cyc.owed, cyc.late) /\ cyc.list # {} /\ cyc.to # <<>> /\ cyc.to \in Seq(S)
        /\ cyc.to \in Seq(Sink \cup {"github"})
    BY <1>1 DEF FeedInv, CycInv, Cycle
  <1>3. /\ Head(cyc.to) \in S
        /\ Len(cyc.to) # 1 => /\ Tail(cyc.to) \in Seq(S) /\ Tail(cyc.to) # <<>>
                              /\ Tail(cyc.to) \in Seq(Sink \cup {"github"})
    <2> HIDE DEF S
    <2> QED BY <1>2, NextTo
  <1>4. DbInv' /\ Raised /\ DOMAIN out' = DOMAIN out /\ Serves /\ OutInv'
    <2>1. CASE Head(cyc.to) = "github"
      BY <1>1, <2>1, GithubKeeps DEF CycleHands
    <2>2. CASE Head(cyc.to) # "github"
      <3>1. Hand(Head(cyc.to), cyc.list, cyc.late) /\ db' = db
        BY <2>2 DEF CycleHands
      <3>2. Head(cyc.to) \in DOMAIN out
        BY <1>3, <2>2
      <3>3. Raised /\ OutInv' /\ DOMAIN out' = DOMAIN out /\ Serves
        BY <1>1, <1>2, <3>1, <3>2, HandKeeps DEF FeedInv, Serves
      <3> QED BY <3>1, <3>3, DbStays DEF FeedInv
    <2> QED BY <2>1, <2>2
  <1>5. CycInv'
    <2>1. CASE Len(cyc.to) = 1
      BY <1>1, <2>1, CycleEnds
    <2>2. CASE Len(cyc.to) # 1
      <3>1. /\ cyc' \in Cycle /\ cyc'.list = cyc.list /\ cyc'.late = cyc.late
            /\ cyc'.owed = cyc.owed /\ cyc'.to = Tail(cyc.to)
        BY <1>1, <1>2, <1>3, <2>2 DEF Cycle
      <3>2. \A w \in cyc.list : fate'[w] = "passed" \/ w \in cyc.late
        BY <1>2, <1>4 DEF Listed, Raised
      <3>3. Listed(cyc.list, cyc.late)' /\ Owing(cyc.owed, cyc.late)'
        BY <1>2, <1>4, <3>1, <3>2, KeptPassed DEF Listed, Owing
      <3> QED BY <1>2, <1>3, <1>4, <2>2, <3>1, <3>3 DEF CycInv
    <2> QED BY <2>1, <2>2
  <1>6. ValInv' /\ CmdInv' /\ RestInv' /\ FateInv'
    BY <1>1, <1>4, ValStays, CmdStays, RestStays DEF FeedInv, Raised
  <1> QED BY <1>4, <1>5, <1>6 DEF FeedInv

(* The commands.                                                           *)
LEMMA NoCommandIs ==
    /\ NoCommand \in Request /\ NoCommand.do = "none" /\ NoCommand.read = {}
    /\ NoCommand.to = <<>>
  <1>1. <<>> \in Seq(Sink \cup {"read"})
    OBVIOUS
  <1> QED BY <1>1 DEF NoCommand, Request

LEMMA PiecePlans ==
    ASSUME OutInv, NEW s
    PROVE  /\ Plan(Seen(s)) /\ Plan(Filtered(s))
           /\ s \in DOMAIN out => s \in Named(Seen(s)) /\ s \in Named(Filtered(s))
  <1> DEFINE S == DOMAIN out \cup {"read"}
  <1>1. CASE s \notin DOMAIN out
    <2>1. Seen(s) = <<>> /\ Filtered(s) = <<>>
      BY <1>1 DEF Seen, Filtered
    <2>2. <<>> \in Seq(S) /\ Len(<<>>) = 0
      OBVIOUS
    <2> QED BY <1>1, <2>1, <2>2 DEF Plan
  <1>2. CASE s \in DOMAIN out
    <2>1. Seen(s) = <<s>> /\ Filtered(s) = <<"read", s>>
      BY <1>2 DEF Seen, Filtered
    <2>2. s \in S /\ "read" \in S /\ s # "read"
      BY <1>2, SinksAreSinks
    <2>3. /\ <<s>> \in Seq(S) /\ Len(<<s>>) = 1 /\ <<s>>[1] = s
          /\ <<"read", s>> \in Seq(S) /\ Len(<<"read", s>>) = 2
          /\ <<"read", s>>[1] = "read" /\ <<"read", s>>[2] = s
      <3> HIDE DEF S
      <3> QED BY <2>2
    <2>4. Plan(<<s>>) /\ s \in Named(<<s>>)
      BY <2>2, <2>3 DEF Plan, Named
    <2> DEFINE q == <<"read", s>>
    <2>5. q \in Seq(S) /\ Len(q) = 2 /\ q[1] = "read" /\ q[2] = s
      BY <2>3
    <2> HIDE DEF q
    <2>6. ASSUME NEW i \in 1 .. Len(q), q[i] = "read"
          PROVE  i + 1 \in 1 .. Len(q) /\ q[i + 1] \in DOMAIN out
      <3>1. i = 1 \/ i = 2
        BY <2>5
      <3> QED BY <3>1, <2>2, <2>5, <2>6, <1>2
    <2>7. Plan(q)
      BY <2>5, <2>6 DEF Plan
    <2>8. s \in Named(q)
      <3>1. 2 \in 1 .. Len(q)
        BY <2>5
      <3> QED BY <3>1, <2>5 DEF Named
    <2> QED BY <2>1, <2>4, <2>7, <2>8 DEF q
  <1> QED BY <1>1, <1>2

(* A removal begins: everything is still where it was, the command knows   *)
(* every place.                                                            *)
LEMMA RemovalKeeps ==
    ASSUME FeedInv, cmd.do = "none", NEW uris \in SUBSET Uri, Removed(uris),
           out' = out, paused' = paused, used' = [used EXCEPT !.commands = @ + 1],
           NEW d \in {"clear", "remove"}, NEW to, Plan(to), DOMAIN out \subseteq Named(to),
           cmd' = [NoCommand EXCEPT !.do = d, !.uris = uris, !.to = to]
    PROVE  FeedInv'
  <1>1. DbInv' /\ FateInv'
    BY RemovedKeeps DEF FeedInv
  <1>2. \A u \in Uri : fate[u] = "passed" => fate'[u] = "passed" \/ u \in uris
    BY DEF Removed, FeedInv, FateInv
  <1>3. \A k : k \in KeysOf(uris) \/ ~AllPassed(k) \/ AllPassed(k)'
    BY <1>2 DEF AllPassed, KeysOf
  <1>4. \A u \in uris : KeyOf[u] \in KeysOf(uris)
    BY DEF KeysOf
  <1> DEFINE Touched(listed) == {u \in listed : KeyOf[u] \in KeysOf(uris)}
             owing == {u \in Uri : <<u, "ok">> \in cyc.owed}
  <1>11. ValInv'
    <2>1. /\ val \in Execution /\ val.list \in SUBSET Uri
          /\ val' = [val EXCEPT !.late = @ \cup Touched(val.list)]
      BY DEF Removed, FeedInv, ValInv, Execution
    <2>2. /\ val' \in Execution /\ val'.list = val.list /\ val'.at = val.at
          /\ val'.to = val.to /\ val'.late = val.late \cup Touched(val.list)
      BY <2>1 DEF Execution
    <2>3. Listed(val.list, val.late)'
      BY <1>2, <1>4, <2>1, <2>2 DEF FeedInv, ValInv, Listed
    <2> QED BY <2>2, <2>3 DEF FeedInv, ValInv
  <1>12. CycInv'
    <2>1. /\ cyc \in Cycle /\ cyc.list \in SUBSET Uri
          /\ cyc' = [cyc EXCEPT !.late = @ \cup Touched(cyc.list \cup owing)]
      BY DEF Removed, FeedInv, CycInv, Cycle
    <2>2. /\ cyc' \in Cycle /\ cyc'.list = cyc.list /\ cyc'.at = cyc.at
          /\ cyc'.to = cyc.to /\ cyc'.owed = cyc.owed
          /\ cyc'.late = cyc.late \cup Touched(cyc.list \cup owing)
      BY <2>1 DEF Cycle
    <2>3. Listed(cyc.list, cyc.late)'
      BY <1>2, <1>4, <2>1, <2>2 DEF FeedInv, CycInv, Listed
    <2>4. Owing(cyc.owed, cyc.late)'
      BY <1>3, <2>2 DEF FeedInv, CycInv, Owing
    <2> QED BY <2>2, <2>3, <2>4 DEF FeedInv, CycInv
  <1>5. to \in Seq(Sink \cup {"read"})
    <2>1. DOMAIN out \cup {"read"} \subseteq Sink \cup {"read"}
      BY SinksAreSinks DEF FeedInv
    <2> DEFINE S == DOMAIN out \cup {"read"}
    <2>2. to \in Seq(S)
      BY DEF Plan
    <2> HIDE DEF S
    <2> QED BY <2>1, <2>2 DEF S
  <1>6. /\ cmd' \in Request /\ cmd'.do = d /\ cmd'.uris = uris /\ cmd'.to = to
        /\ cmd'.read = {}
    BY <1>5, NoCommandIs DEF Request
  <1>7. to # <<>>
    <2>1. PICK s : s \in DOMAIN out
      BY SinksAreSinks DEF FeedInv
    <2>2. PICK i \in 1 .. Len(to) : s = to[i]
      BY <2>1 DEF Named
    <2> QED BY <2>2
  <1>8. CmdInv'
    BY <1>6, <1>7 DEF CmdInv, Clears, Plan
  <1>9. OutInv'
    <2>1. Clears' /\ (\A s \in DOMAIN out : s \in Named(cmd.to)')
      BY <1>6 DEF Clears, Named
    <2>2. \A s \in DOMAIN out : \A u \in out[s] :
             u \in Uri /\ (fate'[u] = "passed" \/ u \in uris)
      BY <1>2 DEF FeedInv, OutInv, Clears
    <2> QED BY <2>1, <2>2, <1>6 DEF FeedInv, OutInv
  <1>10. RestInv'
    BY DEF FeedInv, RestInv
  <1> QED BY <1>1, <1>11, <1>12, <1>8, <1>9, <1>10 DEF FeedInv

LEMMA ClearAliveKeeps == ASSUME FeedInv, ClearAlive PROVE FeedInv'
  <1> DEFINE alive == {k \in DOMAIN db : db[k].health \in {"live", "telegram"}}
             uris == {db[k].uri : k \in alive}
             to == Seen("good") \o Seen("pool") \o Seen("gemini")
                      \o Seen("cache") \o Seen("gold")
  <1>1. /\ cmd.do = "none" /\ Removed(uris) /\ out' = out /\ paused' = paused
        /\ used' = [used EXCEPT !.commands = @ + 1]
        /\ cmd' = [NoCommand EXCEPT !.do = "clear", !.uris = uris, !.to = to]
    BY DEF ClearAlive, Command
  <1>2. uris \in SUBSET Uri
    BY DEF FeedInv, DbInv, Record
  <1>3. OutInv
    BY DEF FeedInv
  <1>4. Plan(to) /\ Named(to) = ((((Named(Seen("good")) \cup Named(Seen("pool")))
                         \cup Named(Seen("gemini"))) \cup Named(Seen("cache")))
                         \cup Named(Seen("gold")))
    BY <1>3, PiecePlans, Joined
  <1>5. DOMAIN out \subseteq Named(to)
    <2>1. \A s \in DOMAIN out : s \in Named(Seen(s)) /\ s \in Sink
      BY <1>3, PiecePlans, SinksAreSinks
    <2> QED BY <1>4, <2>1 DEF Sink
  <1> HIDE DEF uris, to
  <1> QED BY <1>1, <1>2, <1>4, <1>5, RemovalKeeps

LEMMA RemoveConfigsKeeps ==
    ASSUME FeedInv, NEW uris \in SUBSET Uri, RemoveConfigs(uris) PROVE FeedInv'
  <1> DEFINE to == Seen("gold") \o Seen("good") \o Filtered("pool")
                      \o Seen("cache") \o Filtered("gemini")
  <1>1. /\ cmd.do = "none" /\ Removed(uris) /\ out' = out /\ paused' = paused
        /\ used' = [used EXCEPT !.commands = @ + 1]
        /\ cmd' = [NoCommand EXCEPT !.do = "remove", !.uris = uris, !.to = to]
    BY DEF RemoveConfigs, Command
  <1>2. OutInv
    BY DEF FeedInv
  <1>3. Plan(to) /\ Named(to) = ((((Named(Seen("gold")) \cup Named(Seen("good")))
                         \cup Named(Filtered("pool"))) \cup Named(Seen("cache")))
                         \cup Named(Filtered("gemini")))
    BY <1>2, PiecePlans, Joined
  <1>4. DOMAIN out \subseteq Named(to)
    <2>1. \A s \in DOMAIN out : /\ s \in Named(Seen(s)) /\ s \in Named(Filtered(s))
                                /\ s \in Sink
      BY <1>2, PiecePlans, SinksAreSinks
    <2> QED BY <1>3, <2>1 DEF Sink
  <1> HIDE DEF to
  <1> QED BY <1>1, <1>3, <1>4, RemovalKeeps

(* One step of a removal: the sink it names holds nothing of what was      *)
(* removed afterwards.                                                     *)
LEMMA StepKeeps ==
    ASSUME FeedInv, Clears, UNCHANGED <<db, fate, val, cyc, paused, used>>,
           NEW X \in SUBSET Uri,
           \A u \in X : fate[u] = "passed",
           out' = IF Head(cmd.to) = "read" THEN out
                  ELSE [out EXCEPT ![Head(cmd.to)] = X],
           NEW R \in SUBSET Uri, \A u \in R : fate[u] = "passed",
           cmd' = IF Len(cmd.to) = 1 THEN NoCommand
                  ELSE [cmd EXCEPT !.to = Tail(@), !.read = R]
    PROVE  FeedInv'
  <1> DEFINE s == Head(cmd.to)
  <1>1. Plan(cmd.to) /\ cmd.to # <<>> /\ cmd \in Request
    BY DEF FeedInv, CmdInv
  <1>2. /\ s \in DOMAIN out \cup {"read"}
        /\ s = "read" => Len(cmd.to) # 1
        /\ Len(cmd.to) = 1 => Named(cmd.to) = {s}
        /\ Len(cmd.to) # 1 => /\ Plan(Tail(cmd.to)) /\ Tail(cmd.to) # <<>>
                              /\ Named(cmd.to) = {s} \cup Named(Tail(cmd.to))
    BY <1>1, Rest
  <1>3. DOMAIN out' = DOMAIN out /\ "read" \notin DOMAIN out
    BY SinksAreSinks DEF FeedInv
  <1>4. Raised
    BY SameFate DEF FeedInv
  <1>5. DbInv' /\ ValInv' /\ CycInv' /\ RestInv' /\ FateInv'
    BY <1>3, <1>4, DbStays, ValStays, CycStays, RestStays DEF FeedInv, Raised
  <1>6. CmdInv'
    <2>1. CASE Len(cmd.to) = 1
      BY <2>1, NoCommandIs DEF CmdInv, Clears
    <2>2. CASE Len(cmd.to) # 1
      <3>1. Tail(cmd.to) \in Seq(Sink \cup {"read"})
        <4>1. cmd.to \in Seq(Sink \cup {"read"})
          BY <1>1 DEF Request
        <4> QED BY <1>1, <2>2, <4>1, NextTo
      <3>2. /\ cmd' \in Request /\ cmd'.do = cmd.do /\ cmd'.to = Tail(cmd.to)
            /\ cmd'.read = R
        BY <1>1, <2>2, <3>1 DEF Request
      <3>3. Plan(cmd.to)'
        BY <1>2, <1>3, <2>2, <3>2 DEF Plan
      <3> QED BY <1>2, <2>2, <3>2, <3>3 DEF CmdInv, Clears
    <2> QED BY <2>1, <2>2
  <1> HIDE DEF s
  <1>7. out' \in [DOMAIN out -> SUBSET Uri]
    BY DEF FeedInv, OutInv
  <1>8. ASSUME NEW x \in DOMAIN out, NEW u \in out'[x]
        PROVE  fate'[u] = "passed"
                 \/ (Clears' /\ x \in Named(cmd'.to) /\ u \in cmd'.uris)
    <2>1. CASE x = s
      BY <2>1, <1>3 DEF s
    <2>2. CASE x # s
      <3>1. u \in out[x] /\ (fate[u] = "passed"
                               \/ (x \in Named(cmd.to) /\ u \in cmd.uris))
        BY <2>2 DEF FeedInv, OutInv, s
      <3>2. CASE fate[u] = "passed"
        BY <3>2
      <3>3. CASE x \in Named(cmd.to) /\ u \in cmd.uris
        <4>1. Len(cmd.to) # 1 /\ x \in Named(Tail(cmd.to))
          BY <1>2, <2>2, <3>3
        <4>2. cmd'.do = cmd.do /\ cmd'.to = Tail(cmd.to) /\ cmd'.uris = cmd.uris
          BY <1>1, <4>1 DEF Request
        <4> QED BY <3>3, <4>1, <4>2 DEF Clears
      <3> QED BY <3>1, <3>2, <3>3
    <2> QED BY <2>1, <2>2
  <1>9. OutInv'
    BY <1>3, <1>7, <1>8 DEF FeedInv, OutInv, Named
  <1> QED BY <1>5, <1>6, <1>9 DEF FeedInv

LEMMA ClearNextKeeps == ASSUME FeedInv, ClearNext PROVE FeedInv'
  <1>1. /\ cmd.do = "clear" /\ UNCHANGED <<db, fate, val, cyc, paused, used>>
        /\ out' = [out EXCEPT ![Head(cmd.to)] = {}]
        /\ cmd' = IF Len(cmd.to) = 1 THEN NoCommand ELSE [cmd EXCEPT !.to = Tail(@)]
    BY DEF ClearNext
  <1>2. /\ Clears /\ cmd \in Request /\ cmd.read \in SUBSET Uri
        /\ \A u \in cmd.read : fate[u] = "passed"
    BY <1>1 DEF FeedInv, CmdInv, Clears, Request
  <1>3. Plan(cmd.to) /\ cmd.to # <<>>
    BY <1>2 DEF FeedInv, CmdInv
  <1>4. Head(cmd.to) \in DOMAIN out \cup {"read"} /\ "read" \notin DOMAIN out
    BY <1>3, Rest, SinksAreSinks DEF FeedInv
  <1>5. out' = IF Head(cmd.to) = "read" THEN out
               ELSE [out EXCEPT ![Head(cmd.to)] = {}]
    <2>1. CASE Head(cmd.to) = "read"
      <3>1. out' = out
        BY <1>1, <1>4, <2>1 DEF FeedInv, OutInv
      <3> QED BY <2>1, <3>1
    <2>2. CASE Head(cmd.to) # "read"
      BY <1>1, <2>2
    <2> QED BY <2>1, <2>2
  <1>6. cmd' = IF Len(cmd.to) = 1 THEN NoCommand
               ELSE [cmd EXCEPT !.to = Tail(@), !.read = cmd.read]
    BY <1>1, <1>2 DEF Request
  <1>7. {} \in SUBSET Uri /\ \A u \in {} : fate[u] = "passed"
    OBVIOUS
  <1> QED BY <1>1, <1>2, <1>5, <1>6, <1>7, StepKeeps

LEMMA RemoveNextKeeps == ASSUME FeedInv, RemoveNext PROVE FeedInv'
  <1> DEFINE s == Head(cmd.to)
             X == IF s \in {"gold", "good"} THEN out[s] \ cmd.uris ELSE cmd.read
             R == IF s = "read" THEN out[cmd.to[2]] \ cmd.uris ELSE cmd.read
  <1>1. /\ cmd.do = "remove" /\ UNCHANGED <<db, fate, val, cyc, paused, used>>
        /\ out' = IF s = "read" THEN out
                  ELSE [out EXCEPT ![s] = IF s \in {"gold", "good"}
                                          THEN @ \ cmd.uris ELSE cmd.read]
        /\ cmd' = IF Len(cmd.to) = 1 THEN NoCommand
                  ELSE [cmd EXCEPT !.to = Tail(@),
                                   !.read = IF s = "read"
                                            THEN out[cmd.to[2]] \ cmd.uris ELSE @]
    BY DEF RemoveNext
  <1>2. /\ Clears /\ cmd \in Request /\ cmd.read \in SUBSET Uri
        /\ \A u \in cmd.read : fate[u] = "passed"
    BY <1>1 DEF FeedInv, CmdInv, Clears, Request
  <1>3. Plan(cmd.to) /\ cmd.to # <<>>
    BY <1>2 DEF FeedInv, CmdInv
  <1>4. /\ s \in DOMAIN out \cup {"read"} /\ "read" \notin DOMAIN out
        /\ s = "read" => cmd.to[2] \in DOMAIN out
    BY <1>3, Rest, SinksAreSinks DEF FeedInv
  <1>5. \A x \in DOMAIN out : /\ out[x] \ cmd.uris \in SUBSET Uri
                              /\ \A u \in out[x] \ cmd.uris : fate[u] = "passed"
    BY DEF FeedInv, OutInv
  <1>6. \/ s = "read"
        \/ X \in SUBSET Uri /\ \A u \in X : fate[u] = "passed"
    BY <1>2, <1>4, <1>5
  <1>7. R \in SUBSET Uri /\ \A u \in R : fate[u] = "passed"
    BY <1>2, <1>4, <1>5
  <1>8. cmd' = IF Len(cmd.to) = 1 THEN NoCommand
               ELSE [cmd EXCEPT !.to = Tail(@), !.read = R]
    BY <1>1
  <1>9. s # "read" => out' = [out EXCEPT ![s] = X]
    BY <1>1
  <1>10. s = "read" => out' = out
    BY <1>1
  <1> HIDE DEF X, R
  <1>11. CASE s = "read"
    <2>1. out' = IF Head(cmd.to) = "read" THEN out
                 ELSE [out EXCEPT ![Head(cmd.to)] = {}]
      BY <1>10, <1>11
    <2>2. {} \in SUBSET Uri /\ \A u \in {} : fate[u] = "passed"
      OBVIOUS
    <2> QED BY <1>1, <1>2, <1>7, <1>8, <2>1, <2>2, StepKeeps
  <1>12. CASE s # "read"
    <2>1. out' = IF Head(cmd.to) = "read" THEN out
                 ELSE [out EXCEPT ![Head(cmd.to)] = X]
      BY <1>9, <1>12
    <2>2. X \in SUBSET Uri /\ \A u \in X : fate[u] = "passed"
      BY <1>6, <1>12
    <2> QED BY <1>1, <1>2, <1>7, <1>8, <2>1, <2>2, StepKeeps
  <1> QED BY <1>11, <1>12

(* Commands that remove nothing.                                           *)
LEMMA NoRemoval ==
    ASSUME FeedInv, Raised, out' = out, ~Clears, ~Clears',
           cmd' \in Request, \A u \in cmd'.read : fate'[u] = "passed"
    PROVE  CmdInv' /\ OutInv'
  <1>1. CmdInv'
    BY DEF CmdInv
  <1>2. \A s \in DOMAIN out : \A u \in out[s] : u \in Uri /\ fate'[u] = "passed"
    BY DEF FeedInv, OutInv, Raised
  <1> QED BY <1>1, <1>2 DEF FeedInv, OutInv

LEMMA AddManualKeeps ==
    ASSUME FeedInv, NEW uris \in SUBSET Uri, AddManual(uris) PROVE FeedInv'
  <1>1. /\ Add(uris, TRUE) /\ used' = [used EXCEPT !.commands = @ + 1]
        /\ UNCHANGED <<out, fate, val, cyc, cmd, paused>>
    BY DEF AddManual, Command
  <1>2. Raised
    BY <1>1, SameFate DEF FeedInv
  <1>3. DbInv'
    <2>1. TRUE \in BOOLEAN
      OBVIOUS
    <2> QED BY <1>1, <1>2, <2>1, AddKeeps DEF FeedInv
  <1>4. RestInv'
    BY <1>1 DEF FeedInv, RestInv
  <1> QED BY <1>1, <1>2, <1>3, <1>4, Untouched DEF FeedInv

LEMMA RecheckLiveKeeps == ASSUME FeedInv, RecheckLive PROVE FeedInv'
  <1>1. /\ cmd.do = "none" /\ paused' = TRUE
        /\ used' = [used EXCEPT !.commands = @ + 1]
        /\ cmd' = IF Healthy = {} THEN NoCommand
                  ELSE [NoCommand EXCEPT !.do = "recheck", !.uris = Healthy]
        /\ UNCHANGED <<db, out, fate, val, cyc>>
    BY DEF RecheckLive, Command
  <1>2. Raised
    BY <1>1, SameFate DEF FeedInv
  <1>3. Healthy \in SUBSET Uri
    BY HealthyPassed DEF FeedInv
  <1>4. cmd' \in Request /\ cmd'.do \in {"none", "recheck"} /\ cmd'.read = {}
    BY <1>1, <1>3, NoCommandIs DEF Request
  <1>5. CmdInv' /\ OutInv'
    BY <1>1, <1>2, <1>4, NoRemoval DEF Clears
  <1>6. RestInv'
    BY <1>1 DEF FeedInv, RestInv
  <1> QED BY <1>1, <1>2, <1>5, <1>6, Untouched DEF FeedInv

LEMMA RecheckOneKeeps ==
    ASSUME FeedInv, NEW u \in Uri, RecheckOne(u) PROVE FeedInv'
  <1>1. PICK v \in {"ok", "fail"} : StoreVerdict(u, v, TRUE) /\ Passes(u, v)
    BY DEF RecheckOne
  <1>2. /\ cmd.do = "recheck" /\ UNCHANGED <<out, val, cyc, paused, used>>
        /\ cmd' = IF cmd.uris = {u} THEN NoCommand ELSE [cmd EXCEPT !.uris = @ \ {u}]
    BY DEF RecheckOne
  <1>3. Raised /\ (v = "ok" => AllPassed(KeyOf[u])')
    BY <1>1, PassesRaises DEF FeedInv
  <1>4. DbInv'
    <2>1. TRUE \in BOOLEAN /\ v \in Verdict
      BY DEF Verdict
    <2> QED BY <1>1, <1>3, <2>1, StoreKeeps DEF FeedInv
  <1>5. /\ cmd' \in Request /\ cmd'.do \in {"none", "recheck"}
        /\ cmd'.read = {} \/ cmd'.read = cmd.read
    BY <1>2, NoCommandIs DEF FeedInv, CmdInv, Request
  <1>6. \A w \in cmd.read : fate'[w] = "passed"
    BY <1>3 DEF FeedInv, CmdInv, Request, Raised
  <1>7. CmdInv' /\ OutInv'
    BY <1>2, <1>3, <1>5, <1>6, NoRemoval DEF Clears
  <1> QED BY <1>2, <1>3, <1>4, <1>7, Untouched DEF FeedInv

LEMMA ResumeKeeps == ASSUME FeedInv, Resume PROVE FeedInv'
  <1>1. paused' = FALSE /\ UNCHANGED <<db, out, fate, val, cyc, cmd, used>>
    BY DEF Resume
  <1>2. Raised
    BY <1>1, SameFate DEF FeedInv
  <1>3. RestInv'
    BY <1>1 DEF FeedInv, RestInv
  <1> QED BY <1>1, <1>2, <1>3, Untouched DEF FeedInv

(* The invariant of Feed is inductive.                                     *)
LEMMA FeedStarts == Init => FeedInv
  <1> SUFFICES ASSUME Init PROVE FeedInv
    OBVIOUS
  <1>1. DbInv /\ FateInv
    BY DEF Init, DbInv, FateInv
  <1>2. ValInv /\ CycInv
    BY RestingIs, NoCycleIs DEF Init, ValInv, CycInv, Listed, Owing
  <1>3. CmdInv /\ ~Clears
    BY NoCommandIs DEF Init, CmdInv, Clears
  <1>4. OutInv
    BY DEF Init, OutInv
  <1>5. RestInv
    BY DEF Init, RestInv
  <1> QED BY <1>1, <1>2, <1>3, <1>4, <1>5 DEF FeedInv

LEMMA FeedSteps == FeedInv /\ [Next]_vars => FeedInv'
  <1> SUFFICES ASSUME FeedInv, [Next]_vars PROVE FeedInv'
    OBVIOUS
  <1>1. ASSUME NEW k \in Key, Age(k) PROVE FeedInv'
    <2>1. Raised /\ UNCHANGED <<out, fate, val, cyc, cmd, paused, used>>
      BY <1>1, SameFate DEF Age, FeedInv
    <2> QED BY <1>1, <2>1, AgeKeeps, Untouched DEF FeedInv
  <1>2. CASE Validator
    BY <1>2, TakeBatchKeeps, StoreResultKeeps, LoseResultKeeps, ReadRecordsKeeps,
       ValidatorHandsKeeps DEF Validator
  <1>3. CASE BeginCycle \/ CycleStep \/ AbortCycle
    BY <1>3, BeginCycleKeeps, SelectKeeps, TestNextKeeps, StoreOwedKeeps, MoveKeeps,
       RankKeeps, CycleHandsKeeps DEF CycleStep
  <1>4. CASE User
    BY <1>4, AddManualKeeps, RemoveConfigsKeeps, ClearAliveKeeps, RecheckLiveKeeps,
       ResumeKeeps, ClearNextKeeps, RemoveNextKeeps, RecheckOneKeeps DEF User, CommandStep
  <1>5. CASE UNCHANGED vars
    <2>1. Raised /\ UNCHANGED <<db, out, val, cyc, cmd, paused, used>>
      BY <1>5, SameFate DEF vars, FeedInv
    <2> QED BY <2>1, Untouched DEF FeedInv
  <1> QED BY <1>1, <1>2, <1>3, <1>4, <1>5 DEF Next

(* Of whatever a client is given, a URI of the same endpoint has passed a  *)
(* test since it was last removed, or a thread had a result or a list of   *)
(* that endpoint before, and a removal leaves nothing of what was asked    *)
(* for behind (ValidatorWorker::execute, runCycle, removeConfigs,          *)
(* clearAliveConfigs).                                                     *)
THEOREM ClientsGetTested == Spec => []HandedOut
  <1>1. FeedInv => HandedOut
    <2> SUFFICES ASSUME FeedInv PROVE HandedOut
      OBVIOUS
    <2>1. TypeOK
      BY DEF FeedInv, DbInv, OutInv, FateInv, ValInv, CycInv, CmdInv, RestInv, TypeOK
    <2>2. \A s \in DOMAIN out : \A u \in out[s] :
             fate[u] # "never" \/ (cmd.do \in {"clear", "remove"} /\ u \in cmd.uris)
      BY DEF FeedInv, OutInv, Clears
    <2> QED BY <2>1, <2>2 DEF HandedOut
  <1> QED BY FeedStarts, FeedSteps, <1>1, PTL DEF Spec

(* Only a step of a removal can leave a sink empty.                        *)
LEMMA OnlyRemovalEmpties ==
    FeedInv /\ [Next]_vars =>
        [\A s \in DOMAIN out : out[s] # {} /\ out'[s] = {} => cmd' # cmd]_vars
  <1> SUFFICES ASSUME FeedInv, Next, NEW s \in DOMAIN out, out[s] # {}, out'[s] = {}
               PROVE  cmd' # cmd
    OBVIOUS
  <1>1. out' # out
    OBVIOUS
  <1>2. \/ ValidatorHands \/ CycleHands \/ ClearNext \/ RemoveNext
    BY <1>1 DEF Next, Validator, CycleStep, User, CommandStep, Age, TakeBatch,
       StoreResult, LoseResult, ReadRecords, BeginCycle, Select, TestNext,
       StoreOwed, CutShort, NextLine, Rank, AbortCycle, AddManual, RemoveConfigs,
       ClearAlive, RecheckLive, Resume, RecheckOne
  <1>3. CASE ValidatorHands \/ CycleHands
    BY <1>3, ValidatorHandsKeeps, CycleHandsKeeps DEF Serves
  <1>4. CASE ClearNext \/ RemoveNext
    <2>1. Clears /\ cmd \in Request
      BY <1>4 DEF ClearNext, RemoveNext, Clears, FeedInv, CmdInv
    <2>2. Plan(cmd.to) /\ cmd.to # <<>>
      BY <2>1 DEF FeedInv, CmdInv
    <2>3. Len(cmd.to) # 1 => Tail(cmd.to) # cmd.to
      BY <2>2, Rest
    <2>4. CASE Len(cmd.to) = 1
      <3>1. cmd' = NoCommand
        BY <1>4, <2>4 DEF ClearNext, RemoveNext
      <3> QED BY <2>1, <3>1, NoCommandIs DEF Clears
    <2>5. CASE Len(cmd.to) # 1
      <3>1. cmd'.to = Tail(cmd.to)
        BY <1>4, <2>1, <2>5 DEF ClearNext, RemoveNext, Request
      <3> QED BY <2>3, <2>5, <3>1
    <2> QED BY <2>4, <2>5
  <1> QED BY <1>2, <1>3, <1>4

(* A batch or a cycle that finds nothing, is cut short or fails never      *)
(* takes from the clients what they have (ValidatorWorker::execute,        *)
(* runCycle).                                                              *)
THEOREM ClientsKeepServing == Spec => KeepsServing
  <1> QED BY FeedStarts, FeedSteps, OnlyRemovalEmpties, PTL DEF Spec, KeepsServing

=============================================================================
