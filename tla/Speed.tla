------------------------------- MODULE Speed -------------------------------
(***************************************************************************)
(* How fast the program tests: the speed settings of the orchestrator,     *)
(* which the main thread and the window's command worker store field by    *)
(* field without a common lock; the snapshot of the hardware, taken anew   *)
(* when it is older than ten seconds; the size of the task manager's io    *)
(* pool; and what ValidatorWorker and ConfigScannerWorker make of them     *)
(* each time they run.                                                     *)
(***************************************************************************)
EXTENDS Integers

CONSTANTS
    Cpu,         \* processors a machine may have
    Ram,         \* percentages of memory in use
    Asked,       \* numbers that commands carry
    Backlog,     \* tasks waiting in the io pool
    Continuous,  \* HUNTER_CONTINUOUS
    MaxOrders    \* bound: speed commands

ASSUME SpeedAssumption ==
    /\ Cpu \subseteq Nat \ {0} /\ Ram \subseteq 0 .. 100
    /\ Asked \subseteq Int /\ Backlog \subseteq Nat
    /\ Continuous \in BOOLEAN /\ MaxOrders \in Nat

Field == {"threads", "timeout", "chunk"}
Commander == {"main", "window"}
Level == {"low", "medium", "high"}
Reader == {"idle", "sized", "asked"}

VARIABLES
    speed,       \* speed_max_threads_, speed_test_timeout_, speed_chunk_size_
    plan,        \* what each commander is storing
    owed,        \* the fields it has not stored yet
    hw,          \* hw_: processors, memory in use, sizes of the pools
    pool,        \* threads of io_pool_
    batch,       \* what ValidatorWorker asks of the validator
    interval,    \* seconds until the next scan
    started,     \* the main thread has set the profile of the hardware
    orders       \* speed commands so far

speedVars == <<speed, plan, owed, hw, pool, batch, interval, started, orders>>

AtLeast(low, x) == IF x < low THEN low ELSE x
AtMost(high, x) == IF x > high THEN high ELSE x
Clamp(x, low, high) == AtLeast(low, AtMost(high, x))

(* What the orchestrator is built with.                                    *)
Usual == [threads |-> 10, timeout |-> 5, chunk |-> 15]

(* applyAutoProfile: a level means more threads on a larger machine.       *)
Profile(level, n) ==
    IF level = "low"
    THEN [threads |-> Clamp(n, 2, 4), timeout |-> 8, chunk |-> AtLeast(2, n)]
    ELSE IF level = "high"
    THEN [threads |-> AtMost(50, AtLeast(10, 3 * n)), timeout |-> 3,
          chunk |-> AtMost(30, AtLeast(8, 2 * n))]
    ELSE [threads |-> AtMost(30, AtLeast(5, 2 * n)), timeout |-> 5,
          chunk |-> AtMost(15, AtLeast(4, n))]

(* Mutant: the profile is stored as it was computed.                       *)
KeptAsIs(p) == p

(* setSpeedProfile                                                         *)
Kept(p) == [threads |-> Clamp(p.threads, 1, 50), timeout |-> Clamp(p.timeout, 1, 10),
            chunk |-> Clamp(p.chunk, 1, 50)]

LevelFor(n) == IF n <= 2 THEN "low" ELSE IF n <= 4 THEN "medium" ELSE "high"

(* HardwareSnapshot::detect without the environment's overrides.           *)
IoPool(n, r) ==
    LET base == AtLeast(4, n)
    IN  IF r >= 95 THEN AtLeast(10, base \div 2)
        ELSE IF r >= 90 THEN AtLeast(10, base)
        ELSE IF r >= 85 THEN AtLeast(10, base + 2)
        ELSE IF r >= 80 THEN AtMost(48, AtLeast(18, 2 * base))
        ELSE IF r >= 70 THEN AtMost(80, AtLeast(24, 3 * base))
        ELSE IF r >= 60 THEN AtMost(96, AtLeast(32, 4 * base))
        ELSE AtMost(128, AtLeast(40, 5 * base))

Snapshot(n, r) == [cpu |-> n, ram |-> r, io |-> IoPool(n, r)]

(* ConfigScannerWorker: scan less often the less memory there is, and      *)
(* when nothing was found.                                                 *)
ScanInterval(r, validated) ==
    LET base == IF r >= 95 THEN 300 ELSE IF r >= 90 THEN 240 ELSE IF r >= 85 THEN 180
                ELSE IF r >= 80 THEN 120 ELSE IF r >= 70 THEN 90
                ELSE IF r >= 60 THEN 75 ELSE 60
    IN  IF ~Continuous
        THEN IF validated = 0 THEN 600 ELSE IF validated < 5 THEN 900 ELSE 1800
        ELSE IF validated = 0 THEN AtLeast(180, base) ELSE base

(* ValidatorWorker: two chunks at a time, fewer when memory is short.      *)
Spared(size, r) == IF r >= 95 THEN AtMost(8, size)
                   ELSE IF r >= 90 THEN AtMost(12, size)
                   ELSE IF r >= 80 THEN AtMost(20, size) ELSE size
Pressed(b, threads) == b >= AtLeast(4, 2 * threads)
BatchSize(chunk, r, b, threads) ==
    LET size == Spared(Clamp(2 * chunk, 5, 50), r)
    IN  IF Pressed(b, threads) THEN AtLeast(4, AtMost(threads, size)) ELSE size

-----------------------------------------------------------------------------
(* A command is taken when the commander has stored the last one.          *)
Accept(c, p, fields) ==
    /\ owed[c] = {}
    /\ plan' = [plan EXCEPT ![c] = p]
    /\ owed' = [owed EXCEPT ![c] = fields]
    /\ UNCHANGED <<speed, hw, pool, batch, interval>>

Order(c, p, fields) ==
    /\ orders < MaxOrders
    /\ Accept(c, p, fields)
    /\ orders' = orders + 1 /\ UNCHANGED started

SpeedProfile(c, level) == Order(c, Kept(Profile(level, hw.cpu)), Field)

(* set_speed, set_threads and set_timeout refuse what is out of range.     *)
SetSpeed(c, t, o, k) ==
    /\ t \in 1 .. 50 /\ o \in 1 .. 10
    /\ Order(c, [threads |-> t, timeout |-> o,
                 chunk |-> Clamp(IF k < 1 THEN t ELSE k, 1, 50)], Field)

SetThreads(c, t) ==
    /\ t \in 1 .. 50
    /\ Order(c, [Usual EXCEPT !.threads = t, !.chunk = Clamp(t, 1, 50)],
             {"threads", "chunk"})

SetTimeout(c, o) ==
    /\ o \in 1 .. 10
    /\ Order(c, [Usual EXCEPT !.timeout = o], {"timeout"})

(* start() sets the profile of the hardware before its main loop, and on   *)
(* top of what a command has set meanwhile.                                *)
StartupProfile ==
    /\ ~started /\ started' = TRUE
    /\ Accept("main", Kept(Profile(LevelFor(hw.cpu), hw.cpu)), Field)
    /\ UNCHANGED orders

(* Threads before timeout before chunk.                                    *)
StoreField(c, f) ==
    /\ f \in owed[c]
    /\ f # "threads" => "threads" \notin owed[c]
    /\ f = "chunk" => "timeout" \notin owed[c]
    /\ speed' = [speed EXCEPT ![f] = plan[c][f]]
    /\ owed' = [owed EXCEPT ![c] = @ \ {f}]
    /\ plan' = IF owed[c] = {f} THEN [plan EXCEPT ![c] = Usual] ELSE plan
    /\ UNCHANGED <<hw, pool, batch, interval, started, orders>>

(* getHardware with a snapshot too old.                                    *)
GetHardware(r) ==
    /\ hw' = Snapshot(hw.cpu, r)
    /\ UNCHANGED <<speed, plan, owed, pool, batch, interval, started, orders>>

MaybeResize ==
    /\ pool' = hw.io
    /\ UNCHANGED <<speed, plan, owed, hw, batch, interval, started, orders>>

(* ValidatorWorker reads the chunk first, the timeout and the threads      *)
(* after it has made up the size of the batch.                             *)
SizeBatch(b) ==
    /\ batch.at = "idle"
    /\ batch' = [at |-> "sized", size |-> BatchSize(speed["chunk"], hw.ram, b, pool),
                 timeout |-> batch.timeout, pressed |-> Pressed(b, pool),
                 parallel |-> batch.parallel]
    /\ UNCHANGED <<speed, plan, owed, hw, pool, interval, started, orders>>

AskTimeout ==
    /\ batch.at = "sized"
    /\ batch' = [batch EXCEPT !.at = "asked", !.timeout = speed["timeout"]]
    /\ UNCHANGED <<speed, plan, owed, hw, pool, interval, started, orders>>

AskThreads ==
    /\ batch.at = "asked"
    /\ batch' = [batch EXCEPT !.at = "idle",
                 !.parallel = IF batch.pressed THEN AtLeast(2, AtMost(pool, speed["threads"]))
                                               ELSE speed["threads"]]
    /\ UNCHANGED <<speed, plan, owed, hw, pool, interval, started, orders>>

AfterScan(validated) ==
    /\ interval' = ScanInterval(hw.ram, validated)
    /\ UNCHANGED <<speed, plan, owed, hw, pool, batch, started, orders>>

SpeedInit(n, r) ==
    /\ speed = Usual
    /\ plan = [c \in Commander |-> Usual] /\ owed = [c \in Commander |-> {}]
    /\ hw = Snapshot(n, r)
    /\ pool = hw.io
    /\ batch = [at |-> "idle", size |-> 5, timeout |-> 5, pressed |-> FALSE, parallel |-> 10]
    /\ interval = 1800 /\ started = FALSE /\ orders = 0

SpeedNext ==
    \/ \E c \in Commander :
          \/ \E level \in Level : SpeedProfile(c, level)
          \/ \E t, o, k \in Asked : SetSpeed(c, t, o, k)
          \/ \E t \in Asked : SetThreads(c, t)
          \/ \E o \in Asked : SetTimeout(c, o)
          \/ \E f \in Field : StoreField(c, f)
    \/ StartupProfile
    \/ \E r \in Ram : GetHardware(r)
    \/ MaybeResize
    \/ \E b \in Backlog : SizeBatch(b)
    \/ AskTimeout \/ AskThreads
    \/ \E v \in {0, 1, 5} : AfterScan(v)

-----------------------------------------------------------------------------
SpeedTypeOK ==
    /\ speed \in [Field -> Int]
    /\ plan \in [Commander -> [Field -> Int]]
    /\ owed \in [Commander -> SUBSET Field]
    /\ hw \in [cpu : Nat \ {0}, ram : 0 .. 100, io : Nat]
    /\ pool \in Nat
    /\ batch \in [at : Reader, size : Int, timeout : Int, pressed : BOOLEAN, parallel : Int]
    /\ interval \in Nat
    /\ started \in BOOLEAN /\ orders \in 0 .. MaxOrders

(* Whatever the commands carry, however the two threads' stores interleave *)
(* and whatever the hardware is: threads, timeout and chunk stay in the    *)
(* ranges the commands promise, the io pool keeps ten threads or more, a   *)
(* batch has 4 to 50 links, its tests take one to ten seconds, and between *)
(* one and fifty of them run at a time, so that the validator's own limits *)
(* (min of 50, 1 to 30 s, 1 to 50) never come into it.                     *)
SpeedInRange ==
    /\ speed.threads \in 1 .. 50 /\ speed.timeout \in 1 .. 10 /\ speed.chunk \in 1 .. 50
    /\ hw.io >= 10 /\ pool >= 10
    /\ batch.size \in 4 .. 50 /\ batch.timeout \in 1 .. 10 /\ batch.parallel \in 1 .. 50
    /\ interval \in 60 .. 1800

=============================================================================
