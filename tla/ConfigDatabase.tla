--------------------------- MODULE ConfigDatabase ---------------------------
(***************************************************************************)
(* The configuration health database of the hunter (class ConfigDatabase). *)
(* Records are keyed by endpoint, so several URIs can share one record.    *)
(* Every operation runs under the one database mutex.  All are atomic here *)
(* except addConfigsWithPriority, whose loop over the URIs of the call is  *)
(* kept as one step per URI: the call holds the mutex from AddConfigs to   *)
(* AddReturn, and only the clock moves meanwhile.                          *)
(***************************************************************************)
EXTENDS Naturals, FiniteSets, Functions

CONSTANTS
    Uri,            \* the proxy URIs the program meets
    Key,            \* the endpoint keys (hashes) of the database
    KeyOf,          \* the key of each URI
    Latency,        \* the positive health metrics a usable test reports
    MaxSize,        \* capacity of the database
    DeadFails,      \* failures in a row that make a record dead      (3)
    EvictFails,     \* failures in a row that make it evictable       (5)
    HeavyFails,     \* failures in a row that mean the longest backoff (10)
    EvictTests,     \* tests after which a dead record is evictable   (4)
    BoostWindow,    \* lifetime of an import's priority boost
    StaleAfter,     \* age at which a live record is tested again
    ShortBackoff, MidBackoff, LongBackoff,  \* retest delays of dead records
    OfflineLimit,   \* time offline after which a dead record is evicted
    ClearAge,       \* the ages passed to clearOlderThan
    MaxNow,         \* bound: the clock stops here
    MaxTests,       \* bound: results stored per record
    MaxSaves        \* bound: completed saves

ASSUME ConfigDatabaseAssumption ==
    /\ KeyOf \in [Uri -> Key]
    /\ Latency \subseteq Nat \ {0}
    /\ MaxSize \in Nat \ {0}
    /\ {DeadFails, EvictFails, HeavyFails, EvictTests} \subseteq Nat \ {0}
    /\ DeadFails <= EvictFails
    /\ EvictFails <= HeavyFails
    /\ {BoostWindow, StaleAfter, ShortBackoff, MidBackoff, LongBackoff,
        OfflineLimit} \subseteq Nat
    /\ StaleAfter <= LongBackoff
    /\ ShortBackoff <= MidBackoff
    /\ MidBackoff <= LongBackoff
    /\ ClearAge \subseteq Nat
    /\ {MaxNow, MaxTests, MaxSaves} \subseteq Nat

VARIABLES
    db,     \* the records, a function whose domain is the set of stored keys
    disk,   \* what the last completed save left in the database file
    saves,  \* completed saves (bounded by MaxSaves)
    call,   \* the addConfigsWithPriority call that holds the mutex, or Idle
    now     \* the clock; 0 is the "never" of the timestamps

vars == <<db, disk, saves, call, now>>

-----------------------------------------------------------------------------
(* Records                                                                 *)

ConfigHealthRecord ==
    [uri: Uri, firstSeen: Nat, lastTested: Nat, lastAlive: Nat,
     alive: BOOLEAN, telegramOnly: BOOLEAN, latency: {0} \cup Latency,
     fails: Nat, tests: Nat, needsRetest: BOOLEAN, boostUntil: Nat]

NoRecords == [k \in {} |-> 0]
IsDatabase(d) ==
    DOMAIN d \subseteq Key /\ d \in [DOMAIN d -> ConfigHealthRecord]

(* The calls in progress.  `left' are the URIs the loop has not reached,   *)
(* `at' the time read when the call started, `queued' the existing records *)
(* the call has promoted so far.                                           *)
Call == [left: SUBSET Uri, high: BOOLEAN, at: Nat, queued: SUBSET Uri]
Idle == [left |-> {}, high |-> FALSE, at |-> 0, queued |-> {}]

(* The mutex is free: the clock is positive, so no call has at = 0.        *)
Free == call.at = 0

NewRecord(u, high, at) ==
    [uri |-> u, firstSeen |-> at, lastTested |-> 0, lastAlive |-> 0,
     alive |-> FALSE, telegramOnly |-> FALSE, latency |-> 0,
     fails |-> 0, tests |-> 0, needsRetest |-> TRUE,
     boostUntil |-> IF high THEN at + BoostWindow ELSE 0]

-----------------------------------------------------------------------------
(* What the readers select                                                 *)

Backoff(rec) ==
    IF rec.fails >= HeavyFails THEN LongBackoff
    ELSE IF rec.fails >= EvictFails THEN MidBackoff
    ELSE ShortBackoff

(* getUntestedBatch: the conditions under which a record is a candidate.   *)
NeverTested(rec) == rec.tests = 0
Flagged(rec)     == rec.needsRetest
StaleAlive(rec, t) == rec.alive /\ t > rec.lastTested + StaleAfter
(* wrong variant: one failure is not enough for a retry *)
RetryDueAfterTwo(rec, t) ==
    ~rec.alive /\ rec.fails > 1 /\ t > rec.lastTested + Backoff(rec)

RetryDue(rec, t) ==
    ~rec.alive /\ rec.fails > 0 /\ t > rec.lastTested + Backoff(rec)

IsCandidate(rec, t) ==
    NeverTested(rec) \/ Flagged(rec) \/ StaleAlive(rec, t) \/ RetryDue(rec, t)

(* getHealthyConfigs and getHealthyRecords.                                *)
IsHealthy(rec) == rec.alive /\ ~rec.telegramOnly /\ rec.latency > 0
(* getTelegramOnlyRecords.                                                 *)
IsTelegramOnly(rec) == rec.alive /\ rec.telegramOnly
(* ValidatorWorker::execute builds the balancer's list with this test.     *)
IsServed(rec) == rec.alive /\ rec.latency > 0

-----------------------------------------------------------------------------
(* Eviction (evictStale)                                                   *)

Offline(rec, t) ==
    /\ ~rec.alive
    /\ rec.tests > 0
    /\ rec.lastAlive > 0
    /\ t > rec.lastAlive + OfflineLimit

NeverWorked(rec) ==
    /\ ~rec.alive
    /\ rec.tests >= EvictFails
    /\ rec.lastAlive = 0
    /\ rec.fails >= EvictFails

(* Phase 1 removes these whatever the size of the database.                *)
Expired(d, t) == {k \in DOMAIN d : Offline(d[k], t) \/ NeverWorked(d[k])}

(* wrong variant: the second test does not look at `alive' either *)
EvictableAlive(d) ==
    {k \in DOMAIN d : d[k].fails >= EvictFails \/ d[k].tests >= EvictTests}

(* Phase 2 chooses among these.  Its first test does not look at `alive'.  *)
Evictable(d) ==
    {k \in DOMAIN d : \/ d[k].fails >= EvictFails
                      \/ ~d[k].alive /\ d[k].tests >= EvictTests}

(* A quarter of the candidates, at least one, oldest first.                *)
OldestQuarter(d) ==
    LET C == Evictable(d)
        n == IF Cardinality(C) \div 4 = 0 THEN 1 ELSE Cardinality(C) \div 4
    IN  {S \in SUBSET C :
           /\ Cardinality(S) = n \/ S = C
           /\ Cardinality(S) <= n
           /\ \A k \in S, j \in C \ S : d[k].firstSeen <= d[j].firstSeen}

(* The databases evictStale can leave (std::sort may order ties freely).   *)
EvictStale(d, t) ==
    LET kept == Restrict(d, DOMAIN d \ Expired(d, t))
    IN  IF Cardinality(DOMAIN kept) < MaxSize
        THEN {kept}
        ELSE {Restrict(kept, DOMAIN kept \ S) : S \in OldestQuarter(kept)}

-----------------------------------------------------------------------------
Init ==
    /\ db = NoRecords
    /\ disk = NoRecords
    /\ saves = 0
    /\ call = Idle
    /\ now = 1

Tick ==
    /\ now < MaxNow
    /\ now' = now + 1
    /\ UNCHANGED <<db, disk, saves, call>>

(* addConfigsWithPriority: lock, read the clock, start the loop.  `high'   *)
(* is the test of the tag: manual, import or user_import.                  *)
AddConfigs(uris, high) ==
    /\ Free
    /\ call' = [left |-> uris, high |-> high, at |-> now, queued |-> {}]
    /\ UNCHANGED <<db, disk, saves, now>>

(* The loop meets a URI whose key is stored: promote it or skip it.        *)
AddExisting(u) ==
    LET k == KeyOf[u]
        until == call.at + BoostWindow
    IN  /\ u \in call.left
        /\ k \in DOMAIN db
        /\ db' = IF call.high
                 THEN [db EXCEPT ![k].needsRetest = TRUE,
                                 ![k].boostUntil =
                                    IF @ < until THEN until ELSE @]
                 ELSE db
        /\ call' = [call EXCEPT !.left = @ \ {u},
                                !.queued = IF call.high THEN @ \cup {u} ELSE @]
        /\ UNCHANGED <<disk, saves, now>>

Inserted(d, u) ==
    [k \in DOMAIN d \cup {KeyOf[u]} |->
        IF k = KeyOf[u] THEN NewRecord(u, call.high, call.at) ELSE d[k]]

(* wrong variant: inserts whatever eviction has freed *)
AddNewAnyway(u) ==
    /\ u \in call.left
    /\ KeyOf[u] \notin DOMAIN db
    /\ \E d \in IF Cardinality(DOMAIN db) >= MaxSize
                THEN EvictStale(db, now) ELSE {db} : db' = Inserted(d, u)
    /\ call' = [call EXCEPT !.left = @ \ {u}]
    /\ UNCHANGED <<disk, saves, now>>

(* The loop meets a new URI: evict if full, then insert, or give up on     *)
(* this and every remaining URI of the call (the break).                   *)
AddNew(u) ==
    /\ u \in call.left
    /\ KeyOf[u] \notin DOMAIN db
    /\ \E d \in IF Cardinality(DOMAIN db) >= MaxSize
                THEN EvictStale(db, now) ELSE {db} :
         IF Cardinality(DOMAIN d) >= MaxSize
         THEN /\ db' = d
              /\ call' = [call EXCEPT !.left = {}]
         ELSE /\ db' = Inserted(d, u)
              /\ call' = [call EXCEPT !.left = @ \ {u}]
    /\ UNCHANGED <<disk, saves, now>>

(* The loop is over: release the mutex.                                    *)
AddReturn ==
    /\ ~Free
    /\ call.left = {}
    /\ call' = Idle
    /\ UNCHANGED <<db, disk, saves, now>>

-----------------------------------------------------------------------------
(* updateHealth                                                            *)

(* wrong variant: the boost outlives the test                              *)
TestedKeepsBoost(rec) ==
    [rec EXCEPT !.lastTested = now, !.tests = @ + 1, !.needsRetest = FALSE]

Tested(rec) ==
    [rec EXCEPT !.lastTested = now, !.tests = @ + 1,
                !.needsRetest = FALSE, !.boostUntil = 0]

Passed(rec, telegram, lat) ==
    [Tested(rec) EXCEPT !.alive = TRUE, !.telegramOnly = telegram,
                        !.latency = lat, !.fails = 0, !.lastAlive = now]

Failed(rec, forceDead) ==
    LET f == IF forceDead THEN DeadFails ELSE rec.fails + 1
    IN  IF f >= DeadFails
        THEN [Tested(rec) EXCEPT !.fails = f, !.alive = FALSE,
                                 !.telegramOnly = FALSE, !.latency = 0]
        ELSE [Tested(rec) EXCEPT !.fails = f]

(* What a test of a record can make of it: usable with a metric, Telegram  *)
(* only (the callers pass the metric 0), failed, or forced dead.           *)
Results(rec) ==
    {Passed(rec, FALSE, lat) : lat \in Latency}
        \cup {Passed(rec, TRUE, 0), Failed(rec, FALSE), Failed(rec, TRUE)}

(* A result for a URI with no record is dropped (the early return).        *)
UpdateHealth(u) ==
    /\ Free
    /\ KeyOf[u] \in DOMAIN db
    /\ db[KeyOf[u]].tests < MaxTests
    /\ \E r \in Results(db[KeyOf[u]]) : db' = [db EXCEPT ![KeyOf[u]] = r]
    /\ UNCHANGED <<disk, saves, call, now>>

-----------------------------------------------------------------------------
(* The removals                                                            *)

TooOld(rec, age) ==
    \/ rec.lastAlive > 0 /\ now > rec.lastAlive + age
    \/ rec.lastAlive = 0 /\ rec.firstSeen > 0 /\ now > rec.firstSeen + age

Remove(keys) == db' = Restrict(db, DOMAIN db \ keys)

ClearOlderThan(age) ==
    /\ Free
    /\ Remove({k \in DOMAIN db : TooOld(db[k], age)})
    /\ UNCHANGED <<disk, saves, call, now>>

ClearAlive ==
    /\ Free
    /\ Remove({k \in DOMAIN db : db[k].alive})
    /\ UNCHANGED <<disk, saves, call, now>>

RemoveUris(uris) ==
    /\ Free
    /\ Remove({KeyOf[u] : u \in uris})
    /\ UNCHANGED <<disk, saves, call, now>>

-----------------------------------------------------------------------------
(* The database file.  saveToDisk truncates the file and writes it row by  *)
(* row with the mutex held, so a completed save is one step, and a process *)
(* that dies in a save leaves the rows written so far.                     *)

SaveToDisk ==
    /\ Free
    /\ saves < MaxSaves
    /\ disk' = db
    /\ saves' = saves + 1
    /\ UNCHANGED <<db, call, now>>

(* wrong variant: a column is not read back *)
LoadedWithoutFails(rows) ==
    [k \in DOMAIN rows |-> [rows[k] EXCEPT !.needsRetest = TRUE,
                                           !.boostUntil = 0, !.fails = 0]]

(* loadFromDisk into the empty database of a new process: the flags that   *)
(* are not saved are set, the rest comes back.                             *)
Loaded(rows) ==
    [k \in DOMAIN rows |-> [rows[k] EXCEPT !.needsRetest = TRUE,
                                           !.boostUntil = 0]]

(* The process ends anywhere, in the middle of a call too, and starts.     *)
Restart ==
    /\ db' = Loaded(disk)
    /\ call' = Idle
    /\ UNCHANGED <<disk, saves, now>>

(* The process dies inside saveToDisk, with the rows of `written' in the   *)
(* file, and starts again.                                                 *)
CrashInSave(written) ==
    /\ Free
    /\ saves < MaxSaves
    /\ written \subseteq DOMAIN db
    /\ disk' = Restrict(db, written)
    /\ db' = Loaded(disk')
    /\ saves' = saves + 1
    /\ UNCHANGED <<call, now>>

-----------------------------------------------------------------------------
AddStep == \E u \in Uri : AddExisting(u) \/ AddNew(u)

Next ==
    \/ Tick
    \/ \E uris \in SUBSET Uri, high \in BOOLEAN : AddConfigs(uris, high)
    \/ AddStep
    \/ AddReturn
    \/ \E u \in Uri : UpdateHealth(u)
    \/ \E age \in ClearAge : ClearOlderThan(age)
    \/ ClearAlive
    \/ \E uris \in SUBSET Uri : RemoveUris(uris)
    \/ SaveToDisk
    \/ Restart
    \/ \E written \in SUBSET Key : CrashInSave(written)

Spec == Init /\ [][Next]_vars

-----------------------------------------------------------------------------
(* Type correctness: the in-memory map, its file and the running call hold *)
(* well-formed records (ConfigHealthRecord in models.h).                   *)
TypeOK ==
    /\ IsDatabase(db)
    /\ IsDatabase(disk)
    /\ saves \in Nat
    /\ call \in Call
    /\ now \in Nat \ {0}

(* What updateHealth keeps true of a record through any sequence of tests, *)
(* saves and loads: the part every reader relies on without checking it.   *)
Coherent(rec, t) ==
    /\ rec.alive => rec.fails < DeadFails /\ rec.tests > 0
    /\ rec.telegramOnly => rec.alive
    /\ rec.latency > 0 <=> rec.alive /\ ~rec.telegramOnly
    /\ rec.tests > 0 /\ ~rec.alive => rec.fails > 0
    /\ rec.fails > 0 => rec.tests > 0
    /\ rec.boostUntil > 0 => rec.needsRetest
    /\ rec.lastTested <= t

(* The inductive invariant.                                                *)
HealthInv ==
    /\ \A k \in DOMAIN db : Coherent(db[k], now) /\ KeyOf[db[k].uri] = k
    /\ \A k \in DOMAIN disk : Coherent(disk[k], now) /\ KeyOf[disk[k].uri] = k

(* The database and its file never hold more than MaxSize records, though  *)
(* eviction may free nothing and the loop goes on for several URIs         *)
(* (addConfigsWithPriority, loadFromDisk).                                 *)
SizeBound ==
    /\ Cardinality(DOMAIN db) <= MaxSize
    /\ Cardinality(DOMAIN disk) <= MaxSize

(* ValidatorWorker picks the balancer's list by alive /\ latency > 0 and   *)
(* never reads telegram_only: that list must still be exactly what         *)
(* getHealthyConfigs gives, without any Telegram-only config.              *)
ServedAreHealthy == \A k \in DOMAIN db : IsServed(db[k]) <=> IsHealthy(db[k])

(* No record is lost to the scheduler: once the longest backoff has passed *)
(* getUntestedBatch offers it again, whatever happened to it before.       *)
NeverForgotten ==
    \A k \in DOMAIN db : IsCandidate(db[k], now + LongBackoff + 1)

(* A record with a live priority boost is in the queue the boost is for:   *)
(* the flag and the boost are set and cleared by different operations      *)
(* (addConfigsWithPriority, updateHealth, loadFromDisk).                   *)
BoostedAreQueued ==
    \A k \in DOMAIN db : db[k].boostUntil > now => IsCandidate(db[k], now)

(* The states of a record that the rest of the program tells apart.        *)
Status(rec) ==
    IF rec.tests = 0 THEN "new"
    ELSE IF ~rec.alive THEN "dead"
    ELSE IF rec.telegramOnly THEN "telegram" ELSE "live"

Statuses(d) == [k \in DOMAIN d |-> Status(d[k])]

Table == INSTANCE HealthTable
    WITH Capacity <- MaxSize, health <- Statuses(db),
         saved <- Statuses(disk), adding <- ~Free

(* To its users the database is that table: it holds no more than it has   *)
(* room for, a new endpoint replaces dead ones only, a test is the one way *)
(* from one state to another, and saves, torn saves and restarts bring     *)
(* back what was saved as it was (addConfigsWithPriority, updateHealth,    *)
(* saveToDisk, loadFromDisk).                                              *)
ImplementsHealthTable == Table!TableSpec

(* Making room in addConfigsWithPriority never costs a config that works   *)
(* or one that was never given a test, although phase 2 of evictStale      *)
(* tests only the failure count.                                           *)
EvictionSpares ==
    [][AddStep => \A k \in DOMAIN db \ DOMAIN db' :
                     ~db[k].alive /\ db[k].tests > 0 /\ db[k].fails > 0]_vars

=============================================================================
