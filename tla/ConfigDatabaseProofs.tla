------------------------ MODULE ConfigDatabaseProofs ------------------------
(***************************************************************************)
(* TLAPS proofs about ConfigDatabase, for every set of URIs, every mapping *)
(* of URIs to keys and every value of the thresholds and bounds.           *)
(***************************************************************************)
EXTENDS ConfigDatabase, FiniteSetTheorems, TLAPS

-----------------------------------------------------------------------------
(* A new record is well formed and coherent (ConfigHealthRecord's initial  *)
(* values, addConfigsWithPriority).                                        *)
LEMMA NewRecordType ==
    ASSUME NEW u \in Uri, NEW high \in BOOLEAN, NEW at \in Nat
    PROVE  NewRecord(u, high, at) \in ConfigHealthRecord
BY ConfigDatabaseAssumption DEF NewRecord, ConfigHealthRecord

(* Every result updateHealth can store is well formed.                     *)
LEMMA ResultType ==
    ASSUME NEW rec \in ConfigHealthRecord, now \in Nat \ {0},
           NEW r \in Results(rec)
    PROVE  r \in ConfigHealthRecord
<1>1. Tested(rec) \in ConfigHealthRecord
  <2> DEFINE n == rec.tests + 1
  <2>1. n \in Nat
    BY DEF ConfigHealthRecord
  <2> HIDE DEF n
  <2>2. [rec EXCEPT !.lastTested = now, !.tests = n, !.needsRetest = FALSE,
                    !.boostUntil = 0] \in ConfigHealthRecord
    BY <2>1 DEF ConfigHealthRecord
  <2> QED  BY <2>2, Zenon DEF Tested, n
<1>2. \A telegram \in BOOLEAN, lat \in {0} \cup Latency :
         Passed(rec, telegram, lat) \in ConfigHealthRecord
  BY <1>1 DEF Passed, ConfigHealthRecord
<1>3. \A forceDead \in BOOLEAN : Failed(rec, forceDead) \in ConfigHealthRecord
  <2> SUFFICES ASSUME NEW forceDead \in BOOLEAN
               PROVE  Failed(rec, forceDead) \in ConfigHealthRecord
    OBVIOUS
  <2> DEFINE f == IF forceDead THEN DeadFails ELSE rec.fails + 1
  <2>1. f \in Nat
    BY ConfigDatabaseAssumption DEF ConfigHealthRecord
  <2> HIDE DEF f
  <2>2. /\ [Tested(rec) EXCEPT !.fails = f] \in ConfigHealthRecord
        /\ [Tested(rec) EXCEPT !.fails = f, !.alive = FALSE,
                !.telegramOnly = FALSE, !.latency = 0] \in ConfigHealthRecord
    BY <1>1, <2>1 DEF ConfigHealthRecord
  <2> QED  BY <2>2 DEF Failed, f
<1> QED  BY <1>2, <1>3 DEF Results

(* updateHealth turns a coherent record into a coherent one of the same    *)
(* URI, whatever the result.                                               *)
LEMMA ResultCoherent ==
    ASSUME NEW rec \in ConfigHealthRecord, now \in Nat \ {0},
           Coherent(rec, now), NEW r \in Results(rec)
    PROVE  Coherent(r, now) /\ r.uri = rec.uri
<1>1. \A lat \in Latency : lat > 0 /\ lat \in Nat
  BY ConfigDatabaseAssumption
<1>2. \A lat \in Latency :
         LET p == Passed(rec, FALSE, lat)
         IN  Coherent(p, now) /\ p.uri = rec.uri
  BY <1>1, ConfigDatabaseAssumption
     DEF Passed, Tested, Coherent, ConfigHealthRecord
<1>3. LET p == Passed(rec, TRUE, 0)
      IN  Coherent(p, now) /\ p.uri = rec.uri
  BY ConfigDatabaseAssumption
     DEF Passed, Tested, Coherent, ConfigHealthRecord
<1>4. \A forceDead \in BOOLEAN :
         LET f == Failed(rec, forceDead)
         IN  Coherent(f, now) /\ f.uri = rec.uri
  BY ConfigDatabaseAssumption
     DEF Failed, Tested, Coherent, ConfigHealthRecord
<1> QED  BY <1>2, <1>3, <1>4 DEF Results

(* Removing records keeps the map well formed.                             *)
LEMMA RestrictType ==
    ASSUME NEW d, IsDatabase(d), NEW S \in SUBSET DOMAIN d
    PROVE  /\ IsDatabase(Restrict(d, S))
           /\ DOMAIN Restrict(d, S) = S
           /\ \A k \in S : Restrict(d, S)[k] = d[k]
BY DEF IsDatabase, Restrict

(* evictStale leaves a part of the database, and removes nothing but       *)
(* expired and evictable records.                                          *)
LEMMA EvictStaleRemoves ==
    ASSUME NEW d, IsDatabase(d), NEW t \in Nat, NEW e \in EvictStale(d, t)
    PROVE  \E S \in SUBSET (Expired(d, t) \cup Evictable(d)) :
              e = Restrict(d, DOMAIN d \ S)
<1> DEFINE kept == Restrict(d, DOMAIN d \ Expired(d, t))
<1>1. /\ DOMAIN kept = DOMAIN d \ Expired(d, t)
      /\ \A k \in DOMAIN kept : kept[k] = d[k]
  BY DEF Restrict
<1>2. CASE Cardinality(DOMAIN kept) < MaxSize
  <2>1. e = Restrict(d, DOMAIN d \ Expired(d, t))
    BY <1>2 DEF EvictStale
  <2> QED  BY <2>1
<1>3. CASE ~(Cardinality(DOMAIN kept) < MaxSize)
  <2>1. PICK S \in OldestQuarter(kept) : e = Restrict(kept, DOMAIN kept \ S)
    BY <1>3 DEF EvictStale
  <2>2. S \subseteq Evictable(kept)
    BY DEF OldestQuarter
  <2>3. Evictable(kept) \subseteq Evictable(d)
    BY <1>1 DEF Evictable
  <2>4. e = Restrict(d, DOMAIN d \ (Expired(d, t) \cup S))
    BY <2>1, <1>1 DEF Restrict
  <2> QED  BY <2>2, <2>3, <2>4
<1> QED  BY <1>2, <1>3

-----------------------------------------------------------------------------
(* The inductive invariant: every record, in memory and in the file, is    *)
(* well formed and coherent.                                               *)
IInv == TypeOK /\ HealthInv

LEMMA InitIInv == Init => IInv
BY ConfigDatabaseAssumption
   DEF Init, IInv, TypeOK, HealthInv, IsDatabase, NoRecords, Call, Idle

(* A removal keeps the invariant: what remains was there.                  *)
LEMMA RemoveIInv ==
    ASSUME IInv, NEW S \in SUBSET DOMAIN db, db' = Restrict(db, S),
           call' \in Call, UNCHANGED <<disk, saves, now>>
    PROVE  IInv'
<1>1. /\ IsDatabase(db')
      /\ DOMAIN db' = S
      /\ \A k \in S : db'[k] = db[k]
  BY RestrictType DEF IInv, TypeOK
<1>2. TypeOK'
  BY <1>1 DEF IInv, TypeOK, IsDatabase
<1>3. HealthInv'
  BY <1>1 DEF IInv, HealthInv, Coherent
<1> QED  BY <1>2, <1>3 DEF IInv

(* Eviction alone, the step an add to a full database starts with.         *)
LEMMA EvictIInv ==
    ASSUME IInv, NEW d \in EvictStale(db, now)
    PROVE  /\ IsDatabase(d)
           /\ DOMAIN d \subseteq DOMAIN db
           /\ \A k \in DOMAIN d : d[k] = db[k]
<1>1. IsDatabase(db) /\ now \in Nat
  BY DEF IInv, TypeOK
<1>2. PICK S \in SUBSET (Expired(db, now) \cup Evictable(db)) :
         d = Restrict(db, DOMAIN db \ S)
  BY <1>1, EvictStaleRemoves
<1> QED  BY <1>1, <1>2, RestrictType

(* One turn of the loop of addConfigsWithPriority at a URI that is stored. *)
LEMMA AddExistingIInv ==
    ASSUME IInv, NEW u \in Uri, AddExisting(u)
    PROVE  IInv'
<1> DEFINE k == KeyOf[u]
           until == call.at + BoostWindow
           boost == IF db[k].boostUntil < until THEN until ELSE db[k].boostUntil
           rec == [db[k] EXCEPT !.needsRetest = TRUE, !.boostUntil = boost]
<1>1. /\ IsDatabase(db) /\ k \in DOMAIN db /\ db[k] \in ConfigHealthRecord
      /\ call \in Call
  BY DEF IInv, TypeOK, AddExisting, IsDatabase
<1>2. boost \in Nat
  BY <1>1, ConfigDatabaseAssumption DEF Call, ConfigHealthRecord
<1> HIDE DEF boost
<1>3. rec \in ConfigHealthRecord
  BY <1>1, <1>2 DEF ConfigHealthRecord
<1>4. Coherent(rec, now) /\ KeyOf[rec.uri] = k
  BY <1>1, <1>2, <1>3 DEF IInv, HealthInv, Coherent, ConfigHealthRecord
<1>5. db' = [db EXCEPT ![k] = rec] \/ db' = db
  BY <1>1 DEF AddExisting, boost
<1> HIDE DEF rec
<1>6. TypeOK'
  <2>1. call' \in Call
    BY <1>1 DEF AddExisting, Call
  <2>2. IsDatabase(db')
    BY <1>1, <1>3, <1>5 DEF IsDatabase
  <2> QED  BY <2>1, <2>2 DEF IInv, TypeOK, AddExisting, IsDatabase
<1>7. HealthInv'
  <2>1. \A j \in DOMAIN db' : Coherent(db'[j], now) /\ KeyOf[db'[j].uri] = j
    BY <1>1, <1>4, <1>5 DEF IInv, HealthInv
  <2> QED  BY <2>1 DEF IInv, HealthInv, AddExisting, Coherent
<1> QED  BY <1>6, <1>7 DEF IInv

(* One turn of the loop at a URI that is not stored.                       *)
LEMMA AddNewIInv ==
    ASSUME IInv, NEW u \in Uri, AddNew(u)
    PROVE  IInv'
<1> DEFINE new == NewRecord(u, call.high, call.at)
<1>1. IsDatabase(db) /\ call \in Call /\ KeyOf[u] \in Key /\ now \in Nat
  BY ConfigDatabaseAssumption DEF IInv, TypeOK
<1>2. new \in ConfigHealthRecord
  BY <1>1, NewRecordType DEF Call
<1>3. Coherent(new, now) /\ new.uri = u
  BY <1>1, ConfigDatabaseAssumption DEF NewRecord, Coherent
<1> HIDE DEF new
<1>4. PICK d : /\ IsDatabase(d)
               /\ DOMAIN d \subseteq DOMAIN db
               /\ \A k \in DOMAIN d : d[k] = db[k]
               /\ db' = d \/ db' = Inserted(d, u)
  BY <1>1, EvictIInv DEF AddNew
<1>5. call' \in Call
  BY <1>1 DEF AddNew, Call
<1>6. CASE db' = d
  <2>1. TypeOK'
    BY <1>4, <1>5, <1>6 DEF IInv, TypeOK, AddNew, IsDatabase
  <2>2. HealthInv'
    BY <1>4, <1>6 DEF IInv, HealthInv, AddNew, Coherent
  <2> QED  BY <2>1, <2>2 DEF IInv
<1>7. CASE db' = Inserted(d, u)
  <2>1. /\ DOMAIN db' = DOMAIN d \cup {KeyOf[u]}
        /\ db' = [k \in DOMAIN db' |-> IF k = KeyOf[u] THEN new ELSE d[k]]
    BY <1>7 DEF Inserted, new
  <2>2. IsDatabase(db')
    BY <1>1, <1>2, <1>4, <2>1 DEF IsDatabase
  <2>3. TypeOK'
    BY <2>2, <1>5 DEF IInv, TypeOK, AddNew, IsDatabase
  <2>4. \A k \in DOMAIN db' : Coherent(db'[k], now) /\ KeyOf[db'[k].uri] = k
    BY <1>3, <1>4, <2>1 DEF IInv, HealthInv
  <2>5. HealthInv'
    BY <2>4 DEF IInv, HealthInv, AddNew, Coherent
  <2> QED  BY <2>3, <2>5 DEF IInv
<1> QED  BY <1>4, <1>6, <1>7

(* A test result.                                                          *)
LEMMA UpdateHealthIInv ==
    ASSUME IInv, NEW u \in Uri, UpdateHealth(u)
    PROVE  IInv'
<1> DEFINE k == KeyOf[u]
<1>1. /\ k \in DOMAIN db /\ db[k] \in ConfigHealthRecord
      /\ Coherent(db[k], now) /\ KeyOf[db[k].uri] = k /\ now \in Nat \ {0}
  BY DEF IInv, TypeOK, IsDatabase, HealthInv, UpdateHealth
<1>2. PICK r \in Results(db[k]) : db' = [db EXCEPT ![k] = r]
  BY DEF UpdateHealth
<1>3. r \in ConfigHealthRecord /\ Coherent(r, now) /\ r.uri = db[k].uri
  BY <1>1, ResultType, ResultCoherent
<1>4. TypeOK'
  BY <1>1, <1>2, <1>3 DEF IInv, TypeOK, IsDatabase, UpdateHealth
<1>5. \A j \in DOMAIN db' : Coherent(db'[j], now) /\ KeyOf[db'[j].uri] = j
  BY <1>1, <1>2, <1>3 DEF IInv, HealthInv
<1>6. HealthInv'
  BY <1>5 DEF IInv, HealthInv, UpdateHealth, Coherent
<1> QED  BY <1>4, <1>6 DEF IInv

(* loadFromDisk of a well-formed, coherent file.                           *)
LEMMA LoadedCoherent ==
    ASSUME NEW rows, IsDatabase(rows), NEW t \in Nat,
           \A k \in DOMAIN rows : Coherent(rows[k], t) /\ KeyOf[rows[k].uri] = k
    PROVE  /\ IsDatabase(Loaded(rows))
           /\ DOMAIN Loaded(rows) = DOMAIN rows
           /\ \A k \in DOMAIN rows : /\ Coherent(Loaded(rows)[k], t)
                                     /\ KeyOf[Loaded(rows)[k].uri] = k
<1> DEFINE L(rec) == [rec EXCEPT !.needsRetest = TRUE, !.boostUntil = 0]
<1>1. ASSUME NEW rec \in ConfigHealthRecord, Coherent(rec, t)
      PROVE  /\ L(rec) \in ConfigHealthRecord
             /\ Coherent(L(rec), t)
             /\ L(rec).uri = rec.uri
  <2>1. L(rec) \in ConfigHealthRecord /\ L(rec).uri = rec.uri
    BY DEF ConfigHealthRecord
  <2>2. Coherent(L(rec), t)
    BY <1>1 DEF ConfigHealthRecord, Coherent
  <2> QED  BY <2>1, <2>2
<1>2. \A k \in DOMAIN rows : rows[k] \in ConfigHealthRecord
  BY DEF IsDatabase
<1>3. Loaded(rows) = [k \in DOMAIN rows |-> L(rows[k])]
  BY DEF Loaded
<1> HIDE DEF L
<1> QED  BY <1>1, <1>2, <1>3 DEF IsDatabase

LEMMA NextIInv == IInv /\ [Next]_vars => IInv'
<1> SUFFICES ASSUME IInv, [Next]_vars PROVE IInv'
  OBVIOUS
<1>1. CASE Tick
  <2>1. now' > now /\ now' \in Nat \ {0} /\ now \in Nat
    BY <1>1 DEF IInv, TypeOK, Tick
  <2>2. TypeOK'
    BY <1>1, <2>1 DEF IInv, TypeOK, Tick, IsDatabase
  <2>3. \A k \in DOMAIN db : Coherent(db[k], now')
    BY <2>1 DEF IInv, TypeOK, IsDatabase, HealthInv, Coherent,
                ConfigHealthRecord
  <2>4. \A k \in DOMAIN disk : Coherent(disk[k], now')
    BY <2>1 DEF IInv, TypeOK, IsDatabase, HealthInv, Coherent,
                ConfigHealthRecord
  <2>5. HealthInv'
    BY <1>1, <2>3, <2>4 DEF IInv, HealthInv, Tick
  <2> QED  BY <2>2, <2>5 DEF IInv
<1>2. ASSUME NEW uris \in SUBSET Uri, NEW high \in BOOLEAN,
             AddConfigs(uris, high)
      PROVE  IInv'
  <2>1. call' \in Call
    BY <1>2 DEF AddConfigs, Call, IInv, TypeOK
  <2>2. TypeOK'
    BY <1>2, <2>1 DEF IInv, TypeOK, AddConfigs, IsDatabase
  <2>3. HealthInv'
    BY <1>2 DEF IInv, HealthInv, AddConfigs, Coherent
  <2> QED  BY <2>2, <2>3 DEF IInv
<1>3. CASE AddStep
  BY <1>3, AddExistingIInv, AddNewIInv DEF AddStep
<1>4. CASE AddReturn
  <2>1. TypeOK'
    BY <1>4 DEF IInv, TypeOK, AddReturn, IsDatabase, Call, Idle
  <2>2. HealthInv'
    BY <1>4 DEF IInv, HealthInv, AddReturn, Coherent
  <2> QED  BY <2>1, <2>2 DEF IInv
<1>5. ASSUME NEW u \in Uri, UpdateHealth(u)
      PROVE  IInv'
  BY <1>5, UpdateHealthIInv
<1>6. ASSUME NEW age \in ClearAge, ClearOlderThan(age)
      PROVE  IInv'
  BY <1>6, RemoveIInv DEF ClearOlderThan, Remove, IInv, TypeOK
<1>7. CASE ClearAlive
  BY <1>7, RemoveIInv DEF ClearAlive, Remove, IInv, TypeOK
<1>8. ASSUME NEW uris \in SUBSET Uri, RemoveUris(uris)
      PROVE  IInv'
  BY <1>8, RemoveIInv DEF RemoveUris, Remove, IInv, TypeOK
<1>9. CASE SaveToDisk
  <2>1. TypeOK'
    BY <1>9 DEF IInv, TypeOK, SaveToDisk, IsDatabase
  <2>2. HealthInv'
    BY <1>9 DEF IInv, HealthInv, SaveToDisk, Coherent
  <2> QED  BY <2>1, <2>2 DEF IInv
<1>10. CASE Restart
  <2>1. /\ IsDatabase(disk) /\ now \in Nat /\ Idle \in Call
        /\ \A k \in DOMAIN disk : /\ Coherent(disk[k], now)
                                  /\ KeyOf[disk[k].uri] = k
    BY DEF IInv, TypeOK, HealthInv, Idle, Call
  <2>2. /\ IsDatabase(db')
        /\ \A k \in DOMAIN db' : /\ Coherent(db'[k], now)
                                 /\ KeyOf[db'[k].uri] = k
    BY <1>10, <2>1, LoadedCoherent DEF Restart
  <2>3. TypeOK'
    BY <1>10, <2>1, <2>2 DEF IInv, TypeOK, Restart, IsDatabase
  <2>4. HealthInv'
    BY <1>10, <2>2 DEF IInv, HealthInv, Restart, Coherent
  <2> QED  BY <2>3, <2>4 DEF IInv
<1>11. ASSUME NEW written \in SUBSET Key, CrashInSave(written)
       PROVE  IInv'
  <2>1. /\ IsDatabase(disk') /\ now \in Nat
        /\ \A k \in DOMAIN disk' : /\ Coherent(disk'[k], now)
                                   /\ KeyOf[disk'[k].uri] = k
    BY <1>11, RestrictType DEF IInv, TypeOK, HealthInv, CrashInSave
  <2>2. /\ IsDatabase(db')
        /\ \A k \in DOMAIN db' : /\ Coherent(db'[k], now)
                                 /\ KeyOf[db'[k].uri] = k
    BY <1>11, <2>1, LoadedCoherent DEF CrashInSave
  <2>3. TypeOK'
    BY <1>11, <2>1, <2>2 DEF IInv, TypeOK, CrashInSave, IsDatabase
  <2>4. HealthInv'
    BY <1>11, <2>1, <2>2 DEF HealthInv, CrashInSave, Coherent
  <2> QED  BY <2>3, <2>4 DEF IInv
<1>12. CASE UNCHANGED vars
  <2>1. TypeOK'
    BY <1>12 DEF IInv, TypeOK, vars, IsDatabase
  <2>2. HealthInv'
    BY <1>12 DEF IInv, HealthInv, vars, Coherent
  <2> QED  BY <2>1, <2>2 DEF IInv
<1> QED
  BY <1>1, <1>2, <1>3, <1>4, <1>5, <1>6, <1>7, <1>8, <1>9, <1>10, <1>11,
     <1>12 DEF Next

(* In every reachable state the map, the file and the running call are     *)
(* well formed (ConfigHealthRecord), and every record is coherent: alive   *)
(* means fewer than DeadFails failures in a row, dead and tested means at  *)
(* least one, a metric means a usable config (updateHealth).               *)
THEOREM Invariance == Spec => []IInv
BY InitIInv, NextIInv, PTL DEF Spec

(* The map, its file and the running call stay well formed.                *)
THEOREM TypeCorrect == Spec => []TypeOK
<1>1. IInv => TypeOK
  BY DEF IInv
<1> QED  BY Invariance, <1>1, PTL

(* Records stay coherent through tests, eviction, saves, torn saves and    *)
(* restarts (updateHealth, saveToDisk, loadFromDisk).                      *)
THEOREM HealthCorrect == Spec => []HealthInv
<1>1. IInv => HealthInv
  BY DEF IInv
<1> QED  BY Invariance, <1>1, PTL

(* The balancer's list never holds a Telegram-only config                  *)
(* (ValidatorWorker::execute against getHealthyConfigs).                   *)
THEOREM OnlyHealthyServed == Spec => []ServedAreHealthy
<1>1. IInv => ServedAreHealthy
  BY DEF IInv, HealthInv, Coherent, ServedAreHealthy, IsServed, IsHealthy
<1> QED  BY Invariance, <1>1, PTL

(* No record is ever lost to getUntestedBatch, for every choice of the     *)
(* backoff tiers.                                                          *)
THEOREM NothingForgotten == Spec => []NeverForgotten
<1>1. ASSUME IInv, NEW k \in DOMAIN db
      PROVE  IsCandidate(db[k], now + LongBackoff + 1)
  <2>1. /\ db[k] \in ConfigHealthRecord /\ Coherent(db[k], now)
        /\ now \in Nat
    BY <1>1 DEF IInv, TypeOK, IsDatabase, HealthInv
  <2>2. Backoff(db[k]) <= LongBackoff /\ Backoff(db[k]) \in Nat
    BY ConfigDatabaseAssumption DEF Backoff
  <2> QED
    BY <2>1, <2>2, ConfigDatabaseAssumption
       DEF IsCandidate, NeverTested, Flagged, StaleAlive, RetryDue, Coherent,
           ConfigHealthRecord
<1>2. IInv => NeverForgotten
  BY <1>1 DEF NeverForgotten
<1> QED  BY Invariance, <1>2, PTL

(* A record with a live boost is always in the queue.                      *)
THEOREM BoostReachesQueue == Spec => []BoostedAreQueued
<1>1. IInv => BoostedAreQueued
  BY DEF IInv, TypeOK, IsDatabase, ConfigHealthRecord, HealthInv, Coherent,
         BoostedAreQueued, IsCandidate, Flagged
<1> QED  BY Invariance, <1>1, PTL

-----------------------------------------------------------------------------
(* What eviction takes has been tested, failed and is not alive.           *)
LEMMA EvictedAreDead ==
    ASSUME IInv, NEW d \in EvictStale(db, now), NEW k \in DOMAIN db \ DOMAIN d
    PROVE  ~db[k].alive /\ db[k].tests > 0 /\ db[k].fails > 0
<1>1. IsDatabase(db) /\ now \in Nat /\ db[k] \in ConfigHealthRecord
  BY DEF IInv, TypeOK, IsDatabase
<1>2. PICK S \in SUBSET (Expired(db, now) \cup Evictable(db)) :
         d = Restrict(db, DOMAIN db \ S)
  BY <1>1, EvictStaleRemoves
<1>3. k \in Expired(db, now) \cup Evictable(db)
  BY <1>2 DEF Restrict
<1>4. Coherent(db[k], now)
  BY DEF IInv, HealthInv
<1> QED
  BY <1>1, <1>3, <1>4, ConfigDatabaseAssumption
     DEF Expired, Offline, NeverWorked, Evictable, Coherent,
         ConfigHealthRecord

(* Adding configs, and the evictions it makes, never removes a record that *)
(* is alive or untested (addConfigsWithPriority, evictStale).  It rests on *)
(* DeadFails <= EvictFails and on the coherence of the records.            *)
THEOREM EvictionCorrect == Spec => EvictionSpares
<1> DEFINE P == AddStep => \A k \in DOMAIN db \ DOMAIN db' :
                    ~db[k].alive /\ db[k].tests > 0 /\ db[k].fails > 0
<1>1. ASSUME IInv, NEW u \in Uri, AddNew(u), NEW k \in DOMAIN db \ DOMAIN db'
      PROVE  ~db[k].alive /\ db[k].tests > 0 /\ db[k].fails > 0
  <2>1. PICK d \in EvictStale(db, now) : k \notin DOMAIN d
    BY <1>1 DEF AddNew, Inserted
  <2> QED  BY <1>1, <2>1, EvictedAreDead
<1>2. ASSUME NEW u \in Uri, AddExisting(u)
      PROVE  DOMAIN db' = DOMAIN db
  BY <1>2 DEF AddExisting
<1>3. IInv /\ [Next]_vars => [P]_vars
  BY <1>1, <1>2 DEF AddStep
<1> HIDE DEF P
<1>4. Spec => [][P]_vars
  BY Invariance, <1>3, PTL DEF Spec
<1> QED  BY <1>4 DEF EvictionSpares, P

-----------------------------------------------------------------------------
(* The capacity.                                                           *)
SizeInv ==
    /\ IsFiniteSet(DOMAIN db)
    /\ IsFiniteSet(DOMAIN disk)
    /\ SizeBound

(* A map within another one's keys is no larger.                           *)
LEMMA SmallerFits ==
    ASSUME NEW S, NEW T \in SUBSET S, IsFiniteSet(S), Cardinality(S) <= MaxSize
    PROVE  IsFiniteSet(T) /\ Cardinality(T) <= MaxSize
<1>1. IsFiniteSet(T) /\ Cardinality(T) <= Cardinality(S)
  BY FS_Subset
<1>2. Cardinality(T) \in Nat /\ Cardinality(S) \in Nat
  BY <1>1, FS_CardinalityType
<1> QED  BY <1>1, <1>2, ConfigDatabaseAssumption

LEMMA AddNewFits ==
    ASSUME IInv, SizeInv, NEW u \in Uri, AddNew(u)
    PROVE  SizeInv'
<1>1. PICK d : /\ DOMAIN d \subseteq DOMAIN db
               /\ \/ db' = d
                  \/ /\ ~(Cardinality(DOMAIN d) >= MaxSize)
                     /\ db' = Inserted(d, u)
  BY EvictIInv DEF AddNew
<1>2. IsFiniteSet(DOMAIN d) /\ Cardinality(DOMAIN d) <= MaxSize
  BY <1>1, SmallerFits DEF SizeInv, SizeBound
<1>3. CASE db' = d
  BY <1>2, <1>3 DEF SizeInv, SizeBound, AddNew
<1>4. CASE ~(Cardinality(DOMAIN d) >= MaxSize) /\ db' = Inserted(d, u)
  <2>1. KeyOf[u] \notin DOMAIN d
    BY <1>1 DEF AddNew
  <2>2. DOMAIN db' = DOMAIN d \cup {KeyOf[u]}
    BY <1>4 DEF Inserted
  <2>3. IsFiniteSet(DOMAIN db') /\ Cardinality(DOMAIN db') = Cardinality(DOMAIN d) + 1
    BY <1>2, <2>1, <2>2, FS_AddElement
  <2>4. Cardinality(DOMAIN d) \in Nat
    BY <1>2, FS_CardinalityType
  <2>5. Cardinality(DOMAIN db') <= MaxSize
    BY <1>4, <2>3, <2>4, ConfigDatabaseAssumption
  <2> QED  BY <2>3, <2>5 DEF SizeInv, SizeBound, AddNew
<1> QED  BY <1>1, <1>3, <1>4

LEMMA Sized == Spec => []SizeInv
<1>1. Init => SizeInv
  BY FS_EmptySet, ConfigDatabaseAssumption
     DEF Init, NoRecords, SizeInv, SizeBound
<1>2. ASSUME IInv, SizeInv, [Next]_vars
      PROVE  SizeInv'
  <2>1. CASE DOMAIN db' \subseteq DOMAIN db /\ disk' = disk
    BY <1>2, <2>1, SmallerFits DEF SizeInv, SizeBound
  <2>2. CASE DOMAIN db' = DOMAIN disk /\ disk' = disk
    BY <1>2, <2>2 DEF SizeInv, SizeBound
  <2>3. CASE DOMAIN db' \subseteq DOMAIN db /\ DOMAIN disk' \subseteq DOMAIN db
    BY <1>2, <2>3, SmallerFits DEF SizeInv, SizeBound
  <2>4. ASSUME NEW u \in Uri, AddNew(u)
        PROVE  SizeInv'
    BY <1>2, <2>4, AddNewFits
  <2>5. CASE UNCHANGED vars
    BY <2>1, <2>5 DEF vars
  <2>6. CASE Tick \/ AddReturn
             \/ \E uris \in SUBSET Uri, high \in BOOLEAN : AddConfigs(uris, high)
    BY <2>1, <2>6 DEF Tick, AddReturn, AddConfigs
  <2>7. ASSUME NEW u \in Uri, AddExisting(u) \/ UpdateHealth(u)
        PROVE  SizeInv'
    BY <2>1, <2>7 DEF AddExisting, UpdateHealth
  <2>8. CASE \/ \E age \in ClearAge : ClearOlderThan(age)
             \/ ClearAlive
             \/ \E uris \in SUBSET Uri : RemoveUris(uris)
    BY <2>1, <2>8 DEF ClearOlderThan, ClearAlive, RemoveUris, Remove, Restrict
  <2>9. CASE SaveToDisk
    BY <2>3, <2>9 DEF SaveToDisk
  <2>10. CASE Restart
    BY <2>2, <2>10 DEF Restart, Loaded
  <2>11. CASE \E written \in SUBSET Key : CrashInSave(written)
    BY <2>3, <2>11 DEF CrashInSave, Loaded, Restrict
  <2> QED
    BY <1>2, <2>4, <2>5, <2>6, <2>7, <2>8, <2>9, <2>10, <2>11
       DEF Next, AddStep
<1> QED  BY Invariance, <1>1, <1>2, PTL DEF Spec

(* The database and its file never outgrow MaxSize (addConfigsWithPriority *)
(* and loadFromDisk), however little eviction frees.                       *)
THEOREM SizeCorrect == Spec => []SizeBound
<1>1. SizeInv => SizeBound
  BY DEF SizeInv
<1> QED  BY Sized, <1>1, PTL

-----------------------------------------------------------------------------
(* The database implements HealthTable.  A step of the clock, of a loop    *)
(* over what is stored, and an insertion given up are stutters of it.      *)

(* Nobody is adding when the mutex is free.                                *)
CallInv == Free => call.left = {}

LEMMA CallCorrect == Spec => []CallInv
<1>1. Init => CallInv
  BY DEF Init, CallInv, Idle
<1>2. ASSUME IInv, CallInv, [Next]_vars
      PROVE  CallInv'
  <2>1. ASSUME NEW u \in Uri, AddExisting(u) \/ AddNew(u)
        PROVE  call'.at = call.at /\ call.left # {}
    BY <1>2, <2>1 DEF AddExisting, AddNew, IInv, TypeOK, Call
  <2>2. CASE call' = call
    BY <1>2, <2>2 DEF CallInv, Free
  <2>3. CASE call' = Idle
    BY <2>3 DEF CallInv, Free, Idle
  <2>4. ASSUME NEW uris \in SUBSET Uri, NEW high \in BOOLEAN, AddConfigs(uris, high)
        PROVE  CallInv'
    BY <1>2, <2>4 DEF AddConfigs, CallInv, Free, IInv, TypeOK
  <2>5. CASE AddStep
    BY <1>2, <2>1, <2>5 DEF AddStep, CallInv, Free
  <2>6. CASE UNCHANGED vars \/ Tick \/ ClearAlive \/ SaveToDisk
    BY <2>2, <2>6 DEF vars, Tick, ClearAlive, SaveToDisk
  <2>7. CASE AddReturn \/ Restart
    BY <2>3, <2>7 DEF AddReturn, Restart
  <2>8. CASE \/ \E u \in Uri : UpdateHealth(u)
             \/ \E age \in ClearAge : ClearOlderThan(age)
             \/ \E uris \in SUBSET Uri : RemoveUris(uris)
             \/ \E written \in SUBSET Key : CrashInSave(written)
    BY <2>2, <2>8 DEF UpdateHealth, ClearOlderThan, RemoveUris, CrashInSave
  <2> QED  BY <1>2, <2>4, <2>5, <2>6, <2>7, <2>8 DEF Next
<1> QED  BY Invariance, <1>1, <1>2, PTL DEF Spec

(* What is left of the records is left of their states.                    *)
LEMMA RestrictStatuses ==
    ASSUME NEW d, NEW S \in SUBSET DOMAIN d
    PROVE  Statuses(Restrict(d, S)) = Restrict(Statuses(d), S)
BY DEF Statuses, Restrict

(* What is loaded is in the state it was saved in.                         *)
LEMMA LoadedStatuses ==
    ASSUME NEW rows, IsDatabase(rows)
    PROVE  Statuses(Loaded(rows)) = Statuses(rows)
<1>1. ASSUME NEW k \in DOMAIN rows
      PROVE  Status(Loaded(rows)[k]) = Status(rows[k])
  BY <1>1 DEF Loaded, Status, IsDatabase, ConfigHealthRecord
<1>2. DOMAIN Loaded(rows) = DOMAIN rows
  BY DEF Loaded
<1> QED  BY <1>1, <1>2 DEF Statuses

(* A URI that is stored: its record stays in the state it is in.           *)
LEMMA AddExistingStutters ==
    ASSUME IInv, NEW u \in Uri, AddExisting(u)
    PROVE  UNCHANGED <<Statuses(db), disk, call.at>>
<1>1. /\ IsDatabase(db) /\ call \in Call /\ KeyOf[u] \in DOMAIN db
      /\ db[KeyOf[u]] \in ConfigHealthRecord
  BY DEF IInv, TypeOK, AddExisting, IsDatabase
<1>2. disk' = disk /\ call'.at = call.at
  BY <1>1 DEF AddExisting, Call
<1>3. /\ DOMAIN db' = DOMAIN db
      /\ \A k \in DOMAIN db : Status(db'[k]) = Status(db[k])
  BY <1>1 DEF AddExisting, Status, ConfigHealthRecord
<1>4. Statuses(db)' = Statuses(db)
  BY <1>3 DEF Statuses
<1> QED  BY <1>2, <1>4

(* A URI that is not stored: it replaces dead records, or nothing changes. *)
LEMMA AddNewAdds ==
    ASSUME IInv, SizeInv, CallInv, NEW u \in Uri, AddNew(u)
    PROVE  \/ Table!Add(KeyOf[u])
           \/ UNCHANGED <<Statuses(db), disk, call.at>>
<1> DEFINE full == Cardinality(DOMAIN db) >= MaxSize
           t == Statuses(db)
<1>1. /\ IsDatabase(db) /\ call \in Call /\ now \in Nat
      /\ call.at # 0 /\ call'.at = call.at /\ disk' = disk
      /\ KeyOf[u] \notin DOMAIN db
  BY DEF IInv, TypeOK, CallInv, Free, AddNew, Call
<1>2. PICK d : /\ d \in EvictStale(db, now) \/ d = db
               /\ d = db \/ full
               /\ IF Cardinality(DOMAIN d) >= MaxSize THEN db' = d
                                                      ELSE db' = Inserted(d, u)
  BY DEF AddNew
<1>3. /\ DOMAIN d \subseteq DOMAIN db
      /\ \A k \in DOMAIN d : d[k] = db[k]
      /\ d = Restrict(db, DOMAIN d)
      /\ \A k \in DOMAIN db \ DOMAIN d : ~db[k].alive /\ db[k].tests > 0
  <2>1. CASE d = db
    BY <2>1, <1>1 DEF IsDatabase, Restrict
  <2>2. CASE d \in EvictStale(db, now)
    <3>1. PICK S \in SUBSET (Expired(db, now) \cup Evictable(db)) :
             d = Restrict(db, DOMAIN db \ S)
      BY <1>1, <2>2, EvictStaleRemoves
    <3> QED  BY <2>2, <3>1, EvictedAreDead DEF Restrict
  <2> QED  BY <1>2, <2>1, <2>2
<1>4. /\ Cardinality(DOMAIN db) \in Nat /\ Cardinality(DOMAIN d) \in Nat
      /\ Cardinality(DOMAIN db) <= MaxSize
      /\ Cardinality(DOMAIN d) <= Cardinality(DOMAIN db)
      /\ Cardinality(DOMAIN d) = Cardinality(DOMAIN db) => DOMAIN d = DOMAIN db
  BY <1>3, FS_Subset, FS_CardinalityType DEF SizeInv, SizeBound
<1>5. CASE Cardinality(DOMAIN d) >= MaxSize
  <2>1. DOMAIN d = DOMAIN db
    BY <1>4, <1>5, ConfigDatabaseAssumption
  <2>2. db' = db
    BY <1>1, <1>2, <1>3, <1>5, <2>1 DEF IsDatabase, Restrict
  <2> QED  BY <1>1, <2>2 DEF Statuses
<1>6. CASE ~(Cardinality(DOMAIN d) >= MaxSize)
  <2> DEFINE gone == DOMAIN db \ DOMAIN d
  <2>1. DOMAIN t = DOMAIN db /\ \A k \in DOMAIN db : t[k] = Status(db[k])
    BY DEF Statuses
  <2>2. gone \in SUBSET {j \in DOMAIN t : t[j] = "dead"}
    BY <1>3, <2>1 DEF Status
  <2>3. gone # {} => Cardinality(DOMAIN t) >= MaxSize
    BY <1>2, <2>1
  <2>4. DOMAIN t \ gone = DOMAIN d
    BY <1>3, <2>1
  <2>5. Cardinality(DOMAIN t \ gone) < MaxSize
    BY <1>4, <1>6, <2>4, ConfigDatabaseAssumption
  <2>6. \A S : Table!Cardinality(S) = Cardinality(S)
    BY DEF Table!Cardinality, Cardinality
  <2>7. Statuses(db)' = [j \in (DOMAIN t \ gone) \cup {KeyOf[u]} |->
                           IF j = KeyOf[u] THEN "new" ELSE t[j]]
    <3>1. /\ DOMAIN db' = DOMAIN d \cup {KeyOf[u]}
          /\ db'[KeyOf[u]] = NewRecord(u, call.high, call.at)
          /\ \A k \in DOMAIN d : k # KeyOf[u] => db'[k] = db[k]
      BY <1>2, <1>3, <1>6 DEF Inserted
    <3>2. Status(db'[KeyOf[u]]) = "new"
      BY <3>1 DEF NewRecord, Status
    <3> QED  BY <1>1, <1>3, <2>1, <2>4, <3>1, <3>2 DEF Statuses
  <2>8. KeyOf[u] \notin DOMAIN t /\ ~Free /\ ~Free' /\ Statuses(disk)' = Statuses(disk)
    BY <1>1, <2>1 DEF Free, Statuses
  <2> HIDE DEF gone, t
  <2> QED  BY <2>2, <2>3, <2>5, <2>6, <2>7, <2>8 DEF Table!Add, t
<1> QED  BY <1>5, <1>6

(* A result: the record is not new any more.                               *)
LEMMA UpdateHealthTests ==
    ASSUME IInv, NEW u \in Uri, UpdateHealth(u)
    PROVE  Table!Test(KeyOf[u])
<1> DEFINE k == KeyOf[u]
           t == Statuses(db)
<1>1. /\ k \in DOMAIN db /\ db[k] \in ConfigHealthRecord /\ now \in Nat \ {0}
      /\ db[k].tests \in Nat
  BY DEF IInv, TypeOK, IsDatabase, UpdateHealth, ConfigHealthRecord
<1>2. PICK r \in Results(db[k]) : db' = [db EXCEPT ![k] = r]
  BY DEF UpdateHealth
<1>3. r \in ConfigHealthRecord
  BY <1>1, ResultType
<1>4. r.tests = db[k].tests + 1
  <2>1. Tested(db[k]).tests = db[k].tests + 1
    BY <1>1 DEF Tested, ConfigHealthRecord
  <2>2. /\ \A lat : Passed(db[k], FALSE, lat).tests = Tested(db[k]).tests
        /\ Passed(db[k], TRUE, 0).tests = Tested(db[k]).tests
    BY DEF Passed, Tested
  <2>3. \A force \in BOOLEAN : Failed(db[k], force).tests = Tested(db[k]).tests
    BY DEF Failed, Tested
  <2> QED  BY <2>1, <2>2, <2>3 DEF Results
<1>5. Status(r) \in {"live", "telegram", "dead"}
  BY <1>1, <1>4 DEF Status
<1>6. Statuses(db)' = [t EXCEPT ![k] = Status(r)]
  BY <1>1, <1>2 DEF Statuses
<1>7. k \in DOMAIN t /\ Free /\ Free' /\ Statuses(disk)' = Statuses(disk)
  BY <1>1 DEF Statuses, UpdateHealth, Free
<1> HIDE DEF t
<1> QED  BY <1>5, <1>6, <1>7 DEF Table!Test, t

(* A removal drops the keys it removes.                                    *)
LEMMA RemoveDrops ==
    ASSUME NEW keys \in SUBSET Key, Free, Remove(keys),
           UNCHANGED <<disk, saves, call, now>>
    PROVE  Table!Drop(keys)
<1>1. Statuses(db)' = Restrict(Statuses(db), DOMAIN db \ keys)
  BY RestrictStatuses DEF Remove, Statuses
<1>2. DOMAIN Statuses(db) = DOMAIN db
  BY DEF Statuses
<1> QED  BY <1>1, <1>2 DEF Table!Drop, Statuses, Free, Restrict, Table!Restrict

LEMMA StepTables ==
    ASSUME IInv, SizeInv, CallInv, [Next]_vars
    PROVE  [Table!TableNext]_(Table!tableVars)
<1>1. IsDatabase(db) /\ IsDatabase(disk) /\ call \in Call /\ now \in Nat \ {0}
  BY DEF IInv, TypeOK
<1>2. ASSUME UNCHANGED <<Statuses(db), disk, call.at>>
      PROVE  UNCHANGED Table!tableVars
  BY <1>2 DEF Table!tableVars, Statuses, Free
<1>3. CASE Tick \/ UNCHANGED vars
  BY <1>2, <1>3 DEF Tick, vars, Statuses
<1>4. ASSUME NEW uris \in SUBSET Uri, NEW high \in BOOLEAN, AddConfigs(uris, high)
      PROVE  Table!Begin
  BY <1>1, <1>4 DEF AddConfigs, Table!Begin, Free, Statuses
<1>5. ASSUME NEW u \in Uri, AddExisting(u)
      PROVE  UNCHANGED Table!tableVars
  BY <1>2, <1>5, AddExistingStutters
<1>6. ASSUME NEW u \in Uri, AddNew(u)
      PROVE  Table!Add(KeyOf[u]) \/ UNCHANGED Table!tableVars
  BY <1>2, <1>6, AddNewAdds
<1>7. ASSUME AddReturn PROVE Table!End
  BY <1>7 DEF AddReturn, Table!End, Free, Idle, Statuses
<1>8. ASSUME NEW age \in ClearAge, ClearOlderThan(age)
      PROVE  \E keys \in SUBSET Key : Table!Drop(keys)
  <2>1. {k \in DOMAIN db : TooOld(db[k], age)} \in SUBSET Key
    BY <1>1 DEF IsDatabase
  <2> QED  BY <1>8, <2>1, RemoveDrops DEF ClearOlderThan
<1>9. ASSUME ClearAlive
      PROVE  \E keys \in SUBSET Key : Table!Drop(keys)
  <2>1. {k \in DOMAIN db : db[k].alive} \in SUBSET Key
    BY <1>1 DEF IsDatabase
  <2> QED  BY <1>9, <2>1, RemoveDrops DEF ClearAlive
<1>10. ASSUME NEW uris \in SUBSET Uri, RemoveUris(uris)
       PROVE  \E keys \in SUBSET Key : Table!Drop(keys)
  <2>1. {KeyOf[u] : u \in uris} \in SUBSET Key
    BY ConfigDatabaseAssumption
  <2> QED  BY <1>10, <2>1, RemoveDrops DEF RemoveUris
<1>11. ASSUME SaveToDisk PROVE Table!Save
  BY <1>11 DEF SaveToDisk, Table!Save, Statuses, Free
<1>12. ASSUME Restart PROVE Table!Reload
  BY <1>1, <1>12, LoadedStatuses DEF Restart, Table!Reload, Idle, Free, Statuses
<1>13. ASSUME NEW written \in SUBSET Key, CrashInSave(written)
       PROVE  Table!ReloadPart(written)
  <2>1. /\ IsDatabase(disk') /\ written \subseteq DOMAIN db
        /\ Statuses(disk)' = Restrict(Statuses(db), written)
    BY <1>1, <1>13, RestrictType, RestrictStatuses DEF CrashInSave, Statuses
  <2>2. Statuses(db)' = Statuses(disk)'
    BY <1>13, <2>1, LoadedStatuses DEF CrashInSave, Statuses
  <2>3. DOMAIN Statuses(db) \cap written = written
    BY <2>1 DEF Statuses
  <2>4. Free /\ Free'
    BY <1>13 DEF CrashInSave, Free
  <2> QED
    BY <2>1, <2>2, <2>3, <2>4
       DEF Table!ReloadPart, Restrict, Table!Restrict
<1>14. \A u \in Uri : KeyOf[u] \in Key
  BY ConfigDatabaseAssumption
<1> QED
  BY <1>3, <1>4, <1>5, <1>6, <1>7, <1>8, <1>9, <1>10, <1>11, <1>12, <1>13,
     <1>14, UpdateHealthTests DEF Next, AddStep, Table!TableNext

(* To its users the database is a table of at most MaxSize endpoints: what *)
(* comes in replaces dead endpoints only, and tests, removals, saves, torn *)
(* saves and restarts do to their states what they do to the table's.      *)
THEOREM RefinesHealthTable == Spec => ImplementsHealthTable
<1>1. Init => Table!TableInit
  BY DEF Init, Table!TableInit, NoRecords, Statuses, Free, Idle
<1> QED
  BY <1>1, Invariance, Sized, CallCorrect, StepTables, PTL
     DEF Spec, ImplementsHealthTable, Table!TableSpec

=============================================================================
