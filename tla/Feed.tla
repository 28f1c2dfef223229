-------------------------------- MODULE Feed --------------------------------
(***************************************************************************)
(* From tests to clients: how the results of the proxy tests reach the     *)
(* database, and how lists of working configurations reach what clients    *)
(* use (the balancers' pools, their cache files, the gold and silver       *)
(* files, the list the ports are provisioned from).  Three threads do it   *)
(* at the same time: the validator worker, the hunting cycle, and the      *)
(* thread that runs the user's commands.  Each works for minutes on lists  *)
(* it read before, and the user may remove configurations meanwhile.       *)
(*                                                                         *)
(* The database keeps one record for an endpoint, under its key, with the  *)
(* URI it was made for; everything else knows URIs only.  Two URIs of one  *)
(* endpoint share a record, its verdicts and its removal, while pools and  *)
(* files are filtered by the exact URI.                                    *)
(*                                                                         *)
(* Sets stand for the sorted lists.  ConfigDatabase has the records in     *)
(* detail, with the limit and the eviction, Provisioning the ports.        *)
(***************************************************************************)
EXTENDS Naturals, FiniteSets, Sequences, Functions

CONSTANTS
    Uri,          \* the configurations
    Key,          \* the endpoints
    KeyOf,        \* the endpoint of a configuration
    BatchSize,    \* what the validator and the cycle take from the queue
    DeadFails,    \* failures in a row that make a live record dead
    Watch,        \* the sets of sinks that are observed together
    MaxCycles,    \* bound: hunting cycles
    MaxCommands   \* bound: commands of the user

Sink == {"gold", "good", "cache", "pool", "gemini"}

ASSUME FeedAssumption ==
    /\ IsFiniteSet(Uri)
    /\ KeyOf \in [Uri -> Key]
    /\ BatchSize \in Nat \ {0}
    /\ DeadFails \in Nat \ {0}
    /\ Watch \subseteq (SUBSET Sink) \ {{}}
    /\ {MaxCycles, MaxCommands} \subseteq Nat

VARIABLES
    db,      \* the records of the database, by endpoint
    out,     \* what the observed sinks hold
    fate,    \* ghost: whether a configuration of its endpoint has passed a
             \* test since the user last removed it, or a result or a list
             \* from before the removal has brought it back
    val,     \* the validator's execution in progress
    cyc,     \* the hunting cycle in progress
    cmd,     \* the command in progress
    paused,  \* paused_
    used     \* cycles and commands so far (bounded)

vars == <<db, out, fate, val, cyc, cmd, paused, used>>

(* A behaviour observes one sink, or two where one is written from what    *)
(* was read from the other; writes to the rest are not seen.               *)
Seen(s) == IF s \in DOMAIN out THEN <<s>> ELSE <<>>

Record == [uri: Uri,
           health: {"new", "live", "telegram", "dead"}, fails: 0 .. DeadFails,
           due: {"no", "stale", "flag"}, boost: BOOLEAN]

Verdict == {"ok", "telegram", "fail"}

Resting == [at |-> "idle", batch |-> {}, list |-> {}, to |-> <<>>, late |-> {}]
NoCycle == [at |-> "idle", todo |-> {}, rest |-> {}, owed |-> {}, done |-> {},
            list |-> {}, to |-> <<>>, late |-> {}]
NoCommand == [do |-> "none", uris |-> {}, to |-> <<>>, read |-> {}]

-----------------------------------------------------------------------------
(* The database, as these threads use it                                   *)

New(k)  == k \in DOMAIN db /\ db[k].health = "new"
Live(k) == k \in DOMAIN db /\ db[k].health = "live"
Dead(k) == k \in DOMAIN db /\ db[k].health = "dead"

KeysOf(uris) == {KeyOf[u] : u \in uris}

(* getHealthyConfigs; also the test alive /\ latency_ms > 0 of the worker, *)
(* a Telegram-only record having no latency (ConfigDatabase shows it).     *)
Healthy == {db[k].uri : k \in {j \in DOMAIN db : Live(j)}}

(* getUntestedBatch: who is due, and how urgently.                         *)
Priority(rec) ==
    CASE rec.health = "new" -> 0
      [] rec.health # "new" /\ rec.due = "flag" -> 1
      [] rec.health \in {"live", "telegram"} /\ rec.due = "stale" -> 2
      [] OTHER -> 3

(* wrong variant: the live records are looked at first *)
LiveFirst(rec) ==
    IF rec.health = "live" THEN 0 ELSE 10 + Priority(rec)

Urgency(rec) == (IF rec.boost THEN 0 ELSE 10) + Priority(rec)

Batches ==
    LET C == {k \in DOMAIN db : db[k].health = "new" \/ db[k].due # "no"}
        Chosen == {B \in SUBSET C :
                     /\ Cardinality(B) <= BatchSize
                     /\ B = C \/ Cardinality(B) = BatchSize
                     /\ \A b \in B, c \in C \ B : Urgency(db[b]) <= Urgency(db[c])}
    IN  {{db[k].uri : k \in B} : B \in Chosen}

(* updateHealth of one record.                                             *)
Tested(rec, v, forced) ==
    LET f == IF forced \/ rec.fails + 1 >= DeadFails THEN DeadFails
             ELSE rec.fails + 1
    IN  IF v = "fail"
        THEN [uri |-> rec.uri,
              health |-> IF rec.health = "new" \/ f = DeadFails THEN "dead"
                         ELSE rec.health,
              fails |-> f, due |-> "no", boost |-> FALSE]
        ELSE [uri |-> rec.uri, health |-> IF v = "ok" THEN "live" ELSE "telegram",
              fails |-> 0, due |-> "no", boost |-> FALSE]

(* A result goes to the record of the endpoint, whichever URI it holds by  *)
(* now; one for an endpoint without a record is dropped.                   *)
StoreVerdict(u, v, forced) ==
    db' = IF KeyOf[u] \in DOMAIN db
          THEN [db EXCEPT ![KeyOf[u]] = Tested(@, v, forced)]
          ELSE db

Passed(u) == [w \in Uri |-> IF KeyOf[w] = KeyOf[u] THEN "passed" ELSE fate[w]]

Passes(u, v) == fate' = IF v = "ok" THEN Passed(u) ELSE fate

(* addConfigsWithPriority: an endpoint that has a record keeps its URI; an *)
(* import also flags and boosts it.  Of several new URIs of one endpoint   *)
(* the first, in the order of the set, gets the record.                    *)
Add(uris, high) ==
    \E first \in {f \in [KeysOf(uris) -> uris] : \A k \in DOMAIN f : KeyOf[f[k]] = k} :
        db' = [k \in DOMAIN db \cup KeysOf(uris) |->
                 IF k \notin DOMAIN db
                 THEN [uri |-> first[k], health |-> "new", fails |-> 0,
                       due |-> "flag", boost |-> high]
                 ELSE IF high /\ k \in KeysOf(uris)
                 THEN [db[k] EXCEPT !.due = "flag", !.boost = TRUE]
                 ELSE db[k]]

(* Time: a tested record becomes due again, a boost runs out.              *)
Age(k) ==
    /\ k \in DOMAIN db
    /\ \/ /\ db[k].due = "no"
          /\ db' = [db EXCEPT ![k].due = "stale"]
       \/ /\ db[k].boost
          /\ db' = [db EXCEPT ![k].boost = FALSE]
    /\ UNCHANGED <<out, fate, val, cyc, cmd, paused, used>>

-----------------------------------------------------------------------------
(* Handing a list to a sink.  The gold and silver files are appended to;   *)
(* everything else is replaced.  The second balancer gets the slower half  *)
(* (its cache file is written with it).                                    *)
Given(s, list) ==
    IF s = "gemini"
    THEN {H \in SUBSET list : Cardinality(H) = Cardinality(list)
                                               - Cardinality(list) \div 2}
    ELSE {list}

(* wrong variant: every sink is added to *)
HandAdds(s, list, late) ==
    \E L \in Given(s, list) :
        /\ out' = [out EXCEPT ![s] = @ \cup L]
        /\ fate' = [u \in Uri |-> IF u \in L \cap late /\ fate[u] = "never"
                                  THEN "passed" ELSE fate[u]]

(* `late' are the members of the list whose endpoint the user removed, by  *)
(* one of its URIs, after they were put on it.                             *)
Hand(s, list, late) ==
    \E L \in Given(s, list) :
        /\ out' = [out EXCEPT ![s] = IF s = "gold" THEN @ \cup L ELSE L]
        /\ fate' = [u \in Uri |-> IF u \in L \cap late /\ fate[u] = "never"
                                  THEN "passed" ELSE fate[u]]

Second(list) == IF Cardinality(list) > 1 THEN Seen("gemini") ELSE <<>>

(* A fetch from GitHub (refreshGithubConfigs, and the cycle's own) may     *)
(* bring anything or nothing into the database.                            *)
RefreshGithub == \E uris \in SUBSET Uri : Add(uris, FALSE)

-----------------------------------------------------------------------------
(* The validator worker (ValidatorWorker::execute)                         *)

(* The sizes come from the settings, the memory and the pool; one read of  *)
(* the queue gives the batch.                                              *)
TakeBatch ==
    /\ val.at = "idle"
    /\ ~paused
    /\ \E B \in Batches : val' = [val EXCEPT !.at = "test", !.batch = B]
    /\ UNCHANGED <<db, out, fate, cyc, cmd, paused, used>>

(* validateBatch: the tests of a chunk run in the io pool; their results   *)
(* are stored one at a time, each under the database's mutex.              *)
StoreResult(u) ==
    /\ u \in val.batch
    /\ \E v \in Verdict : StoreVerdict(u, v, FALSE) /\ Passes(u, v)
    /\ val' = [val EXCEPT !.batch = @ \ {u}]
    /\ UNCHANGED <<out, cyc, cmd, paused, used>>

(* A future that throws leaves the record as it was.                       *)
LoseResult(u) ==
    /\ u \in val.batch
    /\ val' = [val EXCEPT !.batch = @ \ {u}]
    /\ UNCHANGED <<db, out, fate, cyc, cmd, paused, used>>

(* wrong variant: an empty list is handed out like any other *)
ReadRecordsAlways ==
    /\ val.at = "test" /\ val.batch = {}
    /\ val' = [Resting EXCEPT
                 !.at = "hand", !.list = Healthy,
                 !.to = Seen("gold") \o Seen("cache") \o Seen("pool")
                          \o <<"github">>]
    /\ UNCHANGED <<db, out, fate, cyc, cmd, paused, used>>

(* After the batch, getAllRecords: the live ones are handed out, if any.   *)
(* A refresh from GitHub follows when live records have just appeared, or  *)
(* when none has succeeded yet; none at all is one that brings nothing.    *)
ReadRecords ==
    /\ val.at = "test"
    /\ val.batch = {}
    /\ val' = IF Healthy = {} THEN Resting
              ELSE [Resting EXCEPT
                      !.at = "hand", !.list = Healthy,
                      !.to = Seen("gold") \o Seen("cache") \o Seen("pool")
                               \o Second(Healthy) \o <<"github">>]
    /\ UNCHANGED <<db, out, fate, cyc, cmd, paused, used>>

(* Files first, then the balancers, then the refresh.                      *)
ValidatorHands ==
    /\ val.at = "hand"
    /\ IF Head(val.to) = "github"
       THEN RefreshGithub /\ UNCHANGED <<out, fate>>
       ELSE Hand(Head(val.to), val.list, val.late) /\ UNCHANGED db
    /\ val' = IF Len(val.to) = 1 THEN Resting
              ELSE [val EXCEPT !.to = Tail(@)]
    /\ UNCHANGED <<cyc, cmd, paused, used>>

Validator ==
    \/ TakeBatch
    \/ \E u \in Uri : StoreResult(u) \/ LoseResult(u)
    \/ ReadRecords
    \/ ValidatorHands

-----------------------------------------------------------------------------
(* The hunting cycle (runCycle); cycle_lock_ lets one run at a time.       *)

(* scrapeConfigs: a Telegram list and a list from everywhere else (HTTP    *)
(* sources, GitHub, the smart cache), any of them empty.                   *)
Scraped == (SUBSET Uri) \X (SUBSET Uri)

(* Scrape, then store what is new.                                         *)
BeginCycle ==
    /\ cyc.at = "idle"
    /\ used.cycles < MaxCycles
    /\ used' = [used EXCEPT !.cycles = @ + 1]
    /\ \E s \in Scraped :
         /\ Add(s[1] \cup s[2], FALSE)
         /\ cyc' = [NoCycle EXCEPT !.at = "select", !.todo = s[1], !.rest = s[2]]
    /\ UNCHANGED <<out, fate, val, cmd, paused>>

(* Supplement with the healthy records and with a batch from the queue.    *)
Select ==
    /\ cyc.at = "select"
    /\ \E B \in Batches :
         cyc' = [cyc EXCEPT !.at = "line",
                            !.rest = @ \cup ((Healthy \cup B) \ cyc.todo)]
    /\ UNCHANGED <<db, out, fate, val, cmd, paused, used>>

(* validateConfigs, twice: the Telegram line, then the other one.  Of the  *)
(* URIs of an endpoint a line tests the first, and a result of the first   *)
(* line counts before one of the second (`done' has the endpoints where    *)
(* that matters).  Nothing is stored before the whole line is tested;      *)
(* which of the other results it is that is owed is left open until then.  *)
(* A result that is lost to an exception has no configuration to be stored *)
(* under.                                                                  *)
TestNext(u) ==
    /\ cyc.at = "line"
    /\ u \in cyc.todo
    /\ ~paused
    /\ LET todo == {w \in cyc.todo : KeyOf[w] # KeyOf[u]}
       IN  \/ \E v \in {"ok", "other"} :
                /\ cyc' = [cyc EXCEPT
                             !.todo = todo,
                             !.owed = @ \cup {<<u, v>>},
                             !.done = @ \cup ({KeyOf[u]} \cap KeysOf(cyc.rest)),
                             !.list = IF v = "ok" /\ KeyOf[u] \notin cyc.done
                                      THEN @ \cup {u} ELSE @]
                /\ Passes(u, v)
           \/ /\ cyc' = [cyc EXCEPT !.todo = todo]
              /\ UNCHANGED fate
    /\ UNCHANGED <<db, out, val, cmd, paused, used>>

(* Between two chunks: stop, pause or memory pressure ends the line.       *)
CutShort ==
    /\ cyc.at = "line"
    /\ cyc.todo # {}
    /\ cyc' = [cyc EXCEPT !.todo = {}]
    /\ UNCHANGED <<db, out, fate, val, cmd, paused, used>>

(* The end of a line: its results are stored, however old they are.        *)
StoreOwed(u) ==
    /\ cyc.at = "line"
    /\ cyc.todo = {}
    /\ \E r \in {"ok", "other"} :
         /\ <<u, r>> \in cyc.owed
         /\ cyc' = [cyc EXCEPT !.owed = @ \ {<<u, r>>}]
         /\ \E v \in Verdict : (v = "ok" <=> r = "ok") /\ StoreVerdict(u, v, FALSE)
         /\ fate' = IF r = "ok" /\ u \in cyc.late /\ KeyOf[u] \in DOMAIN db
                    THEN Passed(u) ELSE fate
    /\ UNCHANGED <<out, val, cmd, paused, used>>

NextLine ==
    /\ cyc.at = "line"
    /\ cyc.todo = {} /\ cyc.owed = {} /\ cyc.rest # {}
    /\ cyc' = [cyc EXCEPT !.todo = cyc.rest, !.rest = {}]
    /\ UNCHANGED <<db, out, fate, val, cmd, paused, used>>

(* tierConfigs: only gold and silver results are handed out.  An empty     *)
(* list changes nothing for the clients.                                   *)
Rank ==
    /\ cyc.at = "line"
    /\ cyc.todo = {} /\ cyc.owed = {} /\ cyc.rest = {}
    /\ cyc' = IF cyc.list = {} THEN NoCycle
              ELSE [cyc EXCEPT
                      !.at = "hand", !.done = {},
                      !.to = Seen("good") \o <<"github">> \o Seen("pool")
                               \o Seen("cache") \o Second(cyc.list)
                               \o Seen("gold")]
    /\ UNCHANGED <<db, out, fate, val, cmd, paused, used>>

CycleHands ==
    /\ cyc.at = "hand"
    /\ IF Head(cyc.to) = "github"
       THEN RefreshGithub /\ UNCHANGED <<out, fate>>
       ELSE Hand(Head(cyc.to), cyc.list, cyc.late) /\ UNCHANGED db
    /\ cyc' = IF Len(cyc.to) = 1 THEN NoCycle
              ELSE [cyc EXCEPT !.to = Tail(@)]
    /\ UNCHANGED <<val, cmd, paused, used>>

(* An exception anywhere ends the cycle.                                   *)
AbortCycle ==
    /\ cyc.at # "idle"
    /\ cyc' = NoCycle
    /\ UNCHANGED <<db, out, fate, val, cmd, paused, used>>

CycleStep ==
    \/ Select
    \/ \E u \in Uri : TestNext(u) \/ StoreOwed(u)
    \/ CutShort
    \/ NextLine
    \/ Rank
    \/ CycleHands

-----------------------------------------------------------------------------
(* The commands of the user, one at a time                                 *)

Command ==
    /\ cmd.do = "none"
    /\ used.commands < MaxCommands
    /\ used' = [used EXCEPT !.commands = @ + 1]

(* addManualConfigs, and what an import does to the database.              *)
AddManual(uris) ==
    /\ Command
    /\ Add(uris, TRUE)
    /\ UNCHANGED <<out, fate, val, cyc, cmd, paused>>

(* The records go first, an endpoint's with any of its URIs; everything    *)
(* else still holds them.                                                  *)
Removed(uris) ==
    LET Touched(listed) == {u \in listed : KeyOf[u] \in KeysOf(uris)}
        owing == {u \in Uri : <<u, "ok">> \in cyc.owed}
    IN  /\ db' = Restrict(db, DOMAIN db \ KeysOf(uris))
        /\ fate' = [u \in Uri |-> IF u \in uris THEN "never" ELSE fate[u]]
        /\ val' = [val EXCEPT !.late = @ \cup Touched(val.list)]
        /\ cyc' = [cyc EXCEPT !.late = @ \cup Touched(cyc.list \cup owing)]

(* clearAliveConfigs (the ports it stops are in Provisioning).             *)
ClearAlive ==
    LET alive == {k \in DOMAIN db : db[k].health \in {"live", "telegram"}}
        uris == {db[k].uri : k \in alive}
    IN  /\ Command
        /\ Removed(uris)
        /\ cmd' = [NoCommand EXCEPT
                     !.do = "clear", !.uris = uris,
                     !.to = Seen("good") \o Seen("pool") \o Seen("gemini")
                              \o Seen("cache") \o Seen("gold")]
        /\ UNCHANGED <<out, paused>>

ClearNext ==
    /\ cmd.do = "clear"
    /\ out' = [out EXCEPT ![Head(cmd.to)] = {}]
    /\ cmd' = IF Len(cmd.to) = 1 THEN NoCommand
              ELSE [cmd EXCEPT !.to = Tail(@)]
    /\ UNCHANGED <<db, fate, val, cyc, paused, used>>

(* A pool is read, filtered and written back in two steps.                 *)
Filtered(s) == IF s \in DOMAIN out THEN <<"read", s>> ELSE <<>>

(* wrong variant: the cache file is left to the next save *)
RemoveConfigsNotCache(uris) ==
    /\ Command
    /\ Removed(uris)
    /\ cmd' = [NoCommand EXCEPT
                 !.do = "remove", !.uris = uris,
                 !.to = Seen("gold") \o Seen("good") \o Filtered("pool")
                          \o Filtered("gemini")]
    /\ UNCHANGED <<out, paused>>

(* removeConfigs: the files and the lists are filtered in place; the cache *)
(* is written with what was read from the pool.                            *)
RemoveConfigs(uris) ==
    /\ Command
    /\ Removed(uris)
    /\ cmd' = [NoCommand EXCEPT
                 !.do = "remove", !.uris = uris,
                 !.to = Seen("gold") \o Seen("good") \o Filtered("pool")
                          \o Seen("cache") \o Filtered("gemini")]
    /\ UNCHANGED <<out, paused>>

RemoveNext ==
    /\ cmd.do = "remove"
    /\ LET s == Head(cmd.to)
       IN  /\ out' = IF s = "read" THEN out
                     ELSE [out EXCEPT ![s] = IF s \in {"gold", "good"}
                                             THEN @ \ cmd.uris ELSE cmd.read]
           /\ cmd' = IF Len(cmd.to) = 1 THEN NoCommand
                     ELSE [cmd EXCEPT
                             !.to = Tail(@),
                             !.read = IF s = "read"
                                      THEN out[cmd.to[2]] \ cmd.uris ELSE @]
    /\ UNCHANGED <<db, fate, val, cyc, paused, used>>

(* recheckLiveProvisionedPorts: pauses the program, for good, and tests    *)
(* every healthy record; one failure is enough here.                       *)
RecheckLive ==
    /\ Command
    /\ paused' = TRUE
    /\ cmd' = IF Healthy = {} THEN NoCommand
              ELSE [NoCommand EXCEPT !.do = "recheck", !.uris = Healthy]
    /\ UNCHANGED <<db, out, fate, val, cyc>>

RecheckOne(u) ==
    /\ cmd.do = "recheck"
    /\ u \in cmd.uris
    /\ \E v \in {"ok", "fail"} : StoreVerdict(u, v, TRUE) /\ Passes(u, v)
    /\ cmd' = IF cmd.uris = {u} THEN NoCommand
              ELSE [cmd EXCEPT !.uris = @ \ {u}]
    /\ UNCHANGED <<out, val, cyc, paused, used>>

Resume ==
    /\ paused
    /\ cmd.do = "none"
    /\ paused' = FALSE
    /\ UNCHANGED <<db, out, fate, val, cyc, cmd, used>>

CommandStep == ClearNext \/ RemoveNext \/ \E u \in Uri : RecheckOne(u)

User ==
    \/ \E uris \in (SUBSET Uri) \ {{}} : AddManual(uris) \/ RemoveConfigs(uris)
    \/ ClearAlive
    \/ RecheckLive
    \/ Resume
    \/ CommandStep

-----------------------------------------------------------------------------
Init ==
    /\ db = <<>>
    /\ \E W \in Watch : out = [s \in W |-> {}]
    /\ fate = [u \in Uri |-> "never"]
    /\ val = Resting
    /\ cyc = NoCycle
    /\ cmd = NoCommand
    /\ paused = FALSE
    /\ used = [cycles |-> 0, commands |-> 0]

Next ==
    \/ \E k \in Key : Age(k)
    \/ Validator
    \/ BeginCycle
    \/ CycleStep
    \/ AbortCycle
    \/ User

(* The worker's thread comes round again, a cycle and a command that have  *)
(* begun go on, a test tried again and again ends in a result; nobody has  *)
(* to begin a cycle or a command, and no time has to pass.                 *)
Fairness ==
    /\ WF_vars(Validator)
    /\ \A u \in Uri : SF_vars(StoreResult(u))
    /\ WF_vars(CycleStep)
    /\ WF_vars(CommandStep)

Spec == Init /\ [][Next]_vars /\ Fairness

-----------------------------------------------------------------------------
(* Type correctness.                                                       *)
Execution == [at: {"idle", "test", "hand"}, batch: SUBSET Uri,
              list: SUBSET Uri, to: Seq(Sink \cup {"github"}), late: SUBSET Uri]
Cycle == [at: {"idle", "select", "line", "hand"}, todo: SUBSET Uri,
          rest: SUBSET Uri, owed: SUBSET (Uri \X {"ok", "other"}), done: SUBSET Key,
          list: SUBSET Uri, to: Seq(Sink \cup {"github"}), late: SUBSET Uri]
Request == [do: {"none", "clear", "remove", "recheck"}, uris: SUBSET Uri,
            to: Seq(Sink \cup {"read"}), read: SUBSET Uri]

TypeOK ==
    /\ DOMAIN db \subseteq Key /\ db \in [DOMAIN db -> Record]
    /\ DOMAIN out \in Watch /\ out \in [DOMAIN out -> SUBSET Uri]
    /\ fate \in [Uri -> {"never", "passed"}]
    /\ val \in Execution
    /\ cyc \in Cycle
    /\ cmd \in Request
    /\ paused \in BOOLEAN
    /\ used \in [cycles: Nat, commands: Nat]

(* Of whatever a client is given, a URI of the same endpoint has passed a  *)
(* test since the user last removed it, or a thread had a result or a list *)
(* of that endpoint before the removal; the removal itself leaves nothing  *)
(* of what was asked for behind, not in a pool it reads and writes back    *)
(* while others replace it, and not in a file (ValidatorWorker::execute,   *)
(* runCycle, removeConfigs, clearAliveConfigs).                            *)
HandedOut ==
    /\ TypeOK
    /\ \A s \in DOMAIN out : \A u \in out[s] :
           fate[u] # "never" \/ (cmd.do \in {"clear", "remove"} /\ u \in cmd.uris)

(* Finding nothing never takes from the clients what they have: a batch or *)
(* a cycle without a working configuration, and one that is cut short or   *)
(* fails, leaves every list that is not empty not empty.  Only a command   *)
(* of the user empties one.                                                *)
KeepsServing ==
    [][\A s \in DOMAIN out : out[s] # {} /\ out'[s] = {} => cmd' # cmd]_vars

(* An endpoint that was never tested is tested or removed in the end,      *)
(* however often the live ones come due: the queue puts it before them.    *)
NewAreTested ==
    <>[]~paused => \A k \in Key : New(k) ~> ~New(k)

(* Results are stored late and lists are handed out late, a pool can be    *)
(* written back as it was before.  It heals: an endpoint that stays dead   *)
(* while another stays live leaves the pool and its cache for good, with   *)
(* every URI of it.                                                        *)
PoolFollows ==
    \A j \in Key : \A k \in Key \ {j} :
        <>[](Dead(j) /\ Live(k) /\ ~paused) =>
            <>[](\A s \in DOMAIN out \ {"gold", "good", "gemini"} :
                    j \notin KeysOf(out[s]))

=============================================================================
