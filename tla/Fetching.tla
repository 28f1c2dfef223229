------------------------------ MODULE Fetching ------------------------------
(***************************************************************************)
(* Reading a source of configurations when the way to it may be blocked.   *)
(* ConfigFetcher tries the direct way and the local proxies in an order    *)
(* that depends on what it believes of the direct way, and leaves a source *)
(* alone for two minutes after Limit failures; FlexibleFetcher does the    *)
(* same once more for its group of sources.  The hunting cycle reads       *)
(* through FlexibleFetcher, the config scan through ConfigFetcher, both at *)
(* the same time and with one belief and one count of failures.  The       *)
(* aggressive harvester starts anew each time.                             *)
(*                                                                         *)
(* There is one source, which stands for a group.                          *)
(***************************************************************************)
EXTENDS Reach

CONSTANT
    Limit    \* failures after which a circuit opens

ASSUME FetchingAssumption == Limit \in Nat \ {0}

Client == {"cycle", "scan"}

VARIABLES
    direct,    \* direct_works_: is the direct way believed to work
    streak,    \* direct_fail_streak_, up to 2
    fails,     \* fail_count of the source, up to Limit
    hot,       \* whether that last failure is less than two minutes ago
    circuit,   \* circuits_ of FlexibleFetcher: failures, open, hot
    job,       \* each client's request: the step it is at
    late,      \* whether its client gave up waiting
    last,      \* what each reader got the last time
    harvest    \* the harvest in progress

fetchVars == <<direct, streak, fails, hot, circuit, job, late, last, harvest>>

Closed == [failures |-> 0, open |-> FALSE, hot |-> FALSE]

NoMore(a, b) == IF a < b THEN a ELSE b

-----------------------------------------------------------------------------
(* wrong variant: a group's first failure opens its circuit *)
NotedTooSoon(c, ok) ==
    IF c # "cycle" THEN circuit
    ELSE IF ok THEN Closed
    ELSE [failures |-> NoMore(circuit.failures + 1, Limit), open |-> TRUE, hot |-> TRUE]

(* The count of failures of FlexibleFetcher is about what cycles got.      *)
Noted(c, ok) ==
    IF c # "cycle" THEN circuit
    ELSE IF ok THEN Closed
    ELSE LET n == NoMore(circuit.failures + 1, Limit)
         IN  [failures |-> n, open |-> circuit.open \/ n >= Limit, hot |-> TRUE]

(* The client has what it waited for.                                      *)
Deliver(c, ok) ==
    /\ last' = [last EXCEPT ![c] = ok]
    /\ circuit' = Noted(c, ok)

(* The request ends, with or without somebody waiting for it.              *)
Finish(c, ok) ==
    /\ job' = [job EXCEPT ![c] = "idle"]
    /\ late' = [late EXCEPT ![c] = FALSE]
    /\ IF late[c] THEN UNCHANGED <<last, circuit>> ELSE Deliver(c, ok)

Goto(c, step) ==
    /\ job' = [job EXCEPT ![c] = step]
    /\ UNCHANGED <<late, last, circuit>>

(* recordSuccess, recordFailure                                            *)
Succeed(c) ==
    /\ fails' = 0 /\ hot' = FALSE
    /\ Finish(c, TRUE)

Fail(c) ==
    /\ fails' = NoMore(fails + 1, Limit) /\ hot' = TRUE
    /\ Finish(c, FALSE)

-----------------------------------------------------------------------------
(* A cycle whose circuit is open reads nothing.                            *)
Skip ==
    /\ job["cycle"] = "idle"
    /\ circuit.open /\ circuit.hot
    /\ last' = [last EXCEPT !["cycle"] = FALSE]
    /\ UNCHANGED <<direct, streak, fails, hot, circuit, job, late, harvest>>

BeginRequest(c) ==
    /\ job[c] = "idle"
    /\ IF c = "cycle" /\ circuit.open
       THEN ~circuit.hot /\ circuit' = Closed
       ELSE UNCHANGED circuit
    /\ job' = [job EXCEPT ![c] = "start"]
    /\ UNCHANGED <<direct, streak, fails, hot, late, last, harvest>>

(* fetchSingleUrl looks at the circuit of the source first.                *)
Refuse(c) ==
    /\ job[c] = "start"
    /\ fails >= Limit /\ hot
    /\ Finish(c, FALSE)
    /\ UNCHANGED <<direct, streak, fails, hot, harvest>>

Start(c) ==
    /\ job[c] = "start"
    /\ ~(fails >= Limit /\ hot)
    /\ fails' = IF fails >= Limit THEN 0 ELSE fails
    /\ Goto(c, CASE direct = "unknown" -> "check"
                 [] direct = "no" -> "proxy first"
                 [] direct = "yes" -> "direct first")
    /\ UNCHANGED <<direct, streak, hot, harvest>>

(* The source's host is asked, and one that is less likely to be blocked.  *)
Access == IF net["source"] \/ net["web"] THEN "yes" ELSE "no"

CheckDirectAccess(c) ==
    /\ job[c] = "check"
    /\ direct' = Access
    /\ Goto(c, IF direct' = "yes" THEN "direct first" ELSE "proxy first")
    /\ UNCHANGED <<streak, fails, hot, harvest>>

(* The hourly refresh of the rule files asks too.  It has the fetch lock,  *)
(* so no cycle waits for what it requested.                                *)
Recheck ==
    /\ job["cycle"] = "idle" \/ late["cycle"]
    /\ direct' = Access
    /\ UNCHANGED <<streak, fails, hot, circuit, job, late, last, harvest>>

ProxyFirst(c) ==
    /\ job[c] = "proxy first"
    /\ IF net["proxy"]
       THEN Succeed(c)
       ELSE Goto(c, "direct anyway") /\ UNCHANGED <<fails, hot>>
    /\ UNCHANGED <<direct, streak, harvest>>

(* wrong variant: what is believed to be blocked is not tried *)
DirectAnywayNot(c) ==
    /\ job[c] = "direct anyway"
    /\ Fail(c)
    /\ UNCHANGED <<direct, streak, harvest>>

DirectAnyway(c) ==
    /\ job[c] = "direct anyway"
    /\ IF net["source"] THEN Succeed(c) ELSE Fail(c)
    /\ UNCHANGED <<direct, streak, harvest>>

(* Two failures of the direct way in a row: it is believed to be blocked,  *)
(* and no reader asks again.                                               *)
DirectFirst(c) ==
    /\ job[c] = "direct first"
    /\ IF net["source"]
       THEN streak' = 0 /\ Succeed(c) /\ UNCHANGED direct
       ELSE /\ streak' = NoMore(streak + 1, 2)
            /\ direct' = IF streak' >= 2 THEN "no" ELSE direct
            /\ Goto(c, "then proxy")
            /\ UNCHANGED <<fails, hot>>
    /\ UNCHANGED harvest

ThenProxy(c) ==
    /\ job[c] = "then proxy"
    /\ IF net["proxy"] THEN Succeed(c) ELSE Fail(c)
    /\ UNCHANGED <<direct, streak, harvest>>

(* The overall deadline of a client passes: it goes on without the rest.   *)
Deadline(c) ==
    /\ job[c] # "idle" /\ ~late[c]
    /\ ~net["source"]
    /\ late' = [late EXCEPT ![c] = TRUE]
    /\ Deliver(c, FALSE)
    /\ UNCHANGED <<direct, streak, fails, hot, job, harvest>>

(* Two minutes have passed.                                                *)
CoolDown ==
    /\ hot \/ circuit.hot
    /\ hot' = FALSE
    /\ circuit' = [circuit EXCEPT !.hot = FALSE]
    /\ UNCHANGED <<direct, streak, fails, job, late, last, harvest>>

(* A harvest asks the source's host once and believes that until its end.  *)
HarvestCheck ==
    /\ harvest = "idle"
    /\ harvest' = IF net["source"] THEN "direct" ELSE "proxy"
    /\ UNCHANGED <<direct, streak, fails, hot, circuit, job, late, last>>

HarvestFetch ==
    /\ harvest # "idle"
    /\ last' = [last EXCEPT !["harvest"] =
                   (harvest = "direct" /\ net["source"]) \/ net["proxy"]]
    /\ harvest' = "idle"
    /\ UNCHANGED <<direct, streak, fails, hot, circuit, job, late>>

Fetch(c) ==
    \/ Refuse(c) \/ Start(c) \/ CheckDirectAccess(c)
    \/ ProxyFirst(c) \/ DirectAnyway(c) \/ DirectFirst(c) \/ ThenProxy(c)

FetchInit ==
    /\ direct = "unknown" /\ streak = 0 /\ fails = 0 /\ hot = FALSE
    /\ circuit = Closed
    /\ job = [c \in Client |-> "idle"]
    /\ late = [c \in Client |-> FALSE]
    /\ last = [r \in Client \cup {"harvest"} |-> FALSE]
    /\ harvest = "idle"

FetchNext ==
    \/ \E c \in Client : BeginRequest(c) \/ Fetch(c) \/ Deadline(c)
    \/ Skip \/ Recheck \/ CoolDown \/ HarvestCheck \/ HarvestFetch

FetchTypeOK ==
    /\ direct \in {"unknown", "yes", "no"}
    /\ streak \in 0 .. 2 /\ fails \in 0 .. Limit
    /\ hot \in BOOLEAN
    /\ circuit \in [failures : 0 .. Limit, open : BOOLEAN, hot : BOOLEAN]
    /\ job \in [Client -> {"idle", "start", "check", "proxy first", "direct anyway",
                           "direct first", "then proxy"}]
    /\ late \in [Client -> BOOLEAN]
    /\ last \in [Client \cup {"harvest"} -> BOOLEAN]
    /\ harvest \in {"idle", "direct", "proxy"}

(* A circuit of the flexible fetcher is open exactly when as many requests *)
(* failed in a row as it takes, a source is left alone only after a        *)
(* failure, and only a request under way counts as given up: whatever a    *)
(* late request still writes under the next one.                           *)
CircuitsHonest ==
    /\ circuit.open <=> circuit.failures = Limit
    /\ hot => fails > 0
    /\ \A c \in Client : late[c] => job[c] # "idle"

=============================================================================
