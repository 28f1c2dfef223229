------------------------------ MODULE Evasion ------------------------------
(***************************************************************************)
(* DpiEvasionOrchestrator: which way of hiding suits the network.  What    *)
(* can be reached is probed by a task that start() waits three seconds     *)
(* for, by the adaptation thread every 30 seconds, and by a command; each  *)
(* stores what it found field by field, without a lock, and the strategy   *)
(* is chosen from whatever the fields hold then.                           *)
(***************************************************************************)
EXTENDS Reach, FiniteSets

CONSTANT
    MaxProbes    \* bound: detect_censorship commands

ASSUME EvasionAssumption == MaxProbes \in Nat

Signal == {"cdn", "web", "telegram"}
Detector == {"start", "loop", "command"}

VARIABLES
    reachable,   \* cdn_reachable_, google_reachable_, telegram_reachable_
    blocked,     \* blocked_signals_
    censored,    \* network_type_ = CENSORED
    strategy,    \* strategy_
    detector,    \* each detection: what it stores next
    found,       \* what its probes found
    begun,       \* how far start() is
    probes       \* commands so far

evasionVars == <<reachable, blocked, censored, strategy, detector, found, begun, probes>>

Blocked(r) == Cardinality({s \in Signal : ~r[s]})
Censored(r) == ~r["web"] /\ ~r["telegram"]

(* selectStrategy                                                          *)
Select(b, c, r) ==
    CASE c \/ b >= 3 -> "reality"
      [] ~c /\ b = 2 -> "splithttp"
      [] ~c /\ b < 2 /\ ~r["telegram"] -> "hysteria2"
      [] ~c /\ b < 2 /\ r["telegram"] /\ r["cdn"] -> "websocket"
      [] OTHER -> "none"

(* What a detection on an unchanging network makes of it.                  *)
StrategyFor(n) == Select(Blocked(n), Censored(n), n)

NothingFound == [s \in Signal |-> "?"]

(* What a detection stores, in this order.                                 *)
Following == [cdn |-> "web", web |-> "telegram", telegram |-> "signals",
              signals |-> "type", type |-> "strategy"]

-----------------------------------------------------------------------------
BeginDetection(d) ==
    /\ detector[d] = "idle"
    /\ detector' = [detector EXCEPT ![d] = "cdn"]
    /\ found' = [found EXCEPT ![d] = NothingFound]
    /\ UNCHANGED <<reachable, blocked, censored, strategy>>

Advance(d) ==
    /\ detector' = [detector EXCEPT ![d] = Following[@]]
    /\ UNCHANGED <<found, begun, probes>>

(* The command's probes come one after the other.                          *)
Before == [cdn |-> {}, web |-> {"cdn"}, telegram |-> {"cdn", "web"}]

Probe(d, s) ==
    /\ detector[d] \in Signal /\ found[d][s] = "?"
    /\ d = "command" => \A x \in Before[s] : found[d][x] # "?"
    /\ found' = [found EXCEPT ![d][s] = IF net[s] THEN "yes" ELSE "no"]
    /\ UNCHANGED <<reachable, blocked, censored, strategy, detector, begun, probes>>

(* The task and the loop store a result as soon as it is there, the        *)
(* command makes all its probes first.                                     *)
StoreSignal(d) ==
    LET s == detector[d]
    IN  /\ s \in Signal
        /\ IF d = "command" THEN \A x \in Signal : found[d][x] # "?"
                            ELSE found[d][s] # "?"
        /\ reachable' = [reachable EXCEPT ![s] = found[d][s] = "yes"]
        /\ Advance(d)
        /\ UNCHANGED <<blocked, censored, strategy>>

(* The command counts what it found, the others what the fields hold.      *)
Seen(d) == IF d = "command" THEN [s \in Signal |-> found[d][s] = "yes"]
                            ELSE reachable

StoreBlocked(d) ==
    /\ detector[d] = "signals"
    /\ blocked' = Blocked(Seen(d))
    /\ Advance(d)
    /\ UNCHANGED <<reachable, censored, strategy>>

StoreType(d) ==
    /\ detector[d] = "type"
    /\ censored' = Censored(Seen(d))
    /\ Advance(d)
    /\ UNCHANGED <<reachable, blocked, strategy>>

(* wrong variant: the rounds of the adaptation thread do not choose        *)
ChooseNot(d) ==
    /\ detector[d] = "strategy"
    /\ strategy' = IF d = "command" THEN Select(blocked, censored, reachable)
                                    ELSE strategy
    /\ detector' = [detector EXCEPT ![d] = "idle"]
    /\ found' = [found EXCEPT ![d] = NothingFound]
    /\ UNCHANGED <<reachable, blocked, censored, begun, probes>>

(* The task leaves the choice to start().                                  *)
Choose(d) ==
    /\ detector[d] = "strategy"
    /\ strategy' = IF d = "start" THEN strategy
                                  ELSE Select(blocked, censored, reachable)
    /\ detector' = [detector EXCEPT ![d] = "idle"]
    /\ found' = [found EXCEPT ![d] = NothingFound]
    /\ UNCHANGED <<reachable, blocked, censored, begun, probes>>

(* start(): it submits the task and waits, but no longer than three        *)
(* seconds.                                                                *)
StartEvasion ==
    /\ begun = "no"
    /\ begun' = "waiting"
    /\ BeginDetection("start")
    /\ UNCHANGED probes

FirstChoice ==
    /\ begun = "waiting"
    /\ begun' = "done"
    /\ strategy' = Select(blocked, censored, reachable)
    /\ UNCHANGED <<reachable, blocked, censored, detector, found, probes>>

AdaptationLoop ==
    /\ begun = "done"
    /\ BeginDetection("loop")
    /\ UNCHANGED <<begun, probes>>

ProbeWithDetails ==
    /\ probes < MaxProbes
    /\ probes' = probes + 1
    /\ BeginDetection("command")
    /\ UNCHANGED begun

Detect(d) ==
    \/ \E s \in Signal : Probe(d, s)
    \/ StoreSignal(d) \/ StoreBlocked(d) \/ StoreType(d) \/ Choose(d)

EvasionInit ==
    /\ reachable = [s \in Signal |-> FALSE]
    /\ blocked = 0 /\ censored = FALSE /\ strategy = "none"
    /\ detector = [d \in Detector |-> "idle"]
    /\ found = [d \in Detector |-> NothingFound]
    /\ begun = "no" /\ probes = 0

EvasionNext ==
    \/ StartEvasion \/ FirstChoice \/ AdaptationLoop \/ ProbeWithDetails
    \/ \E d \in Detector : Detect(d)

EvasionTypeOK ==
    /\ reachable \in [Signal -> BOOLEAN]
    /\ blocked \in 0 .. 3 /\ censored \in BOOLEAN
    /\ strategy \in {"none", "reality", "splithttp", "hysteria2", "websocket"}
    /\ detector \in [Detector -> Signal \cup {"idle", "signals", "type", "strategy"}]
    /\ found \in [Detector -> [Signal -> {"?", "yes", "no"}]]
    /\ begun \in {"no", "waiting", "done"}
    /\ probes \in 0 .. MaxProbes

=============================================================================
