------------------------------ MODULE Ranking ------------------------------
(***************************************************************************)
(* The order in which a cycle tests its links: the list is freed of        *)
(* repeated endpoints, cut, ranked by what the texts of the links say, and *)
(* cut again when memory is short.                                         *)
(*                                                                         *)
(* Both rankings search the text of a link for marks, wherever they stand. *)
(***************************************************************************)
EXTENDS Links, Integers, Functions

Fingerprint == {"fp=chrome", "fp=firefox", "fp=safari", "fp=edge", "fp=random"}

Mark == Fingerprint \cup
    {"security=reality", "security=tls", "flow=vision", "fp=",
     "type=splithttp", "type=ws", "type=grpc", "alpn=h2", "alpn=h3",
     ".workers.dev", ".pages.dev", "cloudflare"}

(* A named fingerprint is one.                                             *)
Text == {t \in [scheme : Scheme, marks : SUBSET Mark] :
             t.marks \cap Fingerprint # {} => "fp=" \in t.marks}

Strategy == {"NONE", "SPLITHTTP_CDN", "REALITY_DIRECT", "WEBSOCKET_CDN",
             "GRPC_CDN", "HYSTERIA2"}

Worth(t, mark, points) == IF mark \in t.marks THEN points ELSE 0

-----------------------------------------------------------------------------
(* With the evasion orchestrator                                           *)

(* What the strategy in force asks for.                                    *)
ForStrategy(t, strategy) ==
    IF strategy = "REALITY_DIRECT" THEN
        Worth(t, "security=reality", 100) + Worth(t, "flow=vision", 30)
            + (IF t.scheme = "vless" THEN 50 ELSE 0)
    ELSE IF strategy = "SPLITHTTP_CDN" THEN
        Worth(t, "type=splithttp", 100) + Worth(t, "type=ws", 80)
            + Worth(t, "type=grpc", 70)
    ELSE IF strategy = "WEBSOCKET_CDN" THEN
        Worth(t, "type=ws", 100) + Worth(t, "type=grpc", 80)
    ELSE IF strategy = "GRPC_CDN" THEN
        Worth(t, "type=grpc", 100)
    ELSE IF strategy = "HYSTERIA2" /\ t.scheme \in {"hysteria2", "hy2"} THEN 100
    ELSE 0

(* The first fingerprint found counts; having none costs, unless Reality   *)
(* brings its own.                                                         *)
ForFingerprint(t) ==
    IF "fp=chrome" \in t.marks THEN 25
    ELSE IF "fp=firefox" \in t.marks THEN 22
    ELSE IF "fp=safari" \in t.marks THEN 20
    ELSE IF "fp=edge" \in t.marks THEN 18
    ELSE IF "fp=random" \in t.marks THEN 15
    ELSE IF "fp=" \in t.marks THEN 5
    ELSE IF "security=reality" \in t.marks THEN 0
    ELSE -10

ForTransport(t) ==
    Worth(t, "security=tls", 10) + Worth(t, "security=reality", 15)
        + (IF "alpn=h2" \in t.marks THEN 15 ELSE Worth(t, "alpn=h3", 12))
        + Worth(t, "flow=vision", 20)

ForFront(t) ==
    Worth(t, ".workers.dev", 20) + Worth(t, ".pages.dev", 18)
        + Worth(t, "cloudflare", 15)

Score(t, strategy) ==
    ForStrategy(t, strategy) + ForFingerprint(t) + ForTransport(t) + ForFront(t)

-----------------------------------------------------------------------------
(* Without it                                                              *)

PlainScore(t) ==
    Worth(t, "security=reality", 100) + Worth(t, "type=grpc", 30)
        + Worth(t, "type=ws", 25) + Worth(t, "type=splithttp", 35)
        + Worth(t, "security=tls", 20) + Worth(t, "fp=", 10)
        + (IF t.scheme = "vless" THEN 50
           ELSE IF t.scheme = "trojan" THEN 40
           ELSE IF t.scheme \in {"hysteria2", "hy2"} THEN 45
           ELSE 0)

-----------------------------------------------------------------------------
(* std::sort: equal scores may come in any order.                          *)
Ranking(s, score) ==
    {[i \in 1 .. Len(s) |-> s[p[i]]] :
        p \in {q \in Bijection(1 .. Len(s), 1 .. Len(s)) :
                  \A i, j \in 1 .. Len(s) : i < j => score[q[i]] >= score[q[j]]}}

ByStrategy(s, strategy) ==
    Ranking(s, [i \in 1 .. Len(s) |-> Score(s[i], strategy)])

Plainly(s) == Ranking(s, [i \in 1 .. Len(s) |-> PlainScore(s[i])])

Upto(s, n) == SubSeq(s, 1, IF Len(s) > n THEN n ELSE Len(s))

(* The most a cycle tests when memory is short.                            *)
Pressed == 40

(* The lists a cycle may test out of s, a list without repeated endpoints; *)
(* evading: the evasion orchestrator is there.                             *)
TestList(s, maxTotal, evading, strategy, short) ==
    LET cut == Upto(s, maxTotal)
    IN  {Upto(r, IF short THEN Pressed ELSE Len(r)) :
            r \in IF evading THEN ByStrategy(cut, strategy) ELSE Plainly(cut)}

-----------------------------------------------------------------------------
(* Over a restart                                                          *)

(* Latencies are written to the balancers' cache files as decimal numbers; *)
(* below: their whole milliseconds, and whether a fraction follows.        *)
Latency == 0 .. 9999

(* loadBalancerCache goes one character too far to the number: its first   *)
(* digit is lost, and where it was the only character the default stands.  *)
Reload(whole, fraction) ==
    IF whole < 10 THEN IF fraction THEN 0 ELSE 999
    ELSE IF whole < 100 THEN whole % 10
    ELSE IF whole < 1000 THEN whole % 100
    ELSE whole % 1000

(* The balancers start with what the file gives, the smallest first.       *)
Reloaded(s) == [i \in DOMAIN s |-> [s[i] EXCEPT !.latency = Reload(@, s[i].fraction)]]
=============================================================================
