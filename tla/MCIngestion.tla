---------------------------- MODULE MCIngestion ----------------------------
(* Instances of Ingestion for TLC.                                         *)
EXTENDS Ingestion

CONSTANTS f1, f2

Plain ==
    [scheme |-> "vless", small |-> FALSE, user |-> TRUE, opens |-> "no",
     host |-> "ip", port |-> "good", id |-> TRUE, clean |-> TRUE,
     cipher |-> "aead", sec |-> "tls", net |-> "ws", blank |-> FALSE]

(* An ss link in the coded form and one to another name, two vless links   *)
(* to one address, and one without a user.                                 *)
a == [Plain EXCEPT !.scheme = "ss", !.user = FALSE, !.opens = "full", !.host = "name"]
b == Plain
c == [Plain EXCEPT !.net = "grpc"]
d == [Plain EXCEPT !.host = "name"]
junk == [Plain EXCEPT !.user = FALSE]

MCWild == {d}
MCSeed == {}
MCBundle == {b}

L(form, link) == [form |-> form, link |-> link]

(* A file with one link, and one with a coded link, one in prose and one   *)
(* that is not importable.                                                 *)
MCContent ==
    [f \in File |-> IF f = f1 THEN {L("link", c)}
                    ELSE {L("words", c), L("coded", a), L("link", junk)}]
MCSources == <<{L("coded", a)}, {L("link", b), L("link", junk)}>>

(* Over a part of the links: the two tests of what is importable agree,    *)
(* and what can be tested can be started (IngestionProofs has it for all). *)
Sample ==
    {[Plain EXCEPT !.scheme = s, !.user = u, !.opens = o, !.host = h, !.port = p,
                   !.cipher = k, !.sec = x, !.net = n] :
        s \in Scheme, u \in BOOLEAN, o \in {"no", "part", "full"},
        h \in {"none", "v6"}, p \in {"none", "bad", "good"},
        k \in {"aead", "old"}, x \in {"", "tls", "xtls"}, n \in {"", "ws", "kcp", "odd"}}

ASSUME SampleAssumption ==
    \A l \in Sample :
        /\ Importable(l) <=> WatcherAccepts(l)
        /\ Testable(l) => ResolveEngine(l, {"sing-box"}) = "sing-box"
        /\ ResolveEngine(l, {}) = ""

=============================================================================
