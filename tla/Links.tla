------------------------------- MODULE Links -------------------------------
(***************************************************************************)
(* What the program takes for a proxy link, what it reads out of it, and   *)
(* which engine can run it.  Three parts of the code decide these          *)
(* independently: the tests made when a link comes in, the parser used by  *)
(* everything later, and the writers of the engines' configurations.       *)
(*                                                                         *)
(* A link is the record of what these parts tell apart.                    *)
(***************************************************************************)
EXTENDS Naturals, Sequences

Scheme == {"vmess", "vless", "trojan", "ss", "ssr", "hysteria2", "hy2", "tuic",
           "other"}

Link ==
    [scheme : Scheme,
     small  : BOOLEAN,                  \* too few characters
     user   : BOOLEAN,                  \* an @ outside of base64
     opens  : {"no", "part", "full"},   \* what the base64 payload decodes to
     host   : {"none", "name", "ip", "v6"},
     port   : {"none", "bad", "good"},
     id     : BOOLEAN,                  \* a user id or a password
     clean  : BOOLEAN,                  \* no quotes or control characters
     cipher : {"aead", "old"},
     sec    : {"", "tls", "reality", "xtls"},
     net    : {"", "tcp", "raw", "ws", "grpc", "h2", "http", "httpupgrade",
               "kcp", "quic", "xhttp", "splithttp", "odd"},
     blank  : BOOLEAN]                  \* a blank in the remark

-----------------------------------------------------------------------------
(* Coming in                                                               *)

(* A vmess payload must open to an object with an address, an ss payload   *)
(* without a user part to a text with a colon.                             *)
Importable(l) ==
    /\ l.scheme # "other"
    /\ ~l.small
    /\ l.scheme = "vmess" => l.opens = "full"
    /\ l.scheme \in {"vless", "trojan"} => l.user
    /\ l.scheme = "ss" /\ ~l.user => l.opens # "no"

(* The import watcher has its own test of the same name for the same thing. *)
WatcherAccepts(l) ==
    /\ ~l.small
    /\ l.scheme # "other"
    /\ \/ l.scheme = "vmess" /\ l.opens = "full"
       \/ l.scheme \in {"vless", "trojan"} /\ l.user
       \/ l.scheme = "ss" /\ (l.user \/ l.opens \in {"part", "full"})
       \/ l.scheme \in {"ssr", "hysteria2", "hy2", "tuic"}

(* A line of a file: a link, a link with words before it, a coded link.    *)
Line == [form : {"link", "words", "coded"}, link : Link]

(* A link whose remark has a blank is also found without the rest of it.   *)
Cut(l) == [l EXCEPT !.blank = FALSE]

(* extractRawUrisFromText and tryDecodeAndExtract find links anywhere.     *)
RawUris(line) == {Cut(line.link)}

(* The watcher takes a line with :// whole: one with words before the link *)
(* is no link.                                                             *)
WatcherExtract(line) ==
    CASE line.form = "link"  -> {line.link}
      [] line.form = "words" -> {}
      [] line.form = "coded" -> RawUris(line)

(* The commands and the downloads search the whole text, too.              *)
CommandExtract(line) == WatcherExtract(line) \cup RawUris(line)

-----------------------------------------------------------------------------
(* Parsing                                                                 *)

Unparsed == [protocol |-> "", address |-> "none", clean |-> FALSE,
             cipher |-> "old", sec |-> "", net |-> ""]

(* What the parser returns for a link of protocol p.                       *)
Config(l, p, sec, net) ==
    [protocol |-> p,
     address  |-> IF l.host = "v6" /\ p # "vless" THEN "[v6]" ELSE l.host,
     clean    |-> l.clean,
     cipher   |-> l.cipher,
     sec      |-> sec,
     net      |-> IF net = "" THEN "tcp" ELSE net]

Endpoint(l) == l.host # "none" /\ l.port = "good"

ParseVmess(l) ==
    IF l.opens = "full" /\ Endpoint(l) /\ l.id
    THEN Config(l, "vmess", l.sec, l.net) ELSE Unparsed

ParseVless(l) ==
    IF l.user /\ Endpoint(l)
    THEN Config(l, "vless", l.sec, l.net) ELSE Unparsed

(* Without the parameter, trojan is taken to use TLS.                      *)
ParseTrojan(l) ==
    IF l.user /\ Endpoint(l)
    THEN Config(l, "trojan", IF l.sec = "" THEN "tls" ELSE l.sec, l.net)
    ELSE Unparsed

(* The user part may be coded, or the whole of it.                         *)
ParseShadowsocks(l) ==
    IF (l.user \/ l.opens = "full") /\ Endpoint(l)
    THEN Config(l, "shadowsocks", "", "") ELSE Unparsed

(* The port may be left out: 443.                                          *)
ParseHysteria2(l) ==
    IF l.host # "none" /\ l.port # "bad"
    THEN Config(l, "hysteria2", "tls", "") ELSE Unparsed

ParseTuic(l) ==
    IF Endpoint(l) THEN Config(l, "tuic", "tls", "") ELSE Unparsed

(* There is no parser for ssr.                                             *)
Parse(l) ==
    CASE l.scheme = "vmess"  -> ParseVmess(l)
      [] l.scheme = "vless"  -> ParseVless(l)
      [] l.scheme = "trojan" -> ParseTrojan(l)
      [] l.scheme = "ss"     -> ParseShadowsocks(l)
      [] l.scheme \in {"hysteria2", "hy2"} -> ParseHysteria2(l)
      [] l.scheme = "tuic"   -> ParseTuic(l)
      [] OTHER -> Unparsed

IsValid(c) == c.protocol # "" /\ c.address # "none" /\ c.clean

(* Links to one literal address are one endpoint; others are themselves.   *)
EndpointKey(l) ==
    LET c == Parse(l)
    IN  IF IsValid(c) /\ c.address # "name"
        THEN [address |-> c.address] ELSE [link |-> l]

(* Of a list, the first link of every endpoint.                            *)
Deduped(s) ==
    {i \in DOMAIN s : \A j \in 1 .. i - 1 : EndpointKey(s[j]) # EndpointKey(s[i])}

-----------------------------------------------------------------------------
(* Engines                                                                 *)

Engine == {"xray", "sing-box", "mihomo"}

XrayProtocols == {"vmess", "vless", "trojan", "shadowsocks"}

(* Both writers take raw for tcp.                                          *)
Transport(c) == IF c.net = "raw" THEN "tcp" ELSE c.net

(* XRay's configuration of c: the transport it uses, "" if there is none.  *)
XrayTransport(c) ==
    IF /\ c.protocol \in XrayProtocols
       /\ c.protocol = "shadowsocks" => c.cipher = "aead"
       /\ c.net \notin {"http", "odd"}
       /\ c.sec # "xtls"
    THEN Transport(c) ELSE ""

(* sing-box's writer takes every protocol, and leaves a transport it does  *)
(* not know out of the configuration: the engine then uses tcp.            *)
SingBoxTransport(c) ==
    IF c.protocol = "" THEN ""
    ELSE IF c.net \in {"ws", "grpc", "httpupgrade"} THEN c.net
    ELSE IF c.net \in {"h2", "http"} THEN "h2" ELSE "tcp"

(* Tests run XRay.                                                         *)
Testable(l) == IsValid(Parse(l)) /\ XrayTransport(Parse(l)) # ""

(* Balancers and provisioned ports run what resolveEngine returns, which   *)
(* is sing-box whatever was preferred, if its program is among those that  *)
(* are installed.                                                          *)
ResolveEngine(l, installed) ==
    IF /\ "sing-box" \in installed
       /\ IsValid(Parse(l)) /\ SingBoxTransport(Parse(l)) # ""
    THEN "sing-box" ELSE ""

=============================================================================
