-------------------------- MODULE IngestionProofs --------------------------
(***************************************************************************)
(* What the separate tests and writers of Links have in common, for every  *)
(* link there is; what the ranking of Ranking puts first; and what holds   *)
(* of Ingestion for any links, files, sources and batches, any             *)
(* number of ends of the process and wherever they come.                   *)
(*                                                                         *)
(* Shape is the type invariant with the types of the records' fields.  The *)
(* three properties are proved apart: each is inductive with Shape once a  *)
(* part is added to it that says what the steps on the way rely on.        *)
(***************************************************************************)
EXTENDS Ingestion, Ranking, FiniteSetTheorems, TLAPS

(* The import watcher takes exactly the links the commands and downloads   *)
(* take, although each has a test of its own (isValidConfig of the watcher,*)
(* isImportableProxyUri of the orchestrator).                              *)
THEOREM WatcherAgrees ==
    \A l \in Link : Importable(l) <=> WatcherAccepts(l)
<1> SUFFICES ASSUME NEW l \in Link
             PROVE  Importable(l) <=> WatcherAccepts(l)
  OBVIOUS
<1>1. l.scheme \in Scheme /\ l.opens \in {"no", "part", "full"}
  BY DEF Link
<1> QED  BY <1>1 DEF Importable, WatcherAccepts, Scheme

-----------------------------------------------------------------------------
(* What the parser makes of a link                                         *)

LEMMA ParseCases ==
    ASSUME NEW l \in Link
    PROVE  /\ l.scheme = "vmess" => Parse(l) = ParseVmess(l)
           /\ l.scheme = "vless" => Parse(l) = ParseVless(l)
           /\ l.scheme = "trojan" => Parse(l) = ParseTrojan(l)
           /\ l.scheme = "ss" => Parse(l) = ParseShadowsocks(l)
           /\ l.scheme \in {"hysteria2", "hy2"} => Parse(l) = ParseHysteria2(l)
           /\ l.scheme = "tuic" => Parse(l) = ParseTuic(l)
           /\ l.scheme \in {"ssr", "other"} => Parse(l) = Unparsed
<1>1. l.scheme = "vmess" => Parse(l) = ParseVmess(l)
  BY Zenon DEF Parse
<1>2. l.scheme = "vless" => Parse(l) = ParseVless(l)
  BY Zenon DEF Parse
<1>3. l.scheme = "trojan" => Parse(l) = ParseTrojan(l)
  BY Zenon DEF Parse
<1>4. l.scheme = "ss" => Parse(l) = ParseShadowsocks(l)
  BY Zenon DEF Parse
<1>5. l.scheme \in {"hysteria2", "hy2"} => Parse(l) = ParseHysteria2(l)
  BY Zenon DEF Parse
<1>6. l.scheme = "tuic" => Parse(l) = ParseTuic(l)
  BY Zenon DEF Parse
<1>7. l.scheme \in {"ssr", "other"} => Parse(l) = Unparsed
  BY Zenon DEF Parse
<1> QED  BY <1>1, <1>2, <1>3, <1>4, <1>5, <1>6, <1>7

(* A link that the tests, which run XRay, find alive the balancers and     *)
(* ports can run, provided sing-box's program is installed: no link is     *)
(* dropped because its writer has no configuration for it, and without the *)
(* program none is run (toXrayOutboundJson, resolveEngine,                 *)
(* isEngineAvailable).                                                     *)
THEOREM TestedRuns ==
    \A l \in Link : \A installed \in SUBSET Engine :
        Testable(l) => ResolveEngine(l, installed) =
                           IF "sing-box" \in installed THEN "sing-box" ELSE ""
<1> SUFFICES ASSUME NEW l \in Link, NEW installed \in SUBSET Engine, Testable(l)
             PROVE  ResolveEngine(l, installed) =
                        IF "sing-box" \in installed THEN "sing-box" ELSE ""
  OBVIOUS
<1>1. IsValid(Parse(l)) /\ Parse(l).protocol # ""
  BY DEF Testable, IsValid
<1>2. SingBoxTransport(Parse(l)) # ""
  BY <1>1 DEF SingBoxTransport
<1> QED  BY <1>1, <1>2 DEF ResolveEngine

(* The converse fails for the protocols XRay has no writer for: such a     *)
(* link is stored and can be run, but no test ever finds it alive.         *)
THEOREM NeverTested ==
    \A l \in Link : l.scheme \in {"ssr", "hysteria2", "hy2", "tuic"} => ~Testable(l)
<1> SUFFICES ASSUME NEW l \in Link, l.scheme \in {"ssr", "hysteria2", "hy2", "tuic"}
             PROVE  ~Testable(l)
  OBVIOUS
<1>1. Parse(l).protocol \notin XrayProtocols
  <2>1. \/ Parse(l) = Unparsed
        \/ Parse(l) = ParseHysteria2(l)
        \/ Parse(l) = ParseTuic(l)
    BY ParseCases
  <2>2. Unparsed.protocol \notin XrayProtocols
    BY DEF Unparsed, XrayProtocols
  <2>3. ParseHysteria2(l).protocol \notin XrayProtocols
    BY DEF ParseHysteria2, Unparsed, Config, XrayProtocols
  <2>4. ParseTuic(l).protocol \notin XrayProtocols
    BY DEF ParseTuic, Unparsed, Config, XrayProtocols
  <2> QED  BY <2>1, <2>2, <2>3, <2>4
<1> QED  BY <1>1 DEF Testable, XrayTransport

(* A link found alive is served over the transport it was tested over, if  *)
(* that is not one of the four that XRay's writer knows and sing-box's     *)
(* leaves out.                                                             *)
THEOREM ServedAsTested ==
    \A l \in Link :
        /\ Testable(l)
        /\ XrayTransport(Parse(l)) \notin {"kcp", "quic", "xhttp", "splithttp"}
        => SingBoxTransport(Parse(l)) = XrayTransport(Parse(l))
<1> SUFFICES ASSUME NEW l \in Link, Testable(l),
                    XrayTransport(Parse(l)) \notin {"kcp", "quic", "xhttp", "splithttp"}
             PROVE  SingBoxTransport(Parse(l)) = XrayTransport(Parse(l))
  OBVIOUS
<1> DEFINE c == Parse(l)
           nets == {"tcp", "raw", "ws", "grpc", "h2", "http", "httpupgrade",
                    "kcp", "quic", "xhttp", "splithttp", "odd"}
<1>1. /\ XrayTransport(c) = Transport(c)
      /\ c.net \notin {"http", "odd"} /\ c.protocol # "" /\ IsValid(c)
  BY DEF Testable, XrayTransport, IsValid
<1>2. c.net \in nets
  <2>1. l.net \in nets \cup {""}
    BY DEF Link
  <2>2. ~IsValid(Unparsed)
    BY DEF IsValid, Unparsed
  <2>3. /\ ParseVmess(l) # Unparsed => ParseVmess(l).net = IF l.net = "" THEN "tcp" ELSE l.net
        /\ ParseVless(l) # Unparsed => ParseVless(l).net = IF l.net = "" THEN "tcp" ELSE l.net
    BY DEF ParseVmess, ParseVless, Config
  <2>4. /\ ParseTrojan(l) # Unparsed => ParseTrojan(l).net = IF l.net = "" THEN "tcp" ELSE l.net
        /\ ParseShadowsocks(l) # Unparsed => ParseShadowsocks(l).net = "tcp"
    BY DEF ParseTrojan, ParseShadowsocks, Config
  <2>5. l.scheme \in {"vmess", "vless", "trojan", "ss"}
    <3>1. l.scheme # "other"
      BY <1>1, <2>2, ParseCases
    <3> QED  BY <3>1, NeverTested DEF Link, Scheme
  <2>6. \/ c = ParseVmess(l) \/ c = ParseVless(l)
        \/ c = ParseTrojan(l) \/ c = ParseShadowsocks(l)
    BY <2>5, ParseCases
  <2>7. c.net = "tcp" \/ c.net = (IF l.net = "" THEN "tcp" ELSE l.net)
    BY <1>1, <2>2, <2>3, <2>4, <2>6
  <2> QED  BY <2>1, <2>7
<1> HIDE DEF c
<1>3. Transport(c) \notin {"kcp", "quic", "xhttp", "splithttp"}
  BY <1>1 DEF c
<1>4. c.net \in {"tcp", "raw", "ws", "grpc", "h2", "httpupgrade"}
  BY <1>1, <1>2, <1>3 DEF Transport
<1>5. SingBoxTransport(c) = Transport(c)
  BY <1>1, <1>4 DEF SingBoxTransport, Transport
<1> QED  BY <1>1, <1>5 DEF c

-----------------------------------------------------------------------------
(* The ranking                                                             *)

(* The marks a REALITY_DIRECT network asks for outweigh all the others.    *)
LEMMA VisionScore ==
    ASSUME NEW t \in Text, t.scheme = "vless",
           "security=reality" \in t.marks, "flow=vision" \in t.marks
    PROVE  Score(t, "REALITY_DIRECT") \in Int /\ Score(t, "REALITY_DIRECT") >= 215
<1>1. ForStrategy(t, "REALITY_DIRECT") = 180
  BY DEF ForStrategy, Worth
<1>2. ForFingerprint(t) \in 0 .. 25
  BY DEF ForFingerprint
<1>3. ForTransport(t) \in Nat /\ ForTransport(t) >= 35
  BY DEF ForTransport, Worth
<1>4. ForFront(t) \in Nat
  BY DEF ForFront, Worth
<1> QED  BY <1>1, <1>2, <1>3, <1>4 DEF Score

LEMMA OtherScore ==
    ASSUME NEW t \in Text, "security=reality" \notin t.marks
    PROVE  Score(t, "REALITY_DIRECT") \in Int /\ Score(t, "REALITY_DIRECT") <= 203
<1>1. ForStrategy(t, "REALITY_DIRECT") \in 0 .. 80
  BY DEF ForStrategy, Worth
<1>2. ForFingerprint(t) \in Int /\ ForFingerprint(t) <= 25
  BY DEF ForFingerprint
<1>3. ForTransport(t) \in 0 .. 45
  BY DEF ForTransport, Worth
<1>4. ForFront(t) \in 0 .. 53
  BY DEF ForFront, Worth
<1>5. \A a, b, c, d \in Int :
          a <= 80 /\ b <= 25 /\ c <= 45 /\ d <= 53 =>
              a + b + c + d \in Int /\ a + b + c + d <= 203
  OBVIOUS
<1>6. ForStrategy(t, "REALITY_DIRECT") \in Int /\ ForStrategy(t, "REALITY_DIRECT") <= 80
  BY <1>1
<1>7. ForTransport(t) \in Int /\ ForTransport(t) <= 45
  BY <1>3
<1>8. ForFront(t) \in Int /\ ForFront(t) <= 53
  BY <1>4
<1> QED  BY <1>2, <1>5, <1>6, <1>7, <1>8 DEF Score

(* While the network calls for REALITY_DIRECT, a VLESS Reality link with   *)
(* the vision flow is tested before every link that is not Reality,        *)
(* whatever fingerprint, transport and front that one boasts (scoreConfig, *)
(* prioritizeConfigsForStrategy).                                          *)
THEOREM RealityFirst ==
    ASSUME NEW s \in Seq(Text), NEW r \in ByStrategy(s, "REALITY_DIRECT"),
           NEW i \in 1 .. Len(s), NEW j \in 1 .. Len(s),
           r[i].scheme = "vless",
           "security=reality" \in r[i].marks, "flow=vision" \in r[i].marks,
           "security=reality" \notin r[j].marks
    PROVE  i < j
<1> DEFINE score == [k \in 1 .. Len(s) |-> Score(s[k], "REALITY_DIRECT")]
<1>1. PICK p \in Bijection(1 .. Len(s), 1 .. Len(s)) :
         /\ \A a, b \in 1 .. Len(s) : a < b => score[p[a]] >= score[p[b]]
         /\ r = [k \in 1 .. Len(s) |-> s[p[k]]]
  BY DEF ByStrategy, Ranking
<1>2. p[i] \in 1 .. Len(s) /\ p[j] \in 1 .. Len(s)
  BY <1>1 DEF Bijection, Injection
<1>3. r[i] = s[p[i]] /\ r[j] = s[p[j]] /\ r[i] \in Text /\ r[j] \in Text
  BY <1>1, <1>2
<1>4. score[p[i]] \in Int /\ score[p[i]] >= 215
  BY <1>2, <1>3, VisionScore
<1>5. score[p[j]] \in Int /\ score[p[j]] <= 203
  BY <1>2, <1>3, OtherScore
<1>6. ~(score[p[j]] >= score[p[i]])
  BY <1>4, <1>5
<1>7. i # j
  BY <1>6, <1>4
<1>8. ~(j < i)
  BY <1>1, <1>6
<1> QED  BY <1>7, <1>8

-----------------------------------------------------------------------------
(* No latency is after a restart what it was before, unless it was below a *)
(* millisecond: what the balancers and ports take for the fastest link     *)
(* then is not the one that was (saveBalancerCache, loadBalancerCache).    *)
THEOREM NoLatencySurvives ==
    \A n \in Latency \ {0}, fraction \in BOOLEAN :
        /\ Reload(n, fraction) # n
        /\ n >= 10 => Reload(n, fraction) < n
<1> SUFFICES ASSUME NEW n \in Latency \ {0}, NEW fraction \in BOOLEAN
             PROVE  /\ Reload(n, fraction) # n
                    /\ n >= 10 => Reload(n, fraction) < n
  OBVIOUS
<1>1. n \in Int /\ n > 0
  BY DEF Latency
<1>2. n % 10 \in 0 .. 9 /\ n % 100 \in 0 .. 99 /\ n % 1000 \in 0 .. 999
  BY <1>1
<1>3. CASE n < 10
  BY <1>1, <1>3 DEF Reload
<1>4. CASE n >= 10
  BY <1>1, <1>2, <1>4 DEF Reload
<1> QED  BY <1>1, <1>3, <1>4

-----------------------------------------------------------------------------
(* Ingestion                                                               *)

ScanShape == scan \in [at : {"idle", "read"}, left : SUBSET inbox, valid : SUBSET seen]

CmdPlace == {"idle", "add", "save", "recheck", "recheckPaused"}

CmdShape ==
    /\ cmd \in [at : CmdPlace, left : SUBSET Valid, all : SUBSET Valid]
    /\ cmd.left \subseteq cmd.all

Task ==
    [at : {"idle", "claim", "probe", "get", "save"},
     next : 0 .. Len(Sources) + 1,
     got : SUBSET Valid,
     good : BOOLEAN]

DlShape ==
    /\ dl \in [Downloader -> Task]
    /\ \A d \in Downloader : dl[d].at \in {"get", "save"} => dl[d].next > 0

SetShape ==
    /\ db \subseteq Valid /\ Fits(db)
    /\ disk \subseteq Valid /\ Fits(disk)
    /\ inbox \subseteq File /\ done \subseteq File
    /\ seen \subseteq Valid /\ told \subseteq Valid
    /\ kept \subseteq Valid /\ gone \subseteq Valid

FlagShape ==
    /\ flag \in BOOLEAN /\ fresh \in BOOLEAN
    /\ online \in BOOLEAN /\ paused \in BOOLEAN /\ stopping \in BOOLEAN
    /\ count \in 0 .. MaxEvents

Shape == SetShape /\ FlagShape /\ ScanShape /\ CmdShape /\ DlShape

-----------------------------------------------------------------------------
(* Lines                                                                   *)

(* A line with nothing before its link gives the watcher that link.        *)
LEMMA WholeLine ==
    ASSUME NEW n \in Line, n.form = "link"
    PROVE  WatcherExtract(n) = {n.link}
  BY Zenon DEF WatcherExtract

(* What is read out of a line is a link.                                   *)
LEMMA LinesHoldLinks ==
    ASSUME NEW n \in Line
    PROVE  WatcherExtract(n) \subseteq Link /\ CommandExtract(n) \subseteq Link
<1>1. n.link \in Link /\ n.form \in {"link", "words", "coded"}
  BY DEF Line
<1>2. Cut(n.link) \in Link
  BY <1>1 DEF Cut, Link
<1>3. RawUris(n) \subseteq Link
  BY <1>2 DEF RawUris
<1>4. WatcherExtract(n) \in {{n.link}, {}, RawUris(n)}
  <2>1. n.form = "link" => WatcherExtract(n) = {n.link}
    BY Zenon DEF WatcherExtract
  <2>2. n.form = "words" => WatcherExtract(n) = {}
    BY Zenon DEF WatcherExtract
  <2>3. n.form = "coded" => WatcherExtract(n) = RawUris(n)
    BY Zenon DEF WatcherExtract
  <2> QED
    BY <1>1, <2>1, <2>2, <2>3
<1> QED
  BY <1>1, <1>3, <1>4 DEF CommandExtract

(* Whatever is taken, by the watcher's test or the other, is importable.   *)
LEMMA TakenAreValid ==
    ASSUME NEW lines \in SUBSET Line
    PROVE  Watched(lines) \subseteq Valid /\ Found(lines) \subseteq Valid
  BY LinesHoldLinks, WatcherAgrees DEF Watched, Found, Valid

(* The watcher takes every importable link with a line of its own.         *)
LEMMA OwnLineWatched ==
    ASSUME NEW lines \in SUBSET Line, NEW n \in lines,
           n.form = "link", Importable(n.link)
    PROVE  n.link \in Watched(lines)
<1>1. n.link \in Link
  BY DEF Line
<1>2. WatcherExtract(n) = {n.link}
  BY WholeLine
<1>3. WatcherAccepts(n.link)
  BY <1>1, WatcherAgrees
<1> QED
  BY <1>2, <1>3 DEF Watched

-----------------------------------------------------------------------------
(* The database                                                            *)

(* A part of what fits into the database fits.                             *)
LEMMA PartFits ==
    ASSUME NEW links, NEW part \in SUBSET links, Fits(links)
    PROVE  Fits(part)
<1>1. IsFiniteSet(part) /\ Cardinality(part) <= Cardinality(links)
  BY FS_Subset DEF Fits
<1>2. Cardinality(links) \in Nat /\ Cardinality(part) \in Nat /\ MaxSize \in Nat
  BY <1>1, FS_CardinalityType, IngestionAssumption DEF Fits
<1> QED
  BY <1>1, <1>2 DEF Fits

LEMMA InsertionFits ==
    ASSUME NEW held \in SUBSET Valid, NEW links \in SUBSET Valid,
           NEW e \in Insertions(held, links)
    PROVE  e \subseteq Valid /\ Fits(e)
  BY DEF Insertions

(* What a start loads are importable links, and they fit.                  *)
LEMMA LoadedFits ==
    ASSUME NEW left \in SUBSET Valid, NEW e \in Loaded(left)
    PROVE  e \subseteq Valid /\ Fits(e)
<1>1. /\ Seed \in SUBSET Valid /\ Bundle \in SUBSET Valid
      /\ {} \in SUBSET Valid
  BY IngestionAssumption
<1>2. PICK d \in Insertions(left, Seed) :
         e \in IF d = {} THEN Insertions({}, Bundle) ELSE {d}
  BY DEF Loaded
<1>3. CASE d = {}
  BY <1>1, <1>2, <1>3, InsertionFits
<1>4. CASE d # {}
  <2>1. e = d
    BY <1>2, <1>4
  <2> QED
    BY <1>1, <2>1, InsertionFits
<1> QED
  BY <1>3, <1>4

(* No endpoint disappears without a trace.                                 *)
LEMMA TraceLeft ==
    ASSUME NEW links, gone' = Without(gone \cup db \cup links, Keys(db'))
    PROVE  Keys(gone \cup db \cup links) \subseteq Keys(db' \cup gone')
<1> SUFFICES ASSUME NEW l \in gone \cup db \cup links
             PROVE  EndpointKey(l) \in Keys(db' \cup gone')
  BY DEF Keys
<1>1. CASE EndpointKey(l) \in Keys(db')
  BY <1>1 DEF Keys
<1>2. CASE EndpointKey(l) \notin Keys(db')
  <2>1. l \in gone'
    BY <1>2 DEF Without
  <2> QED
    BY <2>1 DEF Keys
<1> QED
  BY <1>1, <1>2

(* The sources hold importable links.                                      *)
LEMMA SourceValid ==
    ASSUME NEW i \in 1 .. Len(Sources)
    PROVE  Found(Sources[i]) \subseteq Valid
<1>1. Sources[i] \in SUBSET Line
  BY IngestionAssumption
<1> QED
  BY <1>1, TakenAreValid

-----------------------------------------------------------------------------
(* The steps, by what they are about: the user's files and commands, the   *)
(* downloads, and the process.                                             *)

UserStep ==
    \/ \E f \in File : Drop(f) \/ ProcessFile(f) \/ ImportFile(f)
    \/ ListFiles \/ StoreScan
    \/ \E b \in SUBSET cmd.left : ImportBatch(b)
    \/ \E u \in db : RemoveUri(u)
    \/ \E u \in Wild : Harvest(u)
    \/ SaveRemoval \/ LoadRawFiles \/ LoadBundleFiles \/ BeginRecheck

LoadStep ==
    \/ GithubBegin \/ GithubDue
    \/ PostCommand \/ PostRecheck
    \/ \E d \in Downloader : Download(d)

QuietStep ==
    \/ PeriodicSave \/ Pause \/ Resume \/ Stop \/ Network \/ UNCHANGED vars

EndStep == End \/ \E written \in SUBSET db : CrashInSave(written)

LEMMA Steps ==
    ASSUME [Next]_vars
    PROVE  UserStep \/ LoadStep \/ QuietStep \/ EndStep
  BY DEF Next, UserStep, LoadStep, QuietStep, EndStep

LEMMA SourcesSeq == Len(Sources) \in Nat
  BY IngestionAssumption

(* An end of the process leaves a part of the database in the file, and    *)
(* the start after it reads nothing else.                                  *)
LEMMA EndLeaves ==
    ASSUME Shape, EndStep
    PROVE  \E left \in SUBSET Valid : Fits(left) /\ Restart(left)
<1>1. CASE End
  BY <1>1 DEF End, Shape, SetShape
<1>2. ASSUME NEW written \in SUBSET db, CrashInSave(written)
      PROVE  written \in SUBSET Valid /\ Fits(written) /\ Restart(written)
  BY <1>2, PartFits DEF CrashInSave, Shape, SetShape
<1> QED
  BY <1>1, <1>2 DEF EndStep

(* The sets stay sets of importable links and of files.                    *)
LEMMA SetStep ==
    ASSUME Shape, [Next]_vars
    PROVE  SetShape'
<1> USE DEF Shape, SetShape, userVars, ghosts
<1>0. ASSUME NEW links \in SUBSET Valid, NEW offer \in SUBSET Valid,
             db' \in Insertions(db, offer), Loses(links),
             UNCHANGED <<disk, inbox, done, seen>>, told' \subseteq Valid
      PROVE  SetShape'
  <2>1. db' \subseteq Valid /\ Fits(db')
    BY <1>0, InsertionFits
  <2>2. kept' \subseteq Valid /\ gone' \subseteq Valid
    BY <1>0 DEF Loses, Without
  <2> QED
    BY <1>0, <2>1, <2>2 DEF Fits
<1>1. CASE UserStep
  <2>1. ASSUME NEW f \in File, Drop(f) \/ ProcessFile(f)
        PROVE  SetShape'
    <3>1. Content[f] \in SUBSET Line
      BY IngestionAssumption
    <3>2. Watched(Content[f]) \subseteq Valid
      BY <3>1, TakenAreValid
    <3> QED
      BY <2>1, <3>2 DEF Drop, ProcessFile, Fits
  <2>2. ASSUME NEW f \in File, ImportFile(f)
        PROVE  SetShape'
    BY <2>2 DEF ImportFile, Fits
  <2>3. CASE ListFiles \/ SaveRemoval \/ BeginRecheck
    BY <2>3 DEF ListFiles, SaveRemoval, BeginRecheck, Fits
  <2>4. CASE StoreScan
    <3>1. scan.valid \in SUBSET Valid
      BY DEF ScanShape
    <3> QED
      BY <1>0, <2>4, <3>1 DEF StoreScan
  <2>5. ASSUME NEW b \in SUBSET cmd.left, ImportBatch(b)
        PROVE  SetShape'
    <3>1. b \in SUBSET Valid /\ cmd.all \subseteq Valid
      BY DEF CmdShape
    <3>2. told' \subseteq Valid
      BY <2>5, <3>1 DEF ImportBatch
    <3> QED
      BY <1>0, <2>5, <3>1, <3>2 DEF ImportBatch
  <2>6. ASSUME NEW u \in db, RemoveUri(u)
        PROVE  SetShape'
    <3>1. db' \subseteq db
      BY <2>6 DEF RemoveUri, Without
    <3>2. Fits(db')
      BY <3>1, PartFits
    <3>3. kept' \subseteq Valid /\ gone' \subseteq Valid
      BY <2>6 DEF RemoveUri, Loses, Without
    <3> QED
      BY <2>6, <3>1, <3>2, <3>3 DEF RemoveUri, Fits
  <2>7. ASSUME NEW u \in Wild, Harvest(u)
        PROVE  SetShape'
    <3>1. {u} \in SUBSET Valid /\ {} \in SUBSET Valid
      BY IngestionAssumption
    <3> QED
      BY <1>0, <2>7, <3>1 DEF Harvest
  <2>8. CASE LoadRawFiles \/ LoadBundleFiles
    <3>1. Seed \in SUBSET Valid /\ Bundle \in SUBSET Valid /\ {} \in SUBSET Valid
      BY IngestionAssumption
    <3> QED
      BY <1>0, <2>8, <3>1 DEF LoadRawFiles, LoadBundleFiles, AddFiles,
        BeginRecheck
  <2> QED
    BY <1>1, <2>1, <2>2, <2>3, <2>4, <2>5, <2>6, <2>7, <2>8 DEF UserStep
<1>2. CASE LoadStep
  <2>1. CASE GithubBegin \/ GithubDue \/ PostCommand \/ PostRecheck
    BY <2>1 DEF GithubBegin, GithubDue, PostCommand, PostRecheck, Fits
  <2>2. ASSUME NEW d \in Downloader, Claim(d) \/ Probe(d) \/ EndDownload(d)
        PROVE  SetShape'
    BY <2>2 DEF Claim, Probe, EndDownload, Fits
  <2>3. ASSUME NEW d \in Downloader, GetSource(d)
        PROVE  SetShape'
    <3>1. dl[d].next \in 1 .. Len(Sources)
      BY <2>3, SourcesSeq DEF GetSource, DlShape, Task
    <3>2. Found(Sources[dl[d].next]) \in SUBSET Valid /\ {} \in SUBSET Valid
      BY <3>1, SourceValid
    <3>3. UNCHANGED <<disk, inbox, done, seen, told>>
      BY <2>3 DEF GetSource
    <3>4. CASE online
      BY <1>0, <2>3, <3>2, <3>3, <3>4 DEF GetSource
    <3>5. CASE ~online
      BY <2>3, <3>3, <3>5 DEF GetSource, Fits
    <3> QED
      BY <3>4, <3>5
  <2>4. ASSUME NEW d \in Downloader, SaveDownload(d)
        PROVE  SetShape'
    BY <2>4 DEF SaveDownload, Fits
  <2> QED
    BY <1>2, <2>1, <2>2, <2>3, <2>4 DEF LoadStep, Download
<1>3. CASE QuietStep
  BY <1>3 DEF QuietStep, PeriodicSave, Pause, Resume, Stop,
              Network, vars, Fits
<1>4. CASE EndStep
  <2>1. PICK left \in SUBSET Valid : Fits(left) /\ Restart(left)
    BY <1>4, EndLeaves
  <2>2. disk' = left /\ db' \in Loaded(left)
    BY <2>1 DEF Restart
  <2>3. db' \subseteq Valid /\ Fits(db')
    BY <2>2, LoadedFits
  <2>4. scan.valid \subseteq Valid
    BY DEF ScanShape
  <2>5. kept' \subseteq Valid /\ gone' \subseteq Valid
    BY <2>1, <2>4 DEF Restart, Without
  <2>6. UNCHANGED <<inbox, done, told>> /\ seen' = {}
    BY <2>1 DEF Restart
  <2> QED
    BY <2>1, <2>2, <2>3, <2>5, <2>6 DEF Fits
<1> QED
  BY <1>1, <1>2, <1>3, <1>4, Steps

(* The watcher's scan works on files that are still in the folder, and     *)
(* what it has collected it has seen.                                      *)
LEMMA ScanStep ==
    ASSUME Shape, [Next]_vars
    PROVE  ScanShape'
<1> USE DEF Shape, ScanShape, userVars
<1>1. CASE UserStep
  <2>1. ASSUME NEW f \in File, Drop(f)
        PROVE  ScanShape'
    BY <2>1 DEF Drop
  <2>2. ASSUME NEW f \in File, ProcessFile(f)
        PROVE  ScanShape'
    BY <2>2 DEF ProcessFile
  <2>3. CASE ListFiles
    BY <2>3 DEF ListFiles
  <2>4. CASE StoreScan
    BY <2>4 DEF StoreScan, NoScan
  <2>5. CASE UNCHANGED <<scan, inbox, seen>>
    BY <2>5
  <2> QED
    BY <1>1, <2>1, <2>2, <2>3, <2>4, <2>5
    DEF UserStep, ImportFile, ImportBatch, RemoveUri, Harvest, SaveRemoval,
        LoadRawFiles, LoadBundleFiles, AddFiles,
        BeginRecheck
<1>2. CASE LoadStep
  BY <1>2 DEF LoadStep, GithubBegin, GithubDue, PostCommand, PostRecheck, Download,
              Claim, Probe, GetSource, SaveDownload, EndDownload
<1>3. CASE QuietStep
  BY <1>3 DEF QuietStep, PeriodicSave, Pause, Resume, Stop,
              Network, vars
<1>4. CASE EndStep
  <2>1. PICK left \in SUBSET Valid : Fits(left) /\ Restart(left)
    BY <1>4, EndLeaves
  <2> QED
    BY <2>1 DEF Restart, NoScan
<1> QED
  BY <1>1, <1>2, <1>3, <1>4, Steps

(* The command in progress has valid links, and fewer of them left.        *)
LEMMA CmdStep ==
    ASSUME Shape, [Next]_vars
    PROVE  CmdShape'
<1> USE DEF Shape, CmdShape, CmdPlace, userVars
<1>1. CASE UserStep
  <2>1. ASSUME NEW f \in File, ImportFile(f)
        PROVE  CmdShape'
    <3>1. Content[f] \in SUBSET Line
      BY IngestionAssumption
    <3>2. Found(Content[f]) \subseteq Valid
      BY <3>1, TakenAreValid
    <3> QED
      BY <2>1, <3>2 DEF ImportFile
  <2>2. ASSUME NEW b \in SUBSET cmd.left, ImportBatch(b)
        PROVE  CmdShape'
    BY <2>2 DEF ImportBatch, NoCommand
  <2>3. ASSUME NEW u \in db, RemoveUri(u)
        PROVE  CmdShape'
    BY <2>3 DEF RemoveUri, NoCommand
  <2>4. CASE SaveRemoval \/ BeginRecheck
    BY <2>4 DEF SaveRemoval, BeginRecheck, NoCommand, CmdPlace
  <2>5. CASE UNCHANGED cmd
    BY <2>5
  <2> QED
    BY <1>1, <2>1, <2>2, <2>3, <2>4, <2>5
    DEF UserStep, Drop, ProcessFile, ListFiles, StoreScan, Harvest,
        LoadRawFiles, LoadBundleFiles, AddFiles,
        BeginRecheck
<1>2. CASE LoadStep
  <2>1. CASE PostRecheck
    BY <2>1 DEF PostRecheck, NoCommand
  <2>2. CASE UNCHANGED cmd
    BY <2>2
  <2> QED
    BY <1>2, <2>1, <2>2
    DEF LoadStep, GithubBegin, GithubDue, PostCommand, Download,
        Claim, Probe, GetSource, SaveDownload, EndDownload
<1>3. CASE QuietStep
  BY <1>3 DEF QuietStep, PeriodicSave, Pause, Resume, Stop,
              Network, vars
<1>4. CASE EndStep
  <2>1. PICK left \in SUBSET Valid : Fits(left) /\ Restart(left)
    BY <1>4, EndLeaves
  <2> QED
    BY <2>1 DEF Restart, NoCommand
<1> QED
  BY <1>1, <1>2, <1>3, <1>4, Steps

(* The flags are flags, the events are counted up to the bound.            *)
LEMMA CountStep ==
    ASSUME Shape, [Next]_vars
    PROVE  count' \in 0 .. MaxEvents
<1>1. count' = count \/ (count < MaxEvents /\ count' = count + 1)
  <2>1. UserStep => count' = count \/ Event
    BY DEF UserStep, Drop, ProcessFile, ImportFile, ListFiles, StoreScan, ImportBatch,
           RemoveUri, Harvest, SaveRemoval, LoadRawFiles, LoadBundleFiles, AddFiles,
        BeginRecheck
  <2>2. LoadStep => count' = count \/ Event
    BY DEF LoadStep, GithubBegin, GithubDue, PostCommand, PostRecheck, Download,
           Claim, Probe, GetSource, SaveDownload, EndDownload
  <2>3. QuietStep => count' = count \/ Event
    BY DEF QuietStep, PeriodicSave, Pause, Resume, Stop,
              Network, vars
  <2>4. EndStep => count' = count \/ Event
    BY EndLeaves DEF Restart
  <2> QED
    BY <2>1, <2>2, <2>3, <2>4, Steps DEF Event
<1>2. count \in 0 .. MaxEvents /\ MaxEvents \in Nat
  BY IngestionAssumption DEF Shape, FlagShape
<1> QED
  BY <1>1, <1>2

LEMMA FlagStep ==
    ASSUME Shape, [Next]_vars
    PROVE  FlagShape'
<1>1. CASE UNCHANGED <<flag, fresh, online, paused, stopping>>
  BY <1>1, CountStep DEF Shape, FlagShape
<1>2. CASE LoadStep
  <2>1. UNCHANGED <<online, paused, stopping>>
    BY <1>2 DEF LoadStep, GithubBegin, GithubDue, PostCommand, PostRecheck, Download,
                Claim, Probe, GetSource, SaveDownload, EndDownload
  <2>2. CASE GithubBegin \/ GithubDue \/ PostCommand \/ PostRecheck
    BY <2>1, <2>2, CountStep DEF GithubBegin, GithubDue, PostCommand, PostRecheck,
                                 Shape, FlagShape
  <2>3. ASSUME NEW d \in Downloader, Claim(d) \/ GetSource(d) \/ SaveDownload(d)
        PROVE  FlagShape'
    BY <2>1, <2>3, CountStep DEF Claim, GetSource, SaveDownload, Shape, FlagShape
  <2>4. ASSUME NEW d \in Downloader, Probe(d) \/ EndDownload(d)
        PROVE  FlagShape'
    <3>1. dl[d].good \in BOOLEAN
      BY DEF Shape, DlShape, Task
    <3>2. \/ UNCHANGED <<flag, fresh>>
          \/ flag' = FALSE /\ fresh' \in {FALSE, dl[d].good, fresh}
      BY <2>4 DEF Probe, EndDownload, Return
    <3> QED
      BY <2>1, <3>1, <3>2, CountStep DEF Shape, FlagShape
  <2> QED
    BY <1>2, <2>2, <2>3, <2>4 DEF LoadStep, Download
<1>3. CASE QuietStep
  <2>1. UNCHANGED <<flag, fresh>>
    BY <1>3 DEF QuietStep, PeriodicSave, Pause, Resume, Stop, Network, vars, loadVars
  <2>2. /\ online' \in {online, ~online} /\ stopping' \in {stopping, TRUE}
        /\ paused' \in {paused, TRUE, FALSE}
    BY <1>3 DEF QuietStep, PeriodicSave, Pause, Resume, Stop, Network, vars
  <2> QED
    BY <2>1, <2>2, CountStep DEF Shape, FlagShape
<1>4. CASE EndStep
  <2>1. PICK left \in SUBSET Valid : Fits(left) /\ Restart(left)
    BY <1>4, EndLeaves
  <2>2. /\ UNCHANGED online /\ flag' = FALSE /\ fresh' = FALSE
        /\ paused' = FALSE /\ stopping' = FALSE
    BY <2>1 DEF Restart
  <2> QED
    BY <2>2, CountStep DEF Shape, FlagShape
<1>5. UserStep => /\ UNCHANGED <<flag, fresh, online, stopping>>
                  /\ paused' \in {paused, TRUE}
  BY DEF UserStep, Drop, ProcessFile, ImportFile, ListFiles, StoreScan, ImportBatch,
         RemoveUri, Harvest, SaveRemoval, LoadRawFiles, LoadBundleFiles, AddFiles,
         BeginRecheck, loadVars
<1>6. CASE UserStep
  BY <1>5, <1>6, CountStep DEF Shape, FlagShape
<1> QED
  BY <1>1, <1>2, <1>3, <1>4, <1>6, Steps

(* A downloader is at one place, has a source before it while it downloads,*)
(* and what it has added is importable.                                    *)
LEMMA DlStep ==
    ASSUME Shape, [Next]_vars
    PROVE  DlShape'
<1> USE DEF Shape, DlShape, Task, userVars, loadVars
<1>1. CASE UserStep
  <2>1. UNCHANGED dl
    BY <1>1 DEF UserStep, Drop, ProcessFile, ImportFile, ListFiles, StoreScan, ImportBatch,
                RemoveUri, Harvest, SaveRemoval, LoadRawFiles, LoadBundleFiles, AddFiles,
                BeginRecheck
  <2> QED
    BY <2>1
<1>2. CASE LoadStep
  <2>1. CASE GithubBegin \/ GithubDue \/ PostCommand \/ PostRecheck
    BY <2>1 DEF GithubBegin, GithubDue, PostCommand, PostRecheck, Downloader
  <2>2. ASSUME NEW d \in Downloader, Claim(d)
        PROVE  DlShape'
    BY <2>2 DEF Claim
  <2>3. ASSUME NEW d \in Downloader, Probe(d)
        PROVE  DlShape'
    <3>1. CASE online
      <4> DEFINE begun == [at |-> "get", next |-> 1, got |-> {}, good |-> FALSE]
      <4>1. begun \in Task
        BY SourcesSeq
      <4>2. dl' = [dl EXCEPT ![d] = begun]
        BY <2>3, <3>1 DEF Probe
      <4> QED
        BY <4>1, <4>2
    <3>2. CASE ~online
      <4>1. NoDownload \in Task
        BY SourcesSeq DEF NoDownload
      <4>2. dl' = [dl EXCEPT ![d] = NoDownload]
        BY <2>3, <3>2 DEF Probe, Return
      <4> QED
        BY <4>1, <4>2 DEF NoDownload
    <3> QED
      BY <3>1, <3>2
  <2>4. ASSUME NEW d \in Downloader, GetSource(d)
        PROVE  DlShape'
    <3>1. dl[d].next \in 1 .. Len(Sources)
      BY <2>4, SourcesSeq DEF GetSource
    <3>2. CASE online
      <4> DEFINE got == [at |-> IF db' \ db = {} THEN "get" ELSE "save",
                         next |-> dl[d].next + 1, got |-> db' \ db, good |-> TRUE]
      <4>1. dl' = [dl EXCEPT ![d] = got]
        BY <2>4, <3>2 DEF GetSource
      <4>2. dl[d].next + 1 \in 0 .. Len(Sources) + 1 /\ dl[d].next + 1 > 0
        BY <3>1, SourcesSeq
      <4>3. db' \ db \in SUBSET Valid
        BY SetStep DEF SetShape
      <4>4. got \in Task /\ got.next > 0
        BY <4>2, <4>3
      <4> QED
        BY <4>1, <4>4
    <3>3. CASE ~online
      <4>1. dl' = [dl EXCEPT ![d].next = @ + 1]
        BY <2>4, <3>3 DEF GetSource
      <4>2. dl[d].next + 1 \in 0 .. Len(Sources) + 1 /\ dl[d].next + 1 > 0
        BY <3>1, SourcesSeq
      <4> QED
        BY <4>1, <4>2
    <3> QED
      BY <3>2, <3>3
  <2>5. ASSUME NEW d \in Downloader, SaveDownload(d)
        PROVE  DlShape'
    BY <2>5 DEF SaveDownload
  <2>6. ASSUME NEW d \in Downloader, EndDownload(d)
        PROVE  DlShape'
    BY <2>6, SourcesSeq DEF EndDownload, Return, NoDownload
  <2> QED
    BY <1>2, <2>1, <2>2, <2>3, <2>4, <2>5, <2>6 DEF LoadStep, Download
<1>3. CASE QuietStep
  BY <1>3 DEF QuietStep, PeriodicSave, Pause, Resume, Stop,
              Network, vars
<1>4. CASE EndStep
  <2>1. PICK left \in SUBSET Valid : Fits(left) /\ Restart(left)
    BY <1>4, EndLeaves
  <2>2. dl' = [d \in Downloader |-> NoDownload]
    BY <2>1 DEF Restart
  <2> QED
    BY <2>2, SourcesSeq DEF NoDownload
<1> QED
  BY <1>1, <1>2, <1>3, <1>4, Steps

LEMMA ShapeInit == Init => Shape
<1> SUFFICES ASSUME Init
             PROVE  Shape
  OBVIOUS
<1> USE IngestionAssumption DEF Init
<1>1. SetShape
  <2>1. disk \in SUBSET Valid /\ Fits(disk)
    OBVIOUS
  <2>2. db \subseteq Valid /\ Fits(db)
    BY <2>1, LoadedFits
  <2> QED
    BY <2>1, <2>2 DEF SetShape
<1>2. FlagShape
  <2>1. count \in 0 .. MaxEvents
    OBVIOUS
  <2> QED
    BY <2>1 DEF FlagShape
<1>3. ScanShape
  BY DEF ScanShape, NoScan
<1>4. CmdShape
  BY DEF CmdShape, CmdPlace, NoCommand
<1>5. DlShape
  BY SourcesSeq DEF DlShape, Task, NoDownload
<1> QED
  BY <1>1, <1>2, <1>3, <1>4, <1>5 DEF Shape

LEMMA ShapeStep == Shape /\ [Next]_vars => Shape'
  BY SetStep, FlagStep, ScanStep, CmdStep, DlStep DEF Shape

LEMMA ShapeInvariant == Spec => []Shape
  BY ShapeInit, ShapeStep, PTL DEF Spec

LEMMA ShapeTypeOK == Shape => TypeOK
<1> SUFFICES ASSUME Shape
             PROVE  TypeOK
  OBVIOUS
<1>1. /\ scan.at \in {"idle", "read"}
      /\ scan.left \subseteq inbox /\ scan.valid \subseteq seen
  BY DEF Shape, ScanShape
<1>2. /\ cmd.at \in CmdPlace
      /\ cmd.left \subseteq cmd.all /\ cmd.all \subseteq Valid
  BY DEF Shape, CmdShape
<1>3. \A d \in Downloader :
          /\ dl[d].at \in {"idle", "claim", "probe", "get", "save"}
          /\ dl[d].next \in 0 .. Len(Sources) + 1
          /\ dl[d].got \subseteq Valid
          /\ dl[d].good \in BOOLEAN
  BY DEF Shape, DlShape, Task
<1> QED
  BY <1>1, <1>2, <1>3 DEF TypeOK, CmdPlace, Shape, SetShape, FlagShape

-----------------------------------------------------------------------------
(* The flag of the downloads                                               *)

Inside(d) == dl[d].at \in {"probe", "get", "save"}

FlagTells ==
    /\ flag <=> \E d \in Downloader : Inside(d)
    /\ \A d, e \in Downloader : Inside(d) /\ Inside(e) => d = e

(* Whoever claims the flag finds nobody inside, and whoever lowers it is   *)
(* the only one who was; an end of the process lowers it with all threads. *)
LEMMA FlagTellsStep ==
    ASSUME Shape, FlagTells, [Next]_vars
    PROVE  FlagTells'
<1> USE DEF FlagTells, Inside
<1>0. dl \in [Downloader -> Task]
  BY DEF Shape, DlShape
<1>1. CASE UserStep
  <2>1. UNCHANGED <<flag, dl>>
    BY <1>1 DEF UserStep, Drop, ProcessFile, ImportFile, ListFiles, StoreScan, ImportBatch,
                RemoveUri, Harvest, SaveRemoval, LoadRawFiles, LoadBundleFiles, AddFiles,
        BeginRecheck,
                loadVars
  <2> QED
    BY <2>1
<1>2. CASE LoadStep
  <2>1. CASE GithubBegin \/ GithubDue \/ PostCommand \/ PostRecheck
    BY <1>0, <2>1 DEF GithubBegin, GithubDue, PostCommand, PostRecheck, Downloader, Task
  <2>2. ASSUME NEW d \in Downloader, Claim(d)
        PROVE  FlagTells'
    BY <1>0, <2>2 DEF Claim, Task
  <2>3. ASSUME NEW d \in Downloader, Probe(d)
        PROVE  FlagTells'
    <3>1. CASE online
      BY <1>0, <2>3, <3>1 DEF Probe, Task
    <3>2. CASE ~online
      <4>1. flag' = FALSE /\ dl' = [dl EXCEPT ![d] = NoDownload]
        BY <2>3, <3>2 DEF Probe, Return
      <4>2. Inside(d)
        BY <2>3 DEF Probe
      <4> QED
        BY <1>0, <4>1, <4>2 DEF NoDownload
    <3> QED
      BY <3>1, <3>2
  <2>4. ASSUME NEW d \in Downloader, GetSource(d)
        PROVE  FlagTells'
    BY <1>0, <2>4 DEF GetSource, Task
  <2>5. ASSUME NEW d \in Downloader, SaveDownload(d)
        PROVE  FlagTells'
    BY <1>0, <2>5 DEF SaveDownload, Task
  <2>6. ASSUME NEW d \in Downloader, EndDownload(d)
        PROVE  FlagTells'
    BY <1>0, <2>6 DEF EndDownload, Return, NoDownload, Task
  <2> QED
    BY <1>2, <2>1, <2>2, <2>3, <2>4, <2>5, <2>6 DEF LoadStep, Download
<1>3. CASE QuietStep
  BY <1>3 DEF QuietStep, PeriodicSave, Pause, Resume, Stop,
              Network, vars, loadVars
<1>4. CASE EndStep
  <2>1. flag' = FALSE /\ dl' = [d \in Downloader |-> NoDownload]
    BY <1>4, EndLeaves DEF Restart
  <2> QED
    BY <2>1 DEF NoDownload
<1> QED
  BY <1>1, <1>2, <1>3, <1>4, Steps

(* One download runs at a time, and the flag is up exactly while it does.  *)
THEOREM OneDownloadAtATime == Spec => []OneDownload
<1>1. Init => FlagTells
  BY DEF Init, NoDownload, FlagTells, Inside
<1>2. Shape /\ FlagTells /\ [Next]_vars => FlagTells'
  BY FlagTellsStep
<1>3. FlagTells => OneDownload
  <2> SUFFICES ASSUME FlagTells
               PROVE  OneDownload
    OBVIOUS
  <2> DEFINE inside == {d \in Downloader : dl[d].at \in {"probe", "get", "save"}}
  <2>1. flag <=> inside # {}
    BY DEF FlagTells, Inside
  <2>2. Cardinality(inside) <= 1
    <3>1. CASE inside = {}
      BY <3>1, FS_EmptySet
    <3>2. CASE \E d \in inside : TRUE
      <4>1. PICK d \in inside : inside = {d}
        BY <3>2 DEF FlagTells, Inside
      <4> QED
        BY <4>1, FS_Singleton
    <3> QED
      BY <3>1, <3>2
  <2> QED
    BY <2>1, <2>2 DEF OneDownload
<1> QED
  BY <1>1, <1>2, <1>3, ShapeInvariant, PTL DEF Spec

-----------------------------------------------------------------------------
(* What is on disk                                                         *)

(* What was announced is in memory as well: the saves to come keep it.     *)
Safe == kept \subseteq db /\ kept \subseteq disk

LEMMA SafeStep ==
    ASSUME Shape, Safe, [Next]_vars
    PROVE  Safe'
<1> USE DEF Safe, userVars, loadVars, ghosts
<1>0. ASSUME NEW links, Loses(links), UNCHANGED disk
      PROVE  Safe'
  BY <1>0 DEF Loses
<1>1. CASE UserStep
  <2>1. ASSUME NEW f \in File, Drop(f) \/ ProcessFile(f) \/ ImportFile(f)
        PROVE  Safe'
    BY <2>1 DEF Drop, ProcessFile, ImportFile
  <2>2. CASE ListFiles \/ SaveRemoval \/ BeginRecheck
    BY <2>2 DEF ListFiles, SaveRemoval, BeginRecheck
  <2>3. ASSUME NEW u \in db, RemoveUri(u)
        PROVE  Safe'
    BY <1>0, <2>3 DEF RemoveUri
  <2>4. ASSUME NEW b \in SUBSET cmd.left, ImportBatch(b)
        PROVE  Safe'
    BY <1>0, <2>4 DEF ImportBatch
  <2>5. CASE StoreScan \/ LoadRawFiles \/ LoadBundleFiles
    BY <1>0, <2>5 DEF StoreScan, LoadRawFiles, LoadBundleFiles, AddFiles
  <2>6. ASSUME NEW u \in Wild, Harvest(u)
        PROVE  Safe'
    BY <1>0, <2>6 DEF Harvest
  <2> QED
    BY <1>1, <2>1, <2>2, <2>3, <2>4, <2>5, <2>6 DEF UserStep
<1>2. CASE LoadStep
  <2>1. ASSUME NEW d \in Downloader, GetSource(d)
        PROVE  Safe'
    <3>1. UNCHANGED disk
      BY <2>1 DEF GetSource
    <3>2. CASE online
      BY <1>0, <2>1, <3>1, <3>2 DEF GetSource
    <3>3. CASE ~online
      BY <2>1, <3>1, <3>3 DEF GetSource
    <3> QED
      BY <3>2, <3>3
  <2>2. ASSUME NEW d \in Downloader,
               Claim(d) \/ Probe(d) \/ SaveDownload(d) \/ EndDownload(d)
        PROVE  Safe'
    BY <2>2 DEF Claim, Probe, SaveDownload, EndDownload
  <2>3. CASE GithubBegin \/ GithubDue \/ PostCommand \/ PostRecheck
    BY <2>3 DEF GithubBegin, GithubDue, PostCommand, PostRecheck
  <2> QED
    BY <1>2, <2>1, <2>2, <2>3 DEF LoadStep, Download
<1>3. CASE QuietStep
  BY <1>3 DEF QuietStep, PeriodicSave, Pause, Resume, Stop, Network, vars
<1>4. CASE EndStep
  <2>1. PICK left \in SUBSET Valid : Fits(left) /\ Restart(left)
    BY <1>4, EndLeaves
  <2>2. kept' = (kept \cap left) \ (left \ db') /\ disk' = left
    BY <2>1 DEF Restart
  <2> QED
    BY <2>2
<1> QED
  BY <1>1, <1>2, <1>3, <1>4, Steps

(* What a download announced as persisted stays in the file until it is    *)
(* removed or evicted, or a save that was cut off loses it.                *)
THEOREM PersistedCorrect == Spec => []PersistedStays
<1>1. Init => Safe
  BY DEF Init, Safe
<1>2. Shape /\ Safe /\ [Next]_vars => Safe'
  BY SafeStep
<1>3. Safe => PersistedStays
  BY DEF Safe, PersistedStays
<1> QED
  BY <1>1, <1>2, <1>3, ShapeInvariant, PTL DEF Spec

-----------------------------------------------------------------------------
(* What is imported                                                        *)

(* Links the files that were moved away gave a line of their own.          *)
OwnLines == {l \in Link : \E f \in done : \E n \in Content[f] :
                             n.form = "link" /\ n.link = l /\ Importable(l)}

(* What the watcher has seen has a record or is about to, and so has the   *)
(* part of a command's links that has been taken from it.                  *)
Arrived ==
    /\ Keys(seen) \subseteq Keys(db \cup scan.valid \cup gone)
    /\ Keys(OwnLines) \subseteq Keys(db \cup scan.valid \cup gone)
    /\ Keys(cmd.all \ cmd.left) \subseteq Keys(db \cup gone)
    /\ Keys(told) \subseteq Keys(db \cup gone)
    /\ scan.at = "idle" => scan.valid = {}

LEMMA KeysUnion ==
    ASSUME NEW p, NEW q
    PROVE  Keys(p \cup q) = Keys(p) \cup Keys(q)
  BY DEF Keys

LEMMA KeysUnion3 ==
    ASSUME NEW p, NEW q, NEW r
    PROVE  Keys(p \cup q \cup r) = Keys(p) \cup Keys(q) \cup Keys(r)
  BY DEF Keys

LEMMA KeysPart ==
    ASSUME NEW q, NEW p \in SUBSET q
    PROVE  Keys(p) \subseteq Keys(q)
  BY DEF Keys

(* A step that takes nothing from the watcher or a command: the database   *)
(* may change, what leaves it is gone, and a command may begin or end.     *)
LEMMA ArrivedLater ==
    ASSUME Arrived, UNCHANGED <<seen, scan, told, done>>,
           UNCHANGED cmd \/ cmd'.all \ cmd'.left = {},
           UNCHANGED <<db, gone>> \/ \E links : Loses(links)
    PROVE  Arrived'
<1>1. Keys(db \cup gone) \subseteq Keys(db' \cup gone')
  <2>1. ASSUME NEW links, Loses(links)
        PROVE  Keys(db \cup gone) \subseteq Keys(db' \cup gone')
    <3>1. Keys(gone \cup db \cup links) \subseteq Keys(db' \cup gone')
      BY <2>1, TraceLeft DEF Loses
    <3> QED
      BY <3>1, KeysUnion, KeysUnion3
  <2> QED
    BY <2>1
<1>2. Keys(db \cup scan.valid \cup gone) \subseteq Keys(db' \cup scan.valid \cup gone')
  <2>1. /\ Keys(db \cup scan.valid \cup gone) = Keys(db \cup gone) \cup Keys(scan.valid)
        /\ Keys(db' \cup scan.valid \cup gone') = Keys(db' \cup gone') \cup Keys(scan.valid)
    BY DEF Keys
  <2> QED
    BY <1>1, <2>1
<1>3. OwnLines' = OwnLines
  BY DEF OwnLines
<1>4. Keys({}) = {}
  BY DEF Keys
<1>5. Keys(cmd'.all \ cmd'.left) \subseteq Keys(db' \cup gone')
  BY <1>1, <1>4 DEF Arrived
<1> QED
  BY <1>1, <1>2, <1>3, <1>5 DEF Arrived, Keys

LEMMA ArrivedStep ==
    ASSUME Shape, Arrived, [Next]_vars
    PROVE  Arrived'
<1> USE DEF userVars, loadVars, ghosts
<1>0. /\ scan \in [at : {"idle", "read"}, left : SUBSET inbox, valid : SUBSET seen]
      /\ cmd \in [at : CmdPlace, left : SUBSET Valid, all : SUBSET Valid]
      /\ cmd.left \subseteq cmd.all
  BY DEF Shape, ScanShape, CmdShape
<1>1. CASE UserStep
  <2>1. ASSUME NEW f \in File, Drop(f)
        PROVE  Arrived'
    BY <2>1 DEF Drop, Arrived, OwnLines, Keys
  <2>2. ASSUME NEW f \in File, ProcessFile(f)
        PROVE  Arrived'
    <3> DEFINE new == Watched(Content[f]) \ seen
    <3>1. /\ seen' = seen \cup new /\ done' = done \cup {f}
          /\ scan' = [scan EXCEPT !.left = @ \ {f}, !.valid = @ \cup new]
          /\ UNCHANGED <<db, gone, cmd, told>>
      BY <2>2 DEF ProcessFile
    <3>2. scan'.valid = scan.valid \cup new /\ scan'.at = "read"
      BY <1>0, <2>2, <3>1 DEF ProcessFile
    <3>3. OwnLines' \subseteq OwnLines \cup Watched(Content[f])
      <4>1. Content[f] \in SUBSET Line
        BY IngestionAssumption
      <4> QED
        BY <3>1, <4>1, OwnLineWatched DEF OwnLines
    <3>4. Keys(db' \cup scan'.valid \cup gone')
              = Keys(db \cup scan.valid \cup gone) \cup Keys(new)
      <4>1. db' \cup scan'.valid \cup gone' = (db \cup scan.valid \cup gone) \cup new
        BY <3>1, <3>2
      <4> QED
        BY <4>1, KeysUnion
    <3>5. Keys(seen') = Keys(seen) \cup Keys(new)
      BY <3>1, KeysUnion
    <3>6. Keys(OwnLines') \subseteq Keys(OwnLines) \cup Keys(seen) \cup Keys(new)
      <4>1. OwnLines' \in SUBSET ((OwnLines \cup seen) \cup new)
        BY <3>3
      <4>2. Keys(OwnLines') \subseteq Keys((OwnLines \cup seen) \cup new)
        BY <4>1, KeysPart
      <4> QED
        BY <4>2, KeysUnion, KeysUnion3
    <3>7. /\ Keys(seen') \subseteq Keys(db' \cup scan'.valid \cup gone')
          /\ Keys(OwnLines') \subseteq Keys(db' \cup scan'.valid \cup gone')
      BY <3>4, <3>5, <3>6 DEF Arrived
    <3> HIDE DEF new
    <3> QED
      BY <3>1, <3>2, <3>7 DEF Arrived, Keys
  <2>3. ASSUME NEW f \in File, ImportFile(f)
        PROVE  Arrived'
    <3>1. cmd'.all \ cmd'.left = {}
      BY <2>3 DEF ImportFile
    <3>2. UNCHANGED <<db, gone, scan, seen, done, told>>
      BY <2>3 DEF ImportFile
    <3> QED
      BY <3>1, <3>2 DEF Arrived, OwnLines, Keys
  <2>4. CASE ListFiles
    BY <2>4 DEF ListFiles, Arrived, OwnLines, Keys
  <2>5. CASE StoreScan
    <3>1. Keys(gone \cup db \cup scan.valid) \subseteq Keys(db' \cup gone')
      BY <2>5, TraceLeft DEF StoreScan, Loses
    <3>2. /\ Keys(db \cup scan.valid \cup gone) \subseteq Keys(db' \cup gone')
          /\ Keys(db \cup gone) \subseteq Keys(db' \cup gone')
      BY <3>1, KeysUnion
    <3>3. scan' = NoScan /\ UNCHANGED <<seen, cmd, told, done>>
      BY <2>5 DEF StoreScan
    <3>4. db' \cup scan'.valid \cup gone' = db' \cup gone'
      BY <3>3 DEF NoScan
    <3>5. OwnLines' = OwnLines
      BY <3>3 DEF OwnLines
    <3> QED
      BY <3>2, <3>3, <3>4, <3>5 DEF Arrived, NoScan, Keys
  <2>6. ASSUME NEW b \in SUBSET cmd.left, ImportBatch(b)
        PROVE  Arrived'
    <3>1. /\ Loses(b)
          /\ cmd' = IF b = cmd.left THEN NoCommand ELSE [cmd EXCEPT !.left = @ \ b]
          /\ told' = IF b = cmd.left THEN told \cup cmd.all ELSE told
          /\ UNCHANGED <<seen, scan, done>>
      BY <2>6 DEF ImportBatch
    <3>2. Keys(gone \cup db \cup b) \subseteq Keys(db' \cup gone')
      BY <3>1, TraceLeft DEF Loses
    <3>3. /\ Keys(db \cup gone) \subseteq Keys(db' \cup gone')
          /\ Keys(b) \subseteq Keys(db' \cup gone')
      BY <3>2, KeysUnion
    <3>4. Keys(db \cup scan.valid \cup gone) \subseteq Keys(db' \cup scan.valid \cup gone')
      <4>1. /\ Keys(db \cup scan.valid \cup gone) = Keys(db \cup gone) \cup Keys(scan.valid)
            /\ Keys(db' \cup scan.valid \cup gone')
                   = Keys(db' \cup gone') \cup Keys(scan.valid)
        BY DEF Keys
      <4> QED
        BY <3>3, <4>1
    <3>5. cmd'.all \ cmd'.left \subseteq (cmd.all \ cmd.left) \cup b
      BY <1>0, <3>1 DEF NoCommand
    <3>6. Keys(cmd'.all \ cmd'.left) \subseteq Keys(db' \cup gone')
      BY <3>3, <3>5 DEF Arrived, Keys
    <3>7. Keys(told') \subseteq Keys(db' \cup gone')
      <4>1. CASE b = cmd.left
        <5>1. told' = told \cup ((cmd.all \ cmd.left) \cup b)
          BY <1>0, <3>1, <4>1
        <5>2. Keys(told') = Keys(told) \cup (Keys(cmd.all \ cmd.left) \cup Keys(b))
          BY <5>1 DEF Keys
        <5> QED
          BY <3>3, <5>2 DEF Arrived
      <4>2. CASE b # cmd.left
        BY <3>1, <3>3, <4>2 DEF Arrived
      <4> QED
        BY <4>1, <4>2
    <3>8. OwnLines' = OwnLines
      BY <3>1 DEF OwnLines
    <3> QED
      BY <3>1, <3>4, <3>6, <3>7, <3>8 DEF Arrived, Keys
  <2>7. ASSUME NEW u \in db, RemoveUri(u)
        PROVE  Arrived'
    <3>1. Loses({}) /\ UNCHANGED <<seen, scan, told, done>>
      BY <2>7 DEF RemoveUri
    <3>2. cmd'.all \ cmd'.left = {}
      BY <2>7 DEF RemoveUri, NoCommand
    <3> QED
      BY <3>1, <3>2, ArrivedLater
  <2>8. ASSUME NEW u \in Wild, Harvest(u)
        PROVE  Arrived'
    BY <2>8, ArrivedLater DEF Harvest
  <2>9. CASE LoadRawFiles \/ LoadBundleFiles
    BY <2>9, ArrivedLater DEF LoadRawFiles, LoadBundleFiles, AddFiles
  <2>10. CASE SaveRemoval \/ BeginRecheck
    BY <2>10, ArrivedLater DEF SaveRemoval, BeginRecheck, NoCommand
  <2> QED
    BY <1>1, <2>1, <2>2, <2>3, <2>4, <2>5, <2>6, <2>7, <2>8, <2>9, <2>10 DEF UserStep
<1>2. CASE LoadStep
  <2>1. ASSUME NEW d \in Downloader, GetSource(d)
        PROVE  Arrived'
    <3>1. UNCHANGED <<seen, scan, cmd, told, done>>
      BY <2>1 DEF GetSource
    <3>2. CASE online
      BY <2>1, <3>1, <3>2, ArrivedLater DEF GetSource
    <3>3. CASE ~online
      <4>1. UNCHANGED <<db, gone>>
        BY <2>1, <3>3 DEF GetSource
      <4> QED
        BY <3>1, <4>1 DEF Arrived, OwnLines, Keys
    <3> QED
      BY <3>2, <3>3
  <2>2. CASE PostRecheck
    BY <2>2, ArrivedLater DEF PostRecheck, NoCommand
  <2>3. CASE UNCHANGED <<db, gone, userVars>>
    BY <2>3 DEF Arrived, OwnLines, Keys
  <2> QED
    BY <1>2, <2>1, <2>2, <2>3
    DEF LoadStep, GithubBegin, GithubDue, PostCommand, Download, Claim, Probe,
        SaveDownload, EndDownload
<1>3. CASE QuietStep
  <2>1. UNCHANGED <<db, gone, userVars>>
    BY <1>3 DEF QuietStep, PeriodicSave, Pause, Resume, Stop, Network, vars
  <2> QED
    BY <2>1 DEF Arrived, OwnLines, Keys
<1>4. CASE EndStep
  <2>1. PICK left \in SUBSET Valid : Fits(left) /\ Restart(left)
    BY <1>4, EndLeaves
  <2>2. /\ gone' = Without(gone \cup db \cup scan.valid, Keys(db'))
        /\ seen' = {} /\ scan' = NoScan /\ cmd' = NoCommand
        /\ UNCHANGED <<done, told>>
    BY <2>1 DEF Restart
  <2>3. Keys(gone \cup db \cup scan.valid) \subseteq Keys(db' \cup gone')
    BY <2>2, TraceLeft
  <2>4. /\ Keys(db \cup scan.valid \cup gone) \subseteq Keys(db' \cup gone')
        /\ Keys(db \cup gone) \subseteq Keys(db' \cup gone')
    BY <2>3, KeysUnion
  <2>5. /\ seen' = {} /\ scan'.valid = {} /\ scan'.at = "idle"
        /\ cmd'.all \ cmd'.left = {}
    BY <2>2 DEF NoScan, NoCommand
  <2>6. OwnLines' = OwnLines
    BY <2>2 DEF OwnLines
  <2>7. db' \cup scan'.valid \cup gone' = db' \cup gone'
    BY <2>5
  <2>8. Keys({}) = {}
    BY DEF Keys
  <2> QED
    BY <2>2, <2>4, <2>5, <2>6, <2>7, <2>8 DEF Arrived, Keys
<1> QED
  BY <1>1, <1>2, <1>3, <1>4, Steps

(* No link of an imported file is lost on its way to the database.         *)
THEOREM ImportsCorrect == Spec => []ImportsReachDb
<1>1. Init => Arrived
  BY DEF Init, Arrived, NoScan, NoCommand, OwnLines, Keys
<1>2. Shape /\ Arrived /\ [Next]_vars => Arrived'
  BY ArrivedStep
<1>3. Shape /\ Arrived => ImportsReachDb
  <2> SUFFICES ASSUME Shape, Arrived
               PROVE  ImportsReachDb
    OBVIOUS
  <2>1. ASSUME NEW f \in done, NEW n \in Content[f],
               n.form = "link", Importable(n.link)
        PROVE  EndpointKey(n.link) \in Keys(db \cup scan.valid \cup gone)
    <3>1. f \in File
      BY DEF Shape, SetShape
    <3>2. n.link \in Link
      BY <3>1, IngestionAssumption DEF Line
    <3>3. n.link \in OwnLines
      BY <2>1, <3>2 DEF OwnLines
    <3> QED
      BY <3>3 DEF Arrived, Keys
  <2> QED
    BY <2>1, ShapeTypeOK DEF Arrived, ImportsReachDb
<1> QED
  BY <1>1, <1>2, <1>3, ShapeInvariant, PTL DEF Spec

=============================================================================
