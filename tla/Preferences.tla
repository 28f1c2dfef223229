---------------------------- MODULE Preferences ----------------------------
(***************************************************************************)
(* What the user sets in the window and what becomes of it: the list of    *)
(* sources, the values of the settings form, the one configuration object  *)
(* that the window, the command worker, the orchestrator's main thread and *)
(* its workers share, the configuration file and the file of sources, and  *)
(* a restart.  Of the settings there are three: the path of an engine, the *)
(* number of links to take, and the URLs of the sources.  The configuration*)
(* file is written by JsonBuilder and read by another parser: a list that  *)
(* is not empty does not come back from it.                                *)
(***************************************************************************)
EXTENDS Integers, Sequences

CONSTANTS
    Standard,    \* the sources the program has: constants::githubRepos()
    Custom,      \* sources that the user adds
    MaxActs,     \* bound: what the user does, and restarts
    MaxQueue     \* bound: commands waiting for the command worker

ASSUME PreferencesAssumption ==
    /\ MaxActs \in Nat /\ MaxQueue \in Nat \ {0}
    /\ \A u \in Standard \cup Custom : u \notin {"unset", "garbled"}

Url == Standard \cup Custom

VARIABLES
    list,        \* source_manager_.sources: "on", "off", or not there
    text,        \* github_urls_, the field of the form
    conf,        \* config_, shared by all
    file,        \* the configuration file
    tsv,         \* runtime/sources_manager.tsv
    engine,      \* the path the engines are run from
    form,        \* ApplyAdvancedSettings: what it stores, and how far it is
    queue,       \* cmd_queue_
    command,     \* the command each thread processes
    asked,       \* the path of the last settings the user applied
    acts         \* what the user has done so far

prefVars == <<list, text, conf, file, tsv, engine, form, queue, command, asked, acts>>

(* An invalid value of each kind is among them: "" and 0.                  *)
Path == {"first", "second"}
Plenty == 1000
Total == {100, Plenty}
Unknown == "unknown"

Keys == <<"path", "total", "urls">>
Thread == {"window", "file"}

(* The configuration's urls: not set, a list, or what is left of a list    *)
(* that has been through the file.                                         *)
Unset == {"unset"}
Garbled == {"garbled"}
Defaults == [path |-> "first", total |-> Plenty, urls |-> Unset]

NoForm == [at |-> 0, new |-> Defaults]
NoCommand == [at |-> 0, keys |-> <<>>, new |-> Defaults, changed |-> FALSE]

Enabled(l) == {u \in Url : l[u] = "on"}

(* githubUrls(): the constants when there is no list or an empty one.      *)
GithubUrls(c) == IF c.urls \in {Unset, {}} THEN Standard ELSE c.urls

(* Mutant: the lists of the file are read as they were written.            *)
RereadWell(c) == c

(* saveToFile and loadFromFile: a list is written as a string with its     *)
(* quotes escaped, and the reader takes the first quote for the end.       *)
Reread(c) == [c EXCEPT !.urls = IF @ \in {Unset, {}} THEN @ ELSE Garbled]

StandardList == [u \in Url |-> IF u \in Standard THEN "on" ELSE "no"]

(* ensureSeedData: a file of sources without a URL is written anew.        *)
Seeded(rows) == IF \E u \in Url : rows[u] # "no" THEN rows ELSE StandardList

(* LoadSourceManager: the rows of the file; the configuration's URLs, when *)
(* there are any, say which are enabled; the standard ones are there.      *)
Loaded(rows, c) ==
    LET base == Seeded(rows)
        configured == GithubUrls(c) \cap Url
    IN  [u \in Url |->
            CASE u \in configured -> "on"
              [] u \notin configured /\ base[u] # "no" ->
                     IF configured = {} THEN base[u] ELSE "off"
              [] OTHER -> IF u \in Standard THEN "on" ELSE "no"]

(* The values a key may have in update_runtime_settings.                   *)
Possible == 1 .. 100000
Valid(k, v) == (k = "path" => v # "") /\ (k = "total" => v \in Possible)

-----------------------------------------------------------------------------
(* The window's thread: one thing at a time.                               *)
Acts == form.at = 0 /\ acts < MaxActs /\ acts' = acts + 1

(* SaveSourceManager writes the file of sources, and the configuration in  *)
(* memory.                                                                 *)
SaveSources(l) ==
    /\ list' = l /\ tsv' = l /\ text' = Enabled(l)
    /\ conf' = [conf EXCEPT !.urls = Enabled(l)]

ChangeSources(l) ==
    /\ Acts /\ SaveSources(l)
    /\ UNCHANGED <<file, engine, form, queue, command, asked>>

ToggleSource(u) ==
    /\ list[u] # "no"
    /\ ChangeSources([list EXCEPT ![u] = IF @ = "on" THEN "off" ELSE "on"])

AddSource(u) == list[u] = "no" /\ ChangeSources([list EXCEPT ![u] = "on"])

RemoveSource(u) == list[u] # "no" /\ ChangeSources([list EXCEPT ![u] = "no"])

ResetSources == ChangeSources(StandardList)

(* ApplyAdvancedSettings stores the form's values unchecked, key by key,   *)
(* saves both files and sends the same values as a command.                *)
Apply(p, t) ==
    LET urls == IF Enabled(list) # {} THEN Enabled(list) ELSE text
    IN  /\ Acts /\ Len(queue) < MaxQueue
        /\ text' = urls
        /\ form' = [at |-> 1, new |-> [path |-> p, total |-> t, urls |-> urls]]
        /\ UNCHANGED <<list, conf, file, tsv, engine, queue, command, asked>>

ApplyKey ==
    /\ form.at \in DOMAIN Keys
    /\ conf' = [conf EXCEPT ![Keys[form.at]] = form.new[Keys[form.at]]]
    /\ form' = [form EXCEPT !.at = @ + 1]
    /\ UNCHANGED <<list, text, file, tsv, engine, queue, command, asked, acts>>

SaveConfigToDisk ==
    /\ form.at = 4
    /\ file' = conf
    /\ form' = [form EXCEPT !.at = 5]
    /\ UNCHANGED <<list, text, conf, tsv, engine, queue, command, asked, acts>>

RunCommandAsync ==
    /\ form.at = 5
    /\ SaveSources(list)
    /\ queue' = Append(queue, form.new)
    /\ form' = NoForm
    /\ asked' = IF command["file"].at = 0 THEN form.new.path ELSE Unknown
    /\ UNCHANGED <<file, engine, command, acts>>

-----------------------------------------------------------------------------
(* The command worker takes commands in their order; the main thread takes *)
(* one from the command file, without the worker's mutex.                  *)
Begin(t, keys, new) ==
    /\ command[t].at = 0
    /\ command' = [command EXCEPT
                     ![t] = [at |-> 1, keys |-> keys, new |-> new, changed |-> FALSE]]
    /\ UNCHANGED <<list, text, conf, file, tsv, engine, form>>

(* Mutant: the latest command is taken first.                              *)
TakeLatest ==
    /\ queue # <<>> /\ queue' = SubSeq(queue, 1, Len(queue) - 1)
    /\ Begin("window", Keys, queue[Len(queue)])
    /\ UNCHANGED <<asked, acts>>

TakeCommand ==
    /\ queue # <<>> /\ queue' = Tail(queue)
    /\ Begin("window", Keys, Head(queue))
    /\ UNCHANGED <<asked, acts>>

FileCommand(p) ==
    /\ acts < MaxActs /\ acts' = acts + 1
    /\ Begin("file", <<"path">>, [Defaults EXCEPT !.path = p])
    /\ asked' = Unknown
    /\ UNCHANGED queue

(* update_runtime_settings: the first value refused ends the command; what *)
(* was stored before stays.  Only a path that differs from the shared      *)
(* configuration's counts as a change.                                     *)
UpdateKey(t) ==
    LET c == command[t]
        k == c.keys[c.at]
        v == c.new[k]
    IN  /\ c.at \in DOMAIN c.keys
        /\ IF Valid(k, v)
           THEN /\ conf' = [conf EXCEPT ![k] = v]
                /\ command' = [command EXCEPT ![t].at = @ + 1,
                       ![t].changed = @ \/ (k = "path" /\ v # conf.path)]
           ELSE command' = [command EXCEPT ![t] = NoCommand] /\ UNCHANGED conf
        /\ UNCHANGED <<list, text, file, tsv, engine, form, queue, asked, acts>>

ApplyEnginePaths(t) ==
    /\ command[t].at = Len(command[t].keys) + 1
    /\ engine' = IF command[t].changed THEN conf.path ELSE engine
    /\ command' = [command EXCEPT ![t] = NoCommand]
    /\ UNCHANGED <<list, text, conf, file, tsv, form, queue, asked, acts>>

(* ConfigScannerWorker stores the hardware's number at every scan.         *)
Scan ==
    /\ conf' = [conf EXCEPT !.total = Plenty]
    /\ UNCHANGED <<list, text, file, tsv, engine, form, queue, command, asked, acts>>

(* The process ends, in the middle of whatever it is, and LoadConfig and   *)
(* LoadSourceManager begin anew.                                           *)
Restart ==
    /\ acts < MaxActs /\ acts' = acts + 1
    /\ conf' = Reread(file)
    /\ tsv' = Seeded(tsv)
    /\ list' = Loaded(tsv, Reread(file))
    /\ text' = GithubUrls(Reread(file))
    /\ engine' = file.path
    /\ form' = NoForm /\ queue' = <<>> /\ asked' = Unknown
    /\ command' = [t \in Thread |-> NoCommand]
    /\ UNCHANGED file

(* The first start: LoadConfig writes the configuration file, and the file *)
(* of sources from the seed; no list of URLs is configured yet.            *)
PrefInit ==
    /\ file = Defaults /\ conf = Defaults
    /\ tsv = StandardList /\ list = Loaded(tsv, conf)
    /\ text = GithubUrls(conf)
    /\ engine = Defaults.path
    /\ form = NoForm /\ queue = <<>> /\ asked = Unknown /\ acts = 0
    /\ command = [t \in Thread |-> NoCommand]

PrefNext ==
    \/ \E u \in Url : ToggleSource(u) \/ AddSource(u) \/ RemoveSource(u)
    \/ ResetSources
    \/ \E p \in Path \cup {""}, t \in Total \cup {0} : Apply(p, t)
    \/ ApplyKey \/ SaveConfigToDisk \/ RunCommandAsync
    \/ TakeCommand
    \/ \E p \in Path \cup {""} : FileCommand(p)
    \/ \E t \in Thread : UpdateKey(t) \/ ApplyEnginePaths(t)
    \/ Scan
    \/ Restart

-----------------------------------------------------------------------------
(* The list has every URL, the field and the configurations hold URLs or   *)
(* what became of them, the form and the commands are where they can be.   *)
Config == [path : Path \cup {""}, total : Total \cup {0},
           urls : (SUBSET Url) \cup {Unset, Garbled}]

PrefTypeOK ==
    /\ list \in [Url -> {"no", "off", "on"}] /\ tsv \in [Url -> {"no", "off", "on"}]
    /\ text \in (SUBSET Url) \cup {Garbled}
    /\ conf \in Config /\ file \in Config
    /\ engine \in Path \cup {""} /\ asked \in Path \cup {"", Unknown}
    /\ form.at \in 0 .. 5 /\ form.new \in Config
    /\ Len(queue) <= MaxQueue /\ \A i \in DOMAIN queue : queue[i] \in Config
    /\ \A t \in Thread : command[t].at \in 0 .. Len(command[t].keys) + 1
    /\ acts \in 0 .. MaxActs

(* Which sources are enabled survives the end of the process, unless it    *)
(* ends between the two files that Apply writes, once settings with any    *)
(* source have been applied: each source in the list comes back as it is,  *)
(* although the configuration file and the file of sources were written    *)
(* at different times (LoadSourceManager, SaveSourceManager).              *)
SelectionSurvives ==
    form.at = 0 /\ file.urls \notin {Unset, {}} =>
        \A u \in Url : list[u] # "no" => Loaded(tsv, Reread(file))[u] = list[u]

(* With every command processed, the configuration has the path that the   *)
(* user applied last, whatever commands of earlier settings stored after   *)
(* the window had stored its own (PostCommand, the command worker), unless *)
(* the last path was refused.                                              *)
Settled ==
    /\ form.at = 0 /\ queue = <<>> /\ \A t \in Thread : command[t].at = 0
    /\ asked \in Path
    => conf.path = asked

=============================================================================
