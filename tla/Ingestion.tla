----------------------------- MODULE Ingestion -----------------------------
(***************************************************************************)
(* How configurations get in, and what of them outlives the process.       *)
(* Files dropped into config/import are read by the import watcher, files  *)
(* named in a command by the command thread; downloads are made by the     *)
(* GitHub worker, by a thread a command started and by one the recheck of  *)
(* the live ports started, one at a time by the flag download_in_progress_.*)
(* All of them add to the database, which lives in memory; saves copy it   *)
(* to a file, in place.  The process can die at any moment.                *)
(*                                                                         *)
(* The database is the set of the links its records hold: one for an       *)
(* endpoint, and no more than it has room for.  Which records may be       *)
(* evicted is in ConfigDatabase; the tests that decide it run between any  *)
(* two steps here.  A file or a source is the set of its lines (Links).    *)
(***************************************************************************)
EXTENDS Links, FiniteSets, Functions

CONSTANTS
    Wild,         \* links the harvester and the cycle find by themselves
    Seed,         \* those of the raw and cache files read at every start
    Bundle,       \* those of the bundle files, read if there is nothing else
    File,         \* the files of the user
    Content,      \* what a file holds
    Sources,      \* what the sources of a download hold, in order
    Batch,        \* IMPORT_BATCH
    MaxSize,      \* CONFIG_DB_MAX_SIZE
    MaxEvents     \* bound: files, commands, due times and ends of the process

(* The links the program takes.                                            *)
Valid == {l \in Link : Importable(l)}

ASSUME IngestionAssumption ==
    /\ Wild \cup Seed \cup Bundle \subseteq Valid
    /\ Content \in [File -> SUBSET Line]
    /\ Sources \in Seq(SUBSET Line) /\ Sources # <<>>
    /\ {Batch, MaxSize} \subseteq Nat \ {0}
    /\ MaxEvents \in Nat

Downloader == {"github", "command", "recheck"}

VARIABLES
    db,       \* the links the records of the database hold
    disk,     \* those of its file
    inbox,    \* the files in config/import
    done,     \* those in config/import/processed
    seen,     \* seen_uris_ of the import watcher
    scan,     \* the execution of the watcher in progress
    cmd,      \* the command in progress
    told,     \* ghost: what finished import commands announced
    flag,     \* download_in_progress_
    dl,       \* each downloader's call in progress
    fresh,    \* whether GitHubBG succeeded since the start
    online,   \* whether the network answers
    paused,   \* paused_
    stopping, \* stop_requested_
    kept,     \* ghost: what downloads announced as persisted
    gone,     \* ghost: what left the database or did not get in
    count     \* how many events of MaxEvents there were

userVars == <<inbox, done, seen, scan, cmd, told>>
loadVars == <<flag, dl, fresh>>
ghosts == <<kept, gone>>
vars == <<db, disk, userVars, loadVars, online, paused, stopping, ghosts, count>>

(* What the watcher takes from these lines, and what everything else does. *)
Watched(lines) ==
    {l \in UNION {WatcherExtract(n) : n \in lines} : WatcherAccepts(l)}
Found(lines) ==
    {l \in UNION {CommandExtract(n) : n \in lines} : Importable(l)}

NoScan == [at |-> "idle", left |-> {}, valid |-> {}]
NoCommand == [at |-> "idle", left |-> {}, all |-> {}]
NoDownload == [at |-> "idle", next |-> 0, got |-> {}, good |-> FALSE]

(* One thing that comes from outside; their number is bounded.             *)
Event == count < MaxEvents /\ count' = count + 1

-----------------------------------------------------------------------------
(* The database                                                            *)

Keys(links) == {EndpointKey(l) : l \in links}
Without(links, keys) == {l \in links : EndpointKey(l) \notin keys}

(* What the database can hold: a link for an endpoint, up to its size.     *)
Fits(links) ==
    /\ IsFiniteSet(links) /\ Cardinality(links) <= MaxSize
    /\ \A l, m \in links : l = m \/ EndpointKey(l) # EndpointKey(m)

(* What addConfigs can make of a database d.  A link whose endpoint has a  *)
(* record is passed over.  For a new one a full database first evicts; if  *)
(* it cannot, the rest of the links is dropped.                            *)
Insertions(d, links) ==
    {e \in SUBSET (d \cup links) :
        /\ d \subseteq e \/ e \ d # {}
        /\ d \subseteq e \/ Cardinality(d) + Cardinality(e \ d) > MaxSize
        /\ Fits(e)
        /\ Keys(links) \subseteq Keys(d \cup e) \/ Cardinality(e) = MaxSize}

(* A step that changes the database: what it evicts is no longer kept, and *)
(* what of `links' it does not take is gone with it.                       *)
Loses(links) ==
    /\ kept' = kept \ (db \ db')
    /\ gone' = Without(gone \cup db \cup links, Keys(db'))

-----------------------------------------------------------------------------
(* Files                                                                   *)

(* The user puts a file into config/import, for the first time or again.   *)
Drop(f) ==
    /\ f \notin inbox
    /\ Event
    /\ inbox' = inbox \cup {f}
    /\ UNCHANGED <<db, disk, done, seen, scan, cmd, told, loadVars, online,
                   paused, stopping, ghosts>>

ListFiles ==
    /\ scan.at = "idle" /\ inbox # {} /\ ~paused
    /\ scan' = [at |-> "read", left |-> inbox, valid |-> {}]
    /\ UNCHANGED <<db, disk, inbox, done, seen, cmd, told, loadVars, online,
                   paused, stopping, ghosts, count>>

(* wrong variant: what the earlier files of the scan gave is dropped *)
ProcessFileAlone(f) ==
    /\ scan.at = "read" /\ f \in scan.left
    /\ LET new == Watched(Content[f]) \ seen
       IN  /\ seen' = seen \cup new
           /\ scan' = [scan EXCEPT !.left = @ \ {f}, !.valid = new]
    /\ inbox' = inbox \ {f}
    /\ done' = done \cup {f}
    /\ UNCHANGED <<db, disk, cmd, told, loadVars, online, paused,
                   stopping, ghosts, count>>

(* One file of the listing: its valid lines that no earlier file of this   *)
(* session had are collected, and the file is moved away at once.          *)
ProcessFile(f) ==
    /\ scan.at = "read" /\ f \in scan.left
    /\ LET new == Watched(Content[f]) \ seen
       IN  /\ seen' = seen \cup new
           /\ scan' = [scan EXCEPT !.left = @ \ {f}, !.valid = @ \cup new]
    /\ inbox' = inbox \ {f}
    /\ done' = done \cup {f}
    /\ UNCHANGED <<db, disk, cmd, told, loadVars, online, paused,
                   stopping, ghosts, count>>

(* The collected lines go into the database after the last file.           *)
StoreScan ==
    /\ scan.at = "read" /\ scan.left = {}
    /\ db' \in Insertions(db, scan.valid)
    /\ Loses(scan.valid)
    /\ scan' = NoScan
    /\ UNCHANGED <<disk, inbox, done, seen, cmd, told, loadVars, online,
                   paused, stopping, count>>

(* import_config_file: the valid lines of the file are collected ...       *)
ImportFile(f) ==
    /\ cmd.at = "idle" /\ ~stopping
    /\ Found(Content[f]) # {}
    /\ Event
    /\ LET lines == Found(Content[f])
       IN  cmd' = [at |-> "add", left |-> lines, all |-> lines]
    /\ UNCHANGED <<db, disk, inbox, done, seen, scan, told, loadVars, online,
                   paused, stopping, ghosts>>

(* ... and go into the database by batches.                                *)
ImportBatch(b) ==
    /\ cmd.at = "add" /\ b \subseteq cmd.left
    /\ b = cmd.left \/ Cardinality(b) = Batch
    /\ Cardinality(b) <= Batch
    /\ db' \in Insertions(db, b)
    /\ Loses(b)
    /\ cmd' = IF b = cmd.left THEN NoCommand ELSE [cmd EXCEPT !.left = @ \ b]
    /\ told' = IF b = cmd.left THEN told \cup cmd.all ELSE told
    /\ UNCHANGED <<disk, inbox, done, seen, scan, loadVars, online, paused,
                   stopping, count>>

(* removeConfigs, its first two steps: the record of the URI's endpoint    *)
(* leaves the database, then a save (Feed and Provisioning have the rest). *)
RemoveUri(u) ==
    /\ cmd.at = "idle" /\ ~stopping
    /\ Event
    /\ db' = Without(db, {EndpointKey(u)})
    /\ Loses({})
    /\ cmd' = [NoCommand EXCEPT !.at = "save"]
    /\ UNCHANGED <<disk, inbox, done, seen, scan, told, loadVars, online,
                   paused, stopping>>

SaveRemoval ==
    /\ cmd.at = "save"
    /\ disk' = db
    /\ cmd' = NoCommand
    /\ UNCHANGED <<db, inbox, done, seen, scan, told, loadVars, online,
                   paused, stopping, ghosts, count>>

(* load_raw_files, load_bundle_files: all the lines at once.               *)
AddFiles(lines) ==
    /\ cmd.at = "idle" /\ ~stopping
    /\ db' \in Insertions(db, lines)
    /\ Loses({})
    /\ UNCHANGED <<disk, userVars, loadVars, online, paused, stopping, count>>

LoadRawFiles == AddFiles(Seed)

LoadBundleFiles == AddFiles(Bundle)

-----------------------------------------------------------------------------
(* Downloads                                                               *)

(* The harvester and the hunting cycle add what they found.                *)
Harvest(u) ==
    /\ db' \in Insertions(db, {u})
    /\ Loses({})
    /\ UNCHANGED <<disk, userVars, loadVars, online, paused, stopping, count>>

(* GitHubBG runs: not in a pause, not while a download is in progress.     *)
GithubBegin ==
    /\ dl["github"].at = "idle" /\ ~fresh
    /\ ~paused /\ ~flag
    /\ dl' = [dl EXCEPT !["github"].at = "claim"]
    /\ UNCHANGED <<db, disk, userVars, flag, fresh, online, paused,
                   stopping, ghosts, count>>

(* Half an hour has passed since GitHubBG succeeded.                       *)
GithubDue ==
    /\ fresh /\ dl["github"].at = "idle"
    /\ Event
    /\ fresh' = FALSE
    /\ UNCHANGED <<db, disk, userVars, flag, dl, online, paused, stopping,
                   ghosts>>

(* download_configs: a detached thread is started if the flag is down.     *)
PostCommand ==
    /\ dl["command"].at = "idle" /\ ~stopping
    /\ ~flag
    /\ Event
    /\ dl' = [dl EXCEPT !["command"].at = "claim"]
    /\ UNCHANGED <<db, disk, userVars, flag, fresh, online, paused,
                   stopping, ghosts>>

(* recheck_live_ports pauses the program for its tests ...                 *)
BeginRecheck ==
    /\ cmd.at = "idle" /\ ~stopping
    /\ Event
    /\ paused' = TRUE
    /\ cmd' = [NoCommand EXCEPT !.at = IF paused THEN "recheckPaused" ELSE "recheck"]
    /\ UNCHANGED <<db, disk, inbox, done, seen, scan, told, loadVars, online,
                   stopping, ghosts>>

(* ... leaves it paused, saves, and starts a thread that downloads if it   *)
(* found live ports and the program was not paused before.                 *)
PostRecheck ==
    /\ cmd.at \in {"recheck", "recheckPaused"}
    /\ disk' = db
    /\ \/ UNCHANGED dl
       \/ /\ cmd.at = "recheck" /\ dl["recheck"].at = "idle"
          /\ dl' = [dl EXCEPT !["recheck"].at = "claim"]
    /\ cmd' = NoCommand
    /\ UNCHANGED <<db, inbox, done, seen, scan, told, flag, fresh, online,
                   paused, stopping, ghosts, count>>

(* wrong variant: the flag was looked at before, and is only set here *)
ClaimBlindly(d) ==
    /\ dl[d].at = "claim"
    /\ flag' = TRUE
    /\ dl' = [dl EXCEPT ![d].at = "probe"]
    /\ UNCHANGED <<db, disk, userVars, fresh, online, paused, stopping,
                   ghosts, count>>

(* downloadConfigsAsync: compare_exchange_strong on the flag.              *)
Claim(d) ==
    /\ dl[d].at = "claim"
    /\ flag' = TRUE
    /\ dl' = [dl EXCEPT ![d].at = IF flag THEN "idle" ELSE "probe"]
    /\ UNCHANGED <<db, disk, userVars, fresh, online, paused, stopping,
                   ghosts, count>>

(* The call returns: the guard lowers the flag, GitHubBG takes the result. *)
Return(d, good) ==
    /\ flag' = FALSE
    /\ fresh' = IF d = "github" THEN good ELSE fresh
    /\ dl' = [dl EXCEPT ![d] = NoDownload]

(* wrong variant: the early return does not lower the flag *)
ProbeLeaks(d) ==
    /\ dl[d].at = "probe"
    /\ dl' = [dl EXCEPT ![d] = IF online
                               THEN [at |-> "get", next |-> 1, got |-> {}, good |-> FALSE]
                               ELSE NoDownload]
    /\ UNCHANGED <<db, disk, userVars, flag, fresh, online, paused,
                   stopping, ghosts, count>>

(* The ways out (direct, system proxy, the user's proxy, live ports,       *)
(* balancers) are tried; without one that answers the call returns false.  *)
Probe(d) ==
    /\ dl[d].at = "probe"
    /\ IF online
       THEN /\ dl' = [dl EXCEPT ![d] = [at |-> "get", next |-> 1,
                                        got |-> {}, good |-> FALSE]]
            /\ UNCHANGED <<flag, fresh>>
       ELSE Return(d, FALSE)
    /\ UNCHANGED <<db, disk, userVars, online, paused, stopping, ghosts, count>>

(* The next source by the first way that gives a body; its configurations  *)
(* go into the database, and are saved if any of them was new.             *)
GetSource(d) ==
    /\ dl[d].at = "get" /\ dl[d].next <= Len(Sources) /\ ~stopping
    /\ IF online
       THEN /\ db' \in Insertions(db, Found(Sources[dl[d].next]))
            /\ Loses({})
            /\ dl' = [dl EXCEPT ![d] =
                        [at |-> IF db' \ db = {} THEN "get" ELSE "save",
                         next |-> @.next + 1, got |-> db' \ db, good |-> TRUE]]
       ELSE /\ dl' = [dl EXCEPT ![d].next = @ + 1]
            /\ UNCHANGED <<db, ghosts>>
    /\ UNCHANGED <<disk, userVars, flag, fresh, online, paused, stopping, count>>

(* wrong variant: the save is left to the last source *)
SaveDownloadLast(d) ==
    /\ dl[d].at = "save"
    /\ disk' = IF dl[d].next > Len(Sources) THEN db ELSE disk
    /\ kept' = kept \cup (dl[d].got \cap db)
    /\ dl' = [dl EXCEPT ![d].at = "get", ![d].got = {}]
    /\ UNCHANGED <<db, userVars, flag, fresh, online, paused, stopping, gone, count>>

(* What was new is saved before the next source, but for what has left the *)
(* database meanwhile.                                                     *)
SaveDownload(d) ==
    /\ dl[d].at = "save"
    /\ disk' = db
    /\ kept' = kept \cup (dl[d].got \cap db)
    /\ dl' = [dl EXCEPT ![d].at = "get", ![d].got = {}]
    /\ UNCHANGED <<db, userVars, flag, fresh, online, paused, stopping, gone, count>>

(* All sources done, or a stop seen between two of them.                   *)
EndDownload(d) ==
    /\ dl[d].at = "get"
    /\ dl[d].next > Len(Sources) \/ stopping
    /\ Return(d, dl[d].good)
    /\ UNCHANGED <<db, disk, userVars, online, paused, stopping, ghosts, count>>

-----------------------------------------------------------------------------
(* The process                                                             *)

(* The main loop saves every minute, but not in a pause.                   *)
PeriodicSave ==
    /\ ~stopping /\ ~paused /\ disk # db
    /\ disk' = db
    /\ UNCHANGED <<db, userVars, loadVars, online, paused, stopping, ghosts, count>>

(* The user's pause and resume.                                            *)
Pause ==
    /\ ~stopping /\ ~paused
    /\ Event
    /\ paused' = TRUE
    /\ UNCHANGED <<db, disk, userVars, loadVars, online, stopping, ghosts>>

Resume ==
    /\ ~stopping /\ paused
    /\ paused' = FALSE
    /\ UNCHANGED <<db, disk, userVars, loadVars, online, stopping, ghosts, count>>

(* stop() ends a pause, saves, and ends the threads afterwards.            *)
Stop ==
    /\ ~stopping
    /\ Event
    /\ stopping' = TRUE /\ paused' = FALSE
    /\ disk' = db
    /\ UNCHANGED <<db, userVars, loadVars, online, ghosts>>

(* What a start can make of `left' in the database's file.                 *)
Loaded(left) ==
    UNION {IF d = {} THEN Insertions({}, Bundle) ELSE {d} : d \in Insertions(left, Seed)}

(* The process has ended with `left' in the file, and a new one starts:    *)
(* what the files hold is all it has.                                      *)
Restart(left) ==
    /\ IF stopping THEN UNCHANGED count ELSE Event
    /\ disk' = left
    /\ db' \in Loaded(left)
    /\ kept' = (kept \cap left) \ (left \ db')
    /\ gone' = Without(gone \cup db \cup scan.valid, Keys(db'))
    /\ seen' = {}
    /\ scan' = NoScan
    /\ cmd' = NoCommand
    /\ flag' = FALSE
    /\ dl' = [d \in Downloader |-> NoDownload]
    /\ fresh' = FALSE
    /\ stopping' = FALSE /\ paused' = FALSE
    /\ UNCHANGED <<inbox, done, told, online>>

(* The end after a stop, or a crash between two writes of the file.        *)
End == Restart(disk)

(* saveToDisk truncates the file and writes it row by row.                 *)
CrashInSave(written) ==
    /\ \/ ~stopping
       \/ \E d \in Downloader : dl[d].at = "save"
    /\ written \subseteq db
    /\ Restart(written)

(* The network goes and comes.                                             *)
Network ==
    /\ online' = ~online
    /\ UNCHANGED <<db, disk, userVars, loadVars, paused, stopping, ghosts, count>>

-----------------------------------------------------------------------------
Init ==
    /\ disk \in {links \in SUBSET Wild : Fits(links)}
    /\ db \in Loaded(disk)
    /\ inbox = {} /\ done = {} /\ seen = {} /\ told = {}
    /\ scan = NoScan /\ cmd = NoCommand
    /\ flag = FALSE /\ fresh = FALSE
    /\ dl = [d \in Downloader |-> NoDownload]
    /\ online = FALSE /\ paused = FALSE /\ stopping = FALSE
    /\ kept = {} /\ gone = {}
    /\ count = 0

Download(d) ==
    Claim(d) \/ Probe(d) \/ GetSource(d) \/ SaveDownload(d) \/ EndDownload(d)

Next ==
    \/ \E f \in File : Drop(f) \/ ProcessFile(f) \/ ImportFile(f)
    \/ ListFiles \/ StoreScan
    \/ \E b \in SUBSET cmd.left : ImportBatch(b)
    \/ \E u \in db : RemoveUri(u)
    \/ \E u \in Wild : Harvest(u)
    \/ SaveRemoval \/ LoadRawFiles \/ LoadBundleFiles
    \/ GithubBegin \/ GithubDue
    \/ PostCommand \/ BeginRecheck \/ PostRecheck
    \/ \E d \in Downloader : Download(d)
    \/ PeriodicSave \/ Pause \/ Resume \/ Stop \/ End
    \/ \E written \in SUBSET db : CrashInSave(written)
    \/ Network

Spec == Init /\ [][Next]_vars

(* Every running thread goes on, the GitHub worker comes back every 30 s   *)
(* unless the program is paused, and a process told to stop ends.          *)
FairSpec ==
    /\ Spec
    /\ WF_vars(GithubBegin)
    /\ \A d \in Downloader : WF_vars(Download(d))
    /\ WF_vars(stopping /\ End)

-----------------------------------------------------------------------------
(* Properties                                                              *)

(* The state is well formed.                                               *)
TypeOK ==
    /\ db \subseteq Valid /\ Fits(db)
    /\ disk \subseteq Valid /\ Fits(disk)
    /\ inbox \subseteq File /\ done \subseteq File
    /\ seen \subseteq Valid /\ told \subseteq Valid
    /\ scan.at \in {"idle", "read"}
    /\ scan.left \subseteq inbox /\ scan.valid \subseteq seen
    /\ cmd.at \in {"idle", "add", "save", "recheck", "recheckPaused"}
    /\ cmd.left \subseteq cmd.all /\ cmd.all \subseteq Valid
    /\ flag \in BOOLEAN /\ fresh \in BOOLEAN
    /\ {online, paused, stopping} \subseteq BOOLEAN
    /\ \A d \in Downloader :
          /\ dl[d].at \in {"idle", "claim", "probe", "get", "save"}
          /\ dl[d].next \in 0 .. Len(Sources) + 1
          /\ dl[d].got \subseteq Valid
          /\ dl[d].good \in BOOLEAN
    /\ count \in 0 .. MaxEvents
    /\ kept \subseteq Valid /\ gone \subseteq Valid

(* An import does not get lost on the way to the database: for every       *)
(* importable link that had a line of its own in a file that was moved to  *)
(* processed, and every one of a finished command, the database has a      *)
(* record of its endpoint, or the watcher is about to put it there.  Only  *)
(* a removal, an eviction, a full database or an end of the process can    *)
(* have cost it that (ImportWatcherWorker::execute, import_config_file,    *)
(* and the two tests of what is importable).                               *)
ImportsReachDb ==
    /\ TypeOK
    /\ \A f \in done : \A n \in Content[f] :
          n.form = "link" /\ Importable(n.link) =>
             EndpointKey(n.link) \in Keys(db \cup scan.valid \cup gone)
    /\ Keys(told) \subseteq Keys(db \cup gone)

(* The flag tells the truth: it is up exactly while one thread is inside   *)
(* downloadConfigsAsync, and there is never a second one.                  *)
OneDownload ==
    LET inside == {d \in Downloader : dl[d].at \in {"probe", "get", "save"}}
    IN  /\ flag <=> inside # {}
        /\ Cardinality(inside) <= 1

(* What a download announced as persisted is in the file, through every    *)
(* later save and end of the process, until it is removed or evicted; only *)
(* an end that cuts a save off can lose it (downloadConfigsAsync,          *)
(* saveToDisk).                                                            *)
PersistedStays == kept \subseteq disk

(* Once the network answers for good and nobody pauses the program any     *)
(* more, the GitHub worker succeeds, whatever attempts failed before,      *)
(* whoever else downloads, however often the process is restarted.         *)
GithubSucceeds == <>[](online /\ ~paused) => <>[]fresh

=============================================================================
