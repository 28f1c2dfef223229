------------------------------ MODULE LogView ------------------------------
(***************************************************************************)
(* The log that every thread writes and two threads of the window read:    *)
(* LogRingBuffer, the list of lines that the window shows, and the state   *)
(* of the download that the window's background thread gathers from the    *)
(* lines of the download.                                                  *)
(*                                                                         *)
(* A line is its number, what it is, and a count: the text, the time stamp *)
(* and the details of a progress line are abstracted.                      *)
(***************************************************************************)
EXTENDS Integers, Sequences

CONSTANTS
    Capacity,     \* lines in the ring (2000)
    FrameMax,     \* lines the window takes at a time (500)
    PollMax,      \* lines the background thread takes at a time (100)
    MaxUiLogs,    \* lines the window keeps (2000)
    Sources,      \* sources of a download
    MaxLines,     \* bound: lines written
    MaxClicks     \* bound: downloads the user asks for

ASSUME LogViewAssumption ==
    /\ {Capacity, FrameMax, PollMax, MaxUiLogs} \subseteq Nat \ {0}
    /\ {Sources, MaxLines, MaxClicks} \subseteq Nat
    /\ FrameMax <= Capacity /\ FrameMax <= MaxUiLogs

VARIABLES
    buf,          \* buf_: the ring
    written,      \* write_pos_
    generation,   \* log_generation_, up to where the window has read
    shown,        \* ui_logs_
    cleared,      \* ghost: up to where the window had read when it was cleared
    pollFrom,     \* download_log_generation_
    polled,       \* lines the background thread has taken and not yet parsed
    polling,      \* whether it is between taking lines and its next pause
    progress,     \* download_progress_
    posted,       \* commands to download that wait for the command worker
    download,     \* the download thread: where it is, and the sources done
    clicks        \* what the user asked for so far

logVars == <<buf, written, generation, shown, cleared, pollFrom, polled, polling,
             progress, posted, download, clicks>>

Kind == {"other", "progress", "completed", "finished"}
Line == [n : Nat, kind : Kind, count : 0 .. Sources]

Lesser(a, b) == IF a < b THEN a ELSE b

-----------------------------------------------------------------------------
(* LogRingBuffer                                                           *)
Push(kind, count) ==
    /\ written < MaxLines
    /\ buf' = [buf EXCEPT ![written % Capacity] =
                  [n |-> written, kind |-> kind, count |-> count]]
    /\ written' = written + 1

(* wrong variant: the oldest lines are taken, and the others are skipped   *)
OldestFirst(since, max) ==
    LET available == Lesser(Lesser(written - since, Capacity), max)
    IN  [i \in 1 .. available |-> buf[(since + i - 1) % Capacity]]

(* fetchSince: the latest lines written since then, max at most; the       *)
(* reader then stands at the end.                                          *)
FetchSince(since, max) ==
    LET available == Lesser(Lesser(written - since, Capacity), max)
    IN  [i \in 1 .. available |-> buf[(written - available + i - 1) % Capacity]]

LastOf(s, max) == SubSeq(s, Len(s) - Lesser(Len(s), max) + 1, Len(s))

Log == Push("other", 0)
       /\ UNCHANGED <<generation, shown, cleared, pollFrom, polled, polling,
                      progress, posted, download, clicks>>

(* A frame of the window: ConsumeNewLogs.                                  *)
ConsumeNewLogs ==
    /\ generation < written
    /\ shown' = LastOf(shown \o FetchSince(generation, FrameMax), MaxUiLogs)
    /\ generation' = written
    /\ UNCHANGED <<cleared, buf, written, pollFrom, polled, polling, progress,
                   posted, download, clicks>>

(* The Clear button of the Logs page: what has been read is not read again. *)
Clear ==
    /\ shown' = <<>> /\ cleared' = generation
    /\ UNCHANGED <<buf, written, generation, pollFrom, polled, polling,
                   progress, posted, download, clicks>>

-----------------------------------------------------------------------------
(* The background thread, every two seconds: it takes lines, parses them   *)
(* one by one, and then starts from what has been written by now.  A line  *)
(* that says that a source is completed ends the download in the window.   *)
Poll ==
    /\ ~polling /\ pollFrom < written
    /\ polled' = FetchSince(pollFrom, PollMax)
    /\ polling' = TRUE /\ pollFrom' = written
    /\ UNCHANGED <<buf, written, generation, shown, cleared, progress, posted,
                   download, clicks>>

ParseLine ==
    /\ polling /\ polled # <<>>
    /\ polled' = Tail(polled)
    /\ LET l == Head(polled)
       IN  progress' =
             CASE l.kind = "progress" -> [progress EXCEPT !.count = l.count]
               [] l.kind \in {"completed", "finished"} -> [active |-> FALSE, count |-> l.count]
               [] OTHER -> progress
    /\ UNCHANGED <<buf, written, generation, shown, cleared, pollFrom, polling,
                   posted, download, clicks>>

Polled ==
    /\ polling /\ polled = <<>>
    /\ polling' = FALSE /\ pollFrom' = written
    /\ UNCHANGED <<buf, written, generation, shown, cleared, polled, progress,
                   posted, download, clicks>>

-----------------------------------------------------------------------------
(* DownloadConfigsFromSources shows the download before the command for it *)
(* has been looked at.                                                     *)
DownloadConfigsFromSources ==
    /\ clicks < MaxClicks /\ clicks' = clicks + 1
    /\ progress' = [active |-> TRUE, count |-> 0]
    /\ posted' = posted + 1
    /\ UNCHANGED <<buf, written, generation, shown, cleared, pollFrom, polled,
                   polling, download>>

NoDownload == [at |-> "off", done |-> 0]

(* The command worker: one download at a time, others are skipped, and so  *)
(* is one without any way out of the network.                              *)
StartDownload ==
    /\ posted > 0 /\ posted' = posted - 1
    /\ download' \in IF download.at = "off"
                     THEN {NoDownload, [at |-> "start", done |-> 0]}
                     ELSE {download}
    /\ UNCHANGED <<buf, written, generation, shown, cleared, pollFrom, polled,
                   polling, progress, clicks>>

(* emitProgress: at the start, before and after each source, and at the    *)
(* end or when the program stops.                                          *)
Emit(from, kind, count, to) ==
    /\ download.at = from /\ download' = to
    /\ Push(kind, count)
    /\ UNCHANGED <<generation, shown, cleared, pollFrom, polled, polling,
                   progress, posted, clicks>>

Starting == Emit("start", "progress", 0, [download EXCEPT !.at = "next"])

Downloading ==
    /\ download.done < Sources
    /\ Emit("next", "progress", download.done, [download EXCEPT !.at = "source"])

SourceDone ==
    \E kind \in {"completed", "progress"} :
        Emit("source", kind, download.done + 1,
             [at |-> "next", done |-> download.done + 1])

Stopped ==
    /\ download.done < Sources
    /\ Emit("next", "progress", download.done, NoDownload)

Finished ==
    /\ download.done = Sources
    /\ Emit("next", "finished", Sources, NoDownload)

LogInit ==
    /\ buf = [i \in 0 .. Capacity - 1 |-> [n |-> 0, kind |-> "other", count |-> 0]]
    /\ written = 0 /\ generation = 0 /\ shown = <<>> /\ cleared = 0
    /\ pollFrom = 0 /\ polled = <<>> /\ polling = FALSE
    /\ progress = [active |-> FALSE, count |-> 0]
    /\ posted = 0 /\ download = NoDownload /\ clicks = 0

LogNext ==
    \/ Log \/ ConsumeNewLogs \/ Clear
    \/ Poll \/ ParseLine \/ Polled
    \/ DownloadConfigsFromSources \/ StartDownload
    \/ Starting \/ Downloading \/ SourceDone \/ Stopped \/ Finished

-----------------------------------------------------------------------------
LogTypeOK ==
    /\ buf \in [0 .. Capacity - 1 -> Line]
    /\ written \in 0 .. MaxLines
    /\ generation \in 0 .. written /\ pollFrom \in 0 .. written
    /\ cleared \in 0 .. generation
    /\ \A i \in DOMAIN shown : shown[i] \in Line
    /\ \A i \in DOMAIN polled : polled[i] \in Line
    /\ polling \in BOOLEAN
    /\ progress \in [active : BOOLEAN, count : 0 .. Sources]
    /\ posted \in 0 .. MaxClicks /\ clicks \in 0 .. MaxClicks
    /\ download \in [at : {"off", "start", "next", "source"}, done : 0 .. Sources]

(* The window shows lines in the order in which they were written and none *)
(* twice, nothing from before it was last cleared, and the latest FrameMax *)
(* of those it has come to since then without a gap, however many were     *)
(* written between two frames and whatever overtook the reader in the ring *)
(* (LogRingBuffer::fetchSince, ConsumeNewLogs, DrawLogsPage).              *)
LatestShown ==
    /\ \A i, j \in DOMAIN shown : i < j => shown[i].n < shown[j].n
    /\ \A i \in DOMAIN shown : shown[i].n >= cleared
    /\ \A k \in 1 .. Lesser(FrameMax, generation - cleared) :
           Len(shown) >= k /\ shown[Len(shown) - k + 1].n = generation - k

=============================================================================
