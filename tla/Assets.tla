------------------------------ MODULE Assets -------------------------------
(***************************************************************************)
(* IranAssetsWorker: every hour it downloads rule files and puts each in   *)
(* the place of the one it has, through a temporary file.  The process     *)
(* may end between any two steps, and what is on the disk stays.           *)
(*                                                                         *)
(* There is one file.  The source's host has its newest edition; another   *)
(* host, and what a proxy reaches, may still have the one before.          *)
(***************************************************************************)
EXTENDS Fetching, Sequences

CONSTANT
    MaxEditions    \* bound: editions published

ASSUME AssetsAssumption == MaxEditions \in Nat \ {0}

Edition == 1 .. MaxEditions
Absent == 0
Torn == MaxEditions + 1    \* being written
Short == MaxEditions + 2   \* its end was lost when it was closed
Content == Edition \cup {Absent, Torn, Short}

VARIABLES
    newest,     \* the edition the source has
    asset,      \* what the file holds
    temp,       \* what its temporary file holds
    refresh,    \* the step of the refresh
    ways,       \* the ways it has still to try
    body        \* what it downloaded

assetVars == <<newest, asset, temp, refresh, ways, body>>

-----------------------------------------------------------------------------
(* The source publishes an edition.                                        *)
NewEdition ==
    /\ newest < MaxEditions
    /\ newest' = newest + 1
    /\ UNCHANGED <<asset, temp, refresh, ways, body, fetchVars>>

(* The ways to the file, in the order in which they are tried; a proxy is  *)
(* among them if one answered when the refresh began.                      *)
Ways(ok, proxy) ==
    IF ~proxy THEN <<"direct">>
    ELSE IF ok THEN <<"direct", "proxy">> ELSE <<"proxy", "direct">>

(* A refresh begins when it has the fetch lock; one that waited ten        *)
(* seconds for it in vain does nothing.  A look at the direct way less     *)
(* than five minutes old is believed.                                      *)
BeginRefresh ==
    /\ refresh = "idle"
    /\ direct' \in {Access} \cup ({direct} \ {"unknown"})
    /\ \E alive \in BOOLEAN :
          /\ net["proxy"] => alive
          /\ ways' = Ways(direct' = "yes", alive)
    /\ refresh' = "download"
    /\ UNCHANGED <<newest, asset, temp, body, streak, fails, hot, circuit,
                   job, late, last, harvest>>

(* What a way yields now.                                                  *)
Yield(way) ==
    LET older == {newest} \cup ({newest - 1} \cap Edition)
    IN  CASE way = "proxy" -> IF net["proxy"] THEN older ELSE {}
          [] way = "direct" -> (IF net["source"] THEN {newest} ELSE {})
                               \cup (IF net["web"] THEN older ELSE {})

(* readBinaryFile: what is there already is not written again.             *)
Download ==
    /\ refresh = "download" /\ ways # <<>>
    /\ \E b \in Yield(Head(ways)) :
          /\ body' = b
          /\ refresh' = IF asset = b THEN "idle" ELSE "write"
    /\ ways' = <<>>
    /\ UNCHANGED <<newest, asset, temp, fetchVars>>

NextWay ==
    /\ refresh = "download" /\ ways # <<>>
    /\ Yield(Head(ways)) = {}
    /\ ways' = Tail(ways)
    /\ UNCHANGED <<newest, asset, temp, refresh, body, fetchVars>>

GiveUp ==
    /\ refresh = "download" /\ ways = <<>>
    /\ refresh' = "idle"
    /\ UNCHANGED <<newest, asset, temp, ways, body, fetchVars>>

(* wrong variant: the file itself is written *)
WriteInPlace ==
    /\ refresh = "write"
    /\ asset' = Torn
    /\ refresh' = "writing"
    /\ UNCHANGED <<newest, temp, ways, body, fetchVars>>

(* writeBinaryFileAtomic: the temporary file is opened and emptied, ...    *)
Write ==
    /\ refresh = "write"
    /\ temp' = Torn
    /\ refresh' = "writing"
    /\ UNCHANGED <<newest, asset, ways, body, fetchVars>>

(* ... filled, or the disk is full: then the part stays where it is,       *)
(* unless only what was still buffered finds no room, at the closing,      *)
(* where nothing looks, ...                                                *)
Written ==
    /\ refresh = "writing"
    /\ \/ temp' \in {body, Short} /\ refresh' = "rename"
       \/ refresh' = "idle" /\ UNCHANGED temp
    /\ UNCHANGED <<newest, asset, ways, body, fetchVars>>

(* ... and takes the place of the file.  Where that is refused, the file   *)
(* is removed and the rename tried once more.                              *)
Rename ==
    /\ refresh \in {"rename", "rename again"}
    /\ asset' = temp /\ temp' = Absent
    /\ refresh' = "idle"
    /\ UNCHANGED <<newest, ways, body, fetchVars>>

RenameRefused ==
    /\ refresh \in {"rename", "rename again"}
    /\ refresh' = IF refresh = "rename" THEN "remove" ELSE "clean"
    /\ UNCHANGED <<newest, asset, temp, ways, body, fetchVars>>

Remove ==
    /\ refresh = "remove"
    /\ asset' \in {asset, Absent}
    /\ refresh' = "rename again"
    /\ UNCHANGED <<newest, temp, ways, body, fetchVars>>

Clean ==
    /\ refresh = "clean"
    /\ temp' \in {temp, Absent}
    /\ refresh' = "idle"
    /\ UNCHANGED <<newest, asset, ways, body, fetchVars>>

(* The process ends and starts again: it knows nothing of the network.     *)
Crash ==
    /\ refresh # "idle"
    /\ refresh' = "idle" /\ ways' = <<>>
    /\ direct' = "unknown"
    /\ UNCHANGED <<newest, asset, temp, body, streak, fails, hot, circuit,
                   job, late, last, harvest>>

AssetsInit ==
    /\ newest = 1
    /\ asset = Absent /\ temp = Absent
    /\ refresh = "idle" /\ ways = <<>> /\ body = 1

AssetsNext ==
    \/ NewEdition \/ BeginRefresh \/ Download \/ NextWay \/ GiveUp
    \/ Write \/ Written \/ Rename \/ RenameRefused \/ Remove \/ Clean
    \/ Crash

AssetsTypeOK ==
    /\ newest \in Edition /\ body \in Edition
    /\ asset \in Content /\ temp \in Content
    /\ refresh \in {"idle", "download", "write", "writing", "rename", "remove",
                    "rename again", "clean"}
    /\ ways \in {<<>>, <<"direct">>, <<"proxy">>, <<"direct", "proxy">>,
                 <<"proxy", "direct">>}

=============================================================================
