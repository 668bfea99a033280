----------------------------- MODULE MatchFiles -----------------------------
(***************************************************************************)
(* From an accepted match to the store: collectors take matches from the   *)
(* channel and write two files each, named after the match's timestamp,    *)
(* first as <name>.lock, then renamed; sync.sh, started by systemd when    *)
(* there are files, moves them on and uploads them.                        *)
(*                                                                         *)
(* A match is handed over again when it is pushed again after "Upload      *)
(* complete": then two versions have one name. A file is the set of the    *)
(* pieces written since it was created or truncated; whoever has it open   *)
(* writes to it wherever it is moved.                                      *)
(***************************************************************************)
EXTENDS Integers, Sequences

CONSTANTS
  Pushes,      \* bound: for each timestamp, how often its match is accepted
  Kinds,       \* suffixes in the order they are written: match, clean
  Collectors,
  MaxFaults,   \* bound: calls that fail
  NoOne

Stamps == DOMAIN Pushes
KindSet == {Kinds[i] : i \in DOMAIN Kinds}
Files == Stamps \X KindSet
Versions == UNION {1..Pushes[s] : s \in Stamps}

ASSUME FilesAssumption ==
  /\ Pushes \in [Stamps -> Nat \ {0}]
  /\ Kinds \in Seq(KindSet) /\ Kinds # <<>>
  /\ \A i, j \in DOMAIN Kinds : Kinds[i] = Kinds[j] => i = j
  /\ MaxFaults \in Nat
  /\ NoOne \notin Stamps

(* Where a file can be: under its lock name, in one of the directories it  *)
(* passes through, in the store.                                           *)
Shared == {"log", "sync", "bucket", "store"}
Places == {"lock"} \cup Shared
Pieces == Versions \X {"head", "tail"}
Whole(v) == {v} \X {"head", "tail"}
Absent == {<<0, "absent">>}   \* there is no such file

VARIABLES
  queue,    \* the channel: matches as <<timestamp, version>>
  sent,     \* for each timestamp, the last version accepted
  hand,     \* the timestamp each collector is busy with, or NoOne
  ver,      \* and its version
  kind,     \* and which of the files it writes: an index of Kinds
  step,     \* "idle", "create", "write", "close", "rename", "report"
  err,      \* did writeMatchFile meet an error?
  at,       \* where the file is that a collector has open: "none", a place,
            \* or "gone" (another was moved over it, or it was removed)
  disk,     \* the contents of every file in every place
  sync,     \* what sync.sh does for each kind: "off", "sort", "upload", "remove"
  stuck,    \* did it leave files behind?
  faults,   \* history: calls that failed
  told,     \* history: the updates of files, as <<file, version>>, for which
            \* a collector called Cancel(ErrLobbyBad)
  unheard,  \* history: those broken without anyone hearing of it
  shown,    \* history: the version of each file last renamed into "log"
  filed,    \* history: the version of each file last written well, else 0
  clash     \* history: did two collectors ever hold one timestamp?

cvars == <<hand, ver, kind, step, err, at>>
svars == <<sync, stuck>>
hvars == <<faults, told, unheard, shown, filed, clash>>
vars == <<queue, sent, cvars, disk, svars, hvars>>

TypeOK ==
  /\ queue \in Seq(Stamps \X Versions)
  /\ sent \in [Stamps -> Nat] /\ \A s \in Stamps : sent[s] <= Pushes[s]
  /\ hand \in [Collectors -> Stamps \cup {NoOne}]
  /\ ver \in [Collectors -> Versions \cup {0}]
  /\ kind \in [Collectors -> DOMAIN Kinds]
  /\ step \in [Collectors -> {"idle", "create", "write", "close", "rename", "report"}]
  /\ err \in [Collectors -> BOOLEAN]
  /\ at \in [Collectors -> Places \cup {"none", "gone"}]
  /\ disk \in [Places -> [Files -> (SUBSET Pieces) \cup {Absent}]]
  /\ sync \in [KindSet -> {"off", "sort", "upload", "remove"}]
  /\ stuck \in BOOLEAN /\ clash \in BOOLEAN
  /\ faults \in 0..MaxFaults
  /\ told \subseteq Files \X Versions /\ unheard \subseteq Files \X Versions
  /\ shown \in [Files -> Versions \cup {0}]
  /\ filed \in [Files -> Versions \cup {0}]

Init ==
  /\ queue = <<>> /\ sent = [s \in Stamps |-> 0]
  /\ hand = [c \in Collectors |-> NoOne] /\ ver = [c \in Collectors |-> 0]
  /\ kind = [c \in Collectors |-> 1] /\ step = [c \in Collectors |-> "idle"]
  /\ err = [c \in Collectors |-> FALSE] /\ at = [c \in Collectors |-> "none"]
  /\ disk = [p \in Places |-> [f \in Files |-> Absent]]
  /\ sync = [k \in KindSet |-> "off"] /\ stuck = FALSE
  /\ faults = 0 /\ told = {} /\ unheard = {} /\ clash = FALSE
  /\ shown = [f \in Files |-> 0]
  /\ filed = [f \in Files |-> 0]

-----------------------------------------------------------------------------
FileOf(c) == <<hand[c], Kinds[kind[c]]>>
Update(c) == <<FileOf(c), ver[c]>>
Exists(p, f) == disk[p][f] # Absent
Fails == faults < MaxFaults /\ faults' = faults + 1
To(c, s) == step' = [step EXCEPT ![c] = s]

(* The file f of place p gets contents x.                                  *)
Put(p, f, x) == disk' = [disk EXCEPT ![p][f] = x]

(* rename: the files F of place p go to place q, where they replace what   *)
(* is there; open files go along.                                          *)
Rename(p, q, F) ==
  /\ disk' = [disk EXCEPT ![p] = [f \in Files |-> IF f \in F THEN Absent ELSE @[f]],
                          ![q] = [f \in Files |-> IF f \in F THEN disk[p][f] ELSE @[f]]]
  /\ at' = [c \in Collectors |->
              IF FileOf(c) \notin F \/ at[c] \notin {p, q} THEN at[c]
              ELSE IF at[c] = p THEN q ELSE "gone"]

In(p) == {f \in Files : Exists(p, f)}
OfKind(k) == {f \in Files : f[2] = k}

-----------------------------------------------------------------------------
(* collect: the match is accepted, perhaps once more.                      *)
Send(s) ==
  /\ sent[s] < Pushes[s]
  /\ sent' = [sent EXCEPT ![s] = @ + 1]
  /\ queue' = Append(queue, <<s, sent[s] + 1>>)
  /\ UNCHANGED <<cvars, disk, svars, hvars>>

Take(c) ==
  /\ step[c] = "idle" /\ queue # <<>>
  /\ LET m == Head(queue)
     IN  /\ hand' = [hand EXCEPT ![c] = m[1]]
         /\ ver' = [ver EXCEPT ![c] = m[2]]
         /\ clash' = (clash \/ \E d \in Collectors \ {c} : hand[d] = m[1])
  /\ queue' = Tail(queue)
  /\ kind' = [kind EXCEPT ![c] = 1]
  /\ To(c, "create")
  /\ UNCHANGED <<sent, err, at, disk, svars, faults, told, unheard, shown, filed>>

(* os.Create truncates a lock file that is there already, also one that    *)
(* somebody else has open. The mutant writes to the final name.            *)
CreateInPlace(c) ==
  /\ step[c] = "create"
  /\ Put("log", FileOf(c), {})
  /\ at' = [at EXCEPT ![c] = "log"]
  /\ To(c, "write")
  /\ UNCHANGED <<queue, sent, hand, ver, kind, err, svars, hvars>>
Create(c) ==
  /\ step[c] = "create"
  /\ Put("lock", FileOf(c), {})
  /\ at' = [at EXCEPT ![c] = "lock"]
  /\ To(c, "write")
  /\ UNCHANGED <<queue, sent, hand, ver, kind, err, svars, hvars>>

CreateFails(c) ==
  /\ step[c] = "create" /\ Fails
  /\ err' = [err EXCEPT ![c] = TRUE]
  /\ To(c, "report")
  /\ UNCHANGED <<queue, sent, hand, ver, kind, at, disk, svars, told, unheard, shown, filed, clash>>

(* A piece of c's version reaches the file c has open, if it still has a   *)
(* name.                                                                   *)
Written(c, x) ==
  IF at[c] = "gone" THEN UNCHANGED disk
  ELSE Put(at[c], FileOf(c), disk[at[c]][FileOf(c)] \cup {<<ver[c], x>>})

Write(c) ==
  /\ step[c] = "write"
  /\ Written(c, "head")
  /\ To(c, "close")
  /\ UNCHANGED <<queue, sent, hand, ver, kind, err, at, svars, hvars>>

(* The error is returned once the deferred calls have closed and renamed.  *)
WriteFails(c) ==
  /\ step[c] = "write" /\ Fails
  /\ err' = [err EXCEPT ![c] = TRUE]
  /\ To(c, "close")
  /\ UNCHANGED <<queue, sent, hand, ver, kind, at, disk, svars, told, unheard, shown, filed, clash>>

(* The deferred closes of compressor and file write the rest ...           *)
Close(c) ==
  /\ step[c] = "close"
  /\ Written(c, "tail")
  /\ at' = [at EXCEPT ![c] = "none"]
  /\ To(c, "rename")
  /\ UNCHANGED <<queue, sent, hand, ver, kind, err, svars, hvars>>

(* ... and nobody looks at their errors.                                   *)
CloseFails(c) ==
  /\ step[c] = "close" /\ Fails
  /\ at' = [at EXCEPT ![c] = "none"]
  /\ unheard' = unheard \cup {Update(c)}
  /\ To(c, "rename")
  /\ UNCHANGED <<queue, sent, hand, ver, kind, err, disk, svars, told, shown, filed, clash>>

(* On to the other file, also after an error, or to the next match. The    *)
(* mutant counts one file too far.                                         *)
ProceedOver(c) ==
  IF kind[c] > Len(Kinds)
  THEN /\ To(c, "idle")
       /\ hand' = [hand EXCEPT ![c] = NoOne] /\ ver' = [ver EXCEPT ![c] = 0]
       /\ kind' = [kind EXCEPT ![c] = 1]
  ELSE /\ To(c, "create")
       /\ kind' = [kind EXCEPT ![c] = @ + 1]
       /\ UNCHANGED <<hand, ver>>
Proceed(c) ==
  IF kind[c] = Len(Kinds)
  THEN /\ To(c, "idle")
       /\ hand' = [hand EXCEPT ![c] = NoOne] /\ ver' = [ver EXCEPT ![c] = 0]
       /\ kind' = [kind EXCEPT ![c] = 1]
  ELSE /\ To(c, "create")
       /\ kind' = [kind EXCEPT ![c] = @ + 1]
       /\ UNCHANGED <<hand, ver>>

(* The deferred rename, after an error too; a lock file that is gone is    *)
(* an error nobody looks at.                                               *)
Publish(c) ==
  /\ step[c] = "rename"
  /\ Rename("lock", "log", {FileOf(c)} \cap In("lock"))
  /\ filed' = [filed EXCEPT ![FileOf(c)] =
                 IF disk["lock"][FileOf(c)] = Whole(ver[c]) THEN ver[c] ELSE 0]
  /\ shown' = [shown EXCEPT ![FileOf(c)] = ver[c]]
  /\ IF err[c] THEN To(c, "report") /\ UNCHANGED <<hand, ver, kind>> ELSE Proceed(c)
  /\ UNCHANGED <<queue, sent, err, svars, faults, told, unheard, clash>>

(* After an error of writeMatchFile the collector calls Cancel with        *)
(* ErrLobbyBad; what becomes of that call is the business of module Lobby. *)
(* The mutant looks only at the error of the last file.                    *)
ReportLast(c) ==
  /\ step[c] = "report"
  /\ told' = IF kind[c] = Len(Kinds) THEN told \cup {Update(c)} ELSE told
  /\ err' = [err EXCEPT ![c] = FALSE]
  /\ Proceed(c)
  /\ UNCHANGED <<queue, sent, at, disk, svars, faults, unheard, shown, filed, clash>>
Report(c) ==
  /\ step[c] = "report"
  /\ told' = told \cup {Update(c)}
  /\ err' = [err EXCEPT ![c] = FALSE]
  /\ Proceed(c)
  /\ UNCHANGED <<queue, sent, at, disk, svars, faults, unheard, shown, filed, clash>>

(* The lobby is killed: what was accepted is lost, lock files stay, and    *)
(* the next lobby starts afresh.                                           *)
Crash ==
  /\ Fails
  /\ queue' = <<>>
  /\ hand' = [c \in Collectors |-> NoOne] /\ ver' = [c \in Collectors |-> 0]
  /\ kind' = [c \in Collectors |-> 1] /\ step' = [c \in Collectors |-> "idle"]
  /\ err' = [c \in Collectors |-> FALSE] /\ at' = [c \in Collectors |-> "none"]
  /\ unheard' = unheard \cup {Update(c) : c \in {c \in Collectors : err[c]}}
  /\ UNCHANGED <<sent, disk, svars, told, shown, filed, clash>>

-----------------------------------------------------------------------------
(* The path unit sees a file and starts the service, which first empties   *)
(* the log directory.                                                      *)
Off == \A k \in KindSet : sync[k] = "off"

Start ==
  /\ Off /\ In("log") # {}
  /\ Rename("log", "sync", In("log"))
  /\ sync' = [k \in KindSet |-> "sort"] /\ stuck' = FALSE
  /\ UNCHANGED <<queue, sent, hand, ver, kind, step, err, hvars>>

(* For each kind on its own, in the background: the files go to the        *)
(* bucket's directory, where others may have been left behind ... The      *)
(* mutant looks into that directory before it moves anything.              *)
SortLazily(k) ==
  /\ sync[k] = "sort"
  /\ Rename("sync", "bucket", In("sync") \cap OfKind(k))
  /\ sync' = [sync EXCEPT ![k] = IF In("bucket") \cap OfKind(k) = {} THEN "off" ELSE "upload"]
  /\ UNCHANGED <<queue, sent, hand, ver, kind, step, err, stuck, hvars>>
Sort(k) ==
  /\ sync[k] = "sort"
  /\ Rename("sync", "bucket", In("sync") \cap OfKind(k))
  /\ sync' = [sync EXCEPT ![k] =
                IF (In("sync") \cup In("bucket")) \cap OfKind(k) = {} THEN "off" ELSE "upload"]
  /\ UNCHANGED <<queue, sent, hand, ver, kind, step, err, stuck, hvars>>

(* ... a move that fails leaves its file where it is, and the script goes  *)
(* on with the next; whether it then uploads depends on the last one.      *)
SortFails(k) ==
  /\ sync[k] = "sort" /\ Fails
  /\ \E F \in SUBSET (In("sync") \cap OfKind(k)) : Rename("sync", "bucket", F)
  /\ sync' \in {[sync EXCEPT ![k] = next] : next \in {"off", "upload"}} /\ stuck' = TRUE
  /\ UNCHANGED <<queue, sent, hand, ver, kind, step, err, told, unheard, shown, filed, clash>>

(* ... are all copied to the store ...                                     *)
Copy(F) == disk' = [disk EXCEPT !["store"] =
                      [f \in Files |-> IF f \in F THEN disk["bucket"][f] ELSE @[f]]]

Upload(k) ==
  /\ sync[k] = "upload"
  /\ Copy(In("bucket") \cap OfKind(k))
  /\ sync' = [sync EXCEPT ![k] = "remove"]
  /\ UNCHANGED <<queue, sent, cvars, stuck, hvars>>

(* ... and removed, unless copying some of them failed: set -e ends the    *)
(* kind's part. The mutant removes them all the same.                      *)
UploadFailsOn(k) ==
  /\ sync[k] = "upload" /\ Fails
  /\ \E F \in SUBSET (In("bucket") \cap OfKind(k)) : Copy(F)
  /\ sync' = [sync EXCEPT ![k] = "remove"] /\ stuck' = TRUE
  /\ UNCHANGED <<queue, sent, cvars, told, unheard, shown, filed, clash>>
UploadFails(k) ==
  /\ sync[k] = "upload" /\ Fails
  /\ \E F \in SUBSET (In("bucket") \cap OfKind(k)) : Copy(F)
  /\ sync' = [sync EXCEPT ![k] = "off"] /\ stuck' = TRUE
  /\ UNCHANGED <<queue, sent, cvars, told, unheard, shown, filed, clash>>

(* rm: the files F are gone.                                               *)
Delete(F) ==
  /\ disk' = [disk EXCEPT !["bucket"] = [f \in Files |-> IF f \in F THEN Absent ELSE @[f]]]
  /\ at' = [c \in Collectors |-> IF at[c] = "bucket" /\ FileOf(c) \in F THEN "gone" ELSE at[c]]

Remove(k) ==
  /\ sync[k] = "remove"
  /\ Delete(OfKind(k))
  /\ sync' = [sync EXCEPT ![k] = "off"]
  /\ UNCHANGED <<queue, sent, hand, ver, kind, step, err, stuck, hvars>>

RemoveFails(k) ==
  /\ sync[k] = "remove" /\ Fails
  /\ \E F \in SUBSET (In("bucket") \cap OfKind(k)) : Delete(F)
  /\ sync' = [sync EXCEPT ![k] = "off"] /\ stuck' = TRUE
  /\ UNCHANGED <<queue, sent, hand, ver, kind, step, err, told, unheard, shown, filed, clash>>

(* The script is killed, between two of its steps; in the middle of one,   *)
(* it is as if that had failed before.                                     *)
SyncCrash ==
  /\ ~Off /\ Fails
  /\ sync' = [k \in KindSet |-> "off"] /\ stuck' = TRUE
  /\ UNCHANGED <<queue, sent, cvars, disk, told, unheard, shown, filed, clash>>

Collect(c) == Take(c) \/ Create(c) \/ Write(c) \/ Close(c) \/ Publish(c) \/ Report(c)
Trouble(c) == CreateFails(c) \/ WriteFails(c) \/ CloseFails(c)
Syncing(k) == Sort(k) \/ Upload(k) \/ Remove(k)
SyncTrouble(k) == SortFails(k) \/ UploadFails(k) \/ RemoveFails(k)

(* All is written and uploaded, or waits for the next file.                *)
Quiet == queue = <<>> /\ (\A c \in Collectors : step[c] = "idle")
Ended == /\ Quiet /\ Off /\ In("log") = {} /\ (\A s \in Stamps : sent[s] = Pushes[s])
         /\ UNCHANGED vars

Next ==
  \/ \E s \in Stamps : Send(s)
  \/ \E c \in Collectors : Collect(c) \/ Trouble(c)
  \/ Crash
  \/ Start
  \/ \E k \in KindSet : Syncing(k) \/ SyncTrouble(k)
  \/ SyncCrash
  \/ Ended

Spec == Init /\ [][Next]_vars

(* Collectors and script go on, and systemd starts the script.             *)
FairSpec == /\ Spec
            /\ \A c \in Collectors : WF_vars(Collect(c))
            /\ WF_vars(Start)
            /\ \A k \in KindSet : WF_vars(Syncing(k))

-----------------------------------------------------------------------------
(* Properties                                                              *)

(* What others can see is not written to any more, so no half-written file *)
(* is taken or uploaded; unless two collectors share a lock file           *)
(* (collect.go:85-94).                                                     *)
OpenOnlyLocked == ~clash => \A c \in Collectors : at[c] \in {"none", "lock"}

(* The most recent copy of a file.                                         *)
Newest(f) == IF Exists("log", f) THEN disk["log"][f]
             ELSE IF Exists("sync", f) THEN disk["sync"][f]
             ELSE IF Exists("bucket", f) THEN disk["bucket"][f]
             ELSE disk["store"][f]

(* A file that is not whole does not become the one others find but a      *)
(* collector calls Cancel(ErrLobbyBad) on account of this very update, or  *)
(* is about to, in the lobby at hand or in one before; a failing close and *)
(* a kill in between are the exceptions (collect.go:67-76, 90-100). The    *)
(* call need not end the lobby with ErrLobbyBad: another reason may be on  *)
(* record, and Run's result be fixed (lobby.go:118, 282).                  *)
BrokenReported ==
  clash \/ \A f \in Files :
    \/ Newest(f) \in {Absent} \cup {Whole(v) : v \in Versions}
    \/ <<f, shown[f]>> \in told \cup unheard
    \/ \E c \in Collectors : err[c] /\ Update(c) = <<f, shown[f]>>

(* Nothing that was written well is lost or replaced by an older version,  *)
(* whenever uploads fail and lobbies or the script are killed              *)
(* (collect.go:80-101, sync.sh:13-61).                                     *)
NothingLost == ~clash => \A f \in Files : filed[f] # 0 => Newest(f) = Whole(filed[f])

(* It gets to the store: again and again there comes a moment when what    *)
(* was last written well to a file is there, unless the script left files  *)
(* behind for its next run                                                 *)
(* (sync.sh:15-49, gs.snap.lobby.sync-SnapshotVR@.path:10).                *)
Uploaded == \A f \in Files :
  []<>(filed[f] = 0 \/ disk["store"][f] = Whole(filed[f]) \/ stuck \/ clash)

(* The README taken at its word: when all is written and no call failed,   *)
(* what is left of a match is not an update that was superseded            *)
(* (README.md:14-15).                                                      *)
FinalUpdate ==
  Quiet /\ faults = 0 =>
    \A f \in Files, v \in Versions : v < sent[f[1]] => Newest(f) # Whole(v)
=============================================================================
