------------------------------ MODULE DirWatch ------------------------------
(***************************************************************************)
(* internal/watch.Watch as Spec.Watch and Options.Watch use it: a          *)
(* directory tree is walked once, then a goroutine collects the names that *)
(* the kernel reports, and some time after the first of a batch reads the  *)
(* files named in it and updates the values. When the watch ends, the last *)
(* batch is applied and the values are reset.                              *)
(*                                                                         *)
(* A file is written in place, published by renaming <key>.lock to <key>,  *)
(* or retired by renaming <key> to last<key> (stat.go does both to the     *)
(* files peers watch). A change and its events are one step, as in the     *)
(* kernel; the values are read by others at any time, so assigning one is  *)
(* a step of its own.                                                      *)
(***************************************************************************)
EXTENDS DirFiles, Sequences, Integers

CONSTANTS
  Dirs,        \* the directory itself and those it links to (peer, flag)
  DirOf,       \* the one each key is in
  Root,        \* the directory itself
  NoKey,
  Overflow,    \* the event that stands for lost ones
  QueueCap,    \* bound: events the kernel queues (fs.inotify.max_queued_events)
  MaxChanges   \* bound: changes of files

Forms == {"plain", "lock", "last"}
Names == Keys \X Forms

ASSUME DirAssumption ==
  /\ Root \in Dirs
  /\ DirOf \in [Keys -> Dirs]
  /\ NoKey \notin Keys
  /\ Overflow \notin Names
  /\ QueueCap \in Nat \ {0}
  /\ MaxChanges \in Nat

VARIABLES
  file, value,
  walk,      \* for each directory "no", "added" (watched), "listed" (read too)
  queue,     \* the kernel's events, and those on their way to the goroutine
  batch,     \* events: the names collected since the last were applied
  ticker,    \* is the ticker running?
  due,       \* is a tick in its channel? (Stop leaves it there)
  pc,        \* "walk", "failed", "first" (apply what the walk found, before
             \* the goroutine starts), "select", "apply", "drain" (apply, then
             \* reset), "reset", "closed"
  todo,      \* keys of the batch being applied, not yet read
  at, got,   \* the key being updated, or NoKey, and the value for it
  stop,      \* "no", "cancelled" (ctx), "closed" (the watcher, by cancel)
  missed,    \* history: keys with a change whose events were all lost
  changes    \* history: changes so far

wvars == <<walk, queue, batch, ticker, due, pc, todo, at, got>>
vars == <<file, value, wvars, stop, missed, changes>>

TypeOK ==
  /\ file \in [Keys -> Contents] /\ value \in [Keys -> Values]
  /\ walk \in [Dirs -> {"no", "added", "listed"}]
  /\ queue \in Seq(Names \cup {Overflow}) /\ Len(queue) <= QueueCap + 1
  /\ batch \subseteq Names
  /\ ticker \in BOOLEAN /\ due \in BOOLEAN
  /\ pc \in {"walk", "failed", "first", "apply", "select", "drain", "reset", "closed"}
  /\ todo \subseteq Keys
  /\ at \in Keys \cup {NoKey} /\ got \in Values
  /\ stop \in {"no", "cancelled", "closed"}
  /\ missed \subseteq Keys
  /\ changes \in 0..MaxChanges

Init ==
  /\ file \in [Keys -> Contents]
  /\ value = [k \in Keys |-> Default]
  /\ walk = [d \in Dirs |-> "no"]
  /\ queue = <<>> /\ batch = {}
  /\ ticker = FALSE /\ due = FALSE
  /\ pc = "walk"
  /\ todo = {} /\ at = NoKey /\ got = Default
  /\ stop = "no"
  /\ missed = {} /\ changes = 0

-----------------------------------------------------------------------------
(* The names that make the key k be read: LastNames adds <key> for         *)
(* last<key>, but only at the start of a name and so in the directory      *)
(* itself; LockNames turns <key>.lock into <key>; SameNames makes the      *)
(* batch a set. The mutants lack a filter.                                 *)
NamesOfNoLock(k) == {<<k, "plain">>} \cup {<<k, "last">> : d \in {DirOf[k]} \cap {Root}}
NamesOf(k) ==
  {<<k, "plain">>, <<k, "lock">>} \cup {<<k, "last">> : d \in {DirOf[k]} \cap {Root}}

ReadFrom(names) == {k \in Keys : names \cap NamesOf(k) # {}}

-----------------------------------------------------------------------------
(* The kernel: an event that finds the queue full is lost, the first of    *)
(* them leaves an overflow event.                                          *)
Full(q) == Len(q) >= QueueCap
Has(q, n) == \E i \in DOMAIN q : q[i] = n
Put(q, e) ==
  IF ~Full(q) THEN Append(q, e)
  ELSE IF Has(q, Overflow) THEN q
  ELSE Append(q, Overflow)

Watching == stop # "closed" /\ pc \notin {"failed", "closed"}
Watched(k) == Watching /\ walk[DirOf[k]] # "no"

(* Contents c for key k; the events are the key in form f and, unless      *)
(* Nothing, in form g.                                                     *)
Nothing == "nothing"
Reported(k, f, g) ==
  LET q == Put(queue, <<k, f>>)
  IN  IF g = Nothing THEN q ELSE Put(q, <<k, g>>)

Change(k, c, f, g) ==
  /\ changes < MaxChanges
  /\ changes' = changes + 1
  /\ file' = [file EXCEPT ![k] = c]
  /\ IF Watched(k)
     THEN /\ queue' = Reported(k, f, g)
          /\ missed' = IF Full(queue) THEN missed \cup {k} ELSE missed
     ELSE UNCHANGED <<queue, missed>>
  /\ UNCHANGED <<value, walk, batch, ticker, due, pc, todo, at, got, stop>>

Edit(k, c) == Change(k, c, "plain", Nothing)
Publish(k, c) == Change(k, c, "lock", "plain")
Retire(k) == Change(k, Blank, "plain", "last")

Tick ==
  /\ ticker /\ ~due
  /\ due' = TRUE
  /\ UNCHANGED <<file, value, walk, queue, batch, ticker, pc, todo, at, got, stop, missed, changes>>

(* The context is cancelled, or the cancel function is called.             *)
Stop(s) ==
  /\ s = "closed" => pc \notin {"walk", "failed", "first"}
  /\ stop = "no"
  /\ stop' = s
  /\ UNCHANGED <<file, value, wvars, missed, changes>>
-----------------------------------------------------------------------------
(* The walk: a directory is watched before it is listed, and one that is   *)
(* linked to comes after the directory itself.                             *)
MayAdd(d) == /\ \A e \in Dirs : walk[e] # "added"
             /\ d = Root \/ walk[Root] = "listed"

AddDir(d) ==
  /\ pc = "walk" /\ walk[d] = "no" /\ MayAdd(d)
  /\ walk' = [walk EXCEPT ![d] = "added"]
  /\ UNCHANGED <<file, value, queue, batch, ticker, due, pc, todo, at, got, stop, missed, changes>>

(* Files with contents are found; empty ones (the rest of S) may be too.   *)
(* The mutant may overlook files.                                          *)
ListDirSome(d, S) ==
  /\ pc = "walk" /\ walk[d] = "added"
  /\ walk' = [walk EXCEPT ![d] = "listed"]
  /\ batch' = batch \cup {<<k, "plain">> : k \in S}
  /\ UNCHANGED <<file, value, queue, ticker, due, pc, todo, at, got, stop, missed, changes>>
ListDir(d, S) ==
  /\ pc = "walk" /\ walk[d] = "added"
  /\ {k \in Keys : DirOf[k] = d /\ file[k] # Blank} \subseteq S
  /\ walk' = [walk EXCEPT ![d] = "listed"]
  /\ batch' = batch \cup {<<k, "plain">> : k \in S}
  /\ UNCHANGED <<file, value, queue, ticker, due, pc, todo, at, got, stop, missed, changes>>

(* A directory cannot be read or watched, or two links lead to one.        *)
WalkFails ==
  /\ pc = "walk"
  /\ pc' = "failed" /\ queue' = <<>> /\ batch' = {}
  /\ UNCHANGED <<file, value, walk, ticker, due, todo, at, got, stop, missed, changes>>

(* wrap: what was collected is to be applied; the ticker stops if that is  *)
(* anything.                                                               *)
Wrap(next) ==
  /\ ticker' = (ticker /\ batch = {})
  /\ todo' = ReadFrom(batch) /\ batch' = {}
  /\ pc' = next

(* The ticker is made, and what the walk found applied at once.            *)
WalkDone ==
  /\ pc = "walk" /\ \A d \in Dirs : walk[d] = "listed"
  /\ ticker' = (batch = {})
  /\ todo' = ReadFrom(batch) /\ batch' = {}
  /\ pc' = "first"
  /\ UNCHANGED <<file, value, walk, queue, due, at, got, stop, missed, changes>>

(* The first name of a batch starts the ticker. The mutant leaves it off.  *)
ReceiveNoReset ==
  /\ pc = "select" /\ queue # <<>> /\ Head(queue) # Overflow
  /\ queue' = Tail(queue) /\ batch' = batch \cup {Head(queue)}
  /\ UNCHANGED <<file, value, walk, ticker, due, pc, todo, at, got, stop, missed, changes>>
Receive ==
  /\ pc = "select" /\ queue # <<>> /\ Head(queue) # Overflow
  /\ queue' = Tail(queue) /\ batch' = batch \cup {Head(queue)}
  /\ ticker' = (ticker \/ batch = {})
  /\ UNCHANGED <<file, value, walk, due, pc, todo, at, got, stop, missed, changes>>

(* An error of the watcher only hastens the batch: the callbacks ignore it.*)
ReceiveError ==
  /\ pc = "select" /\ queue # <<>> /\ Head(queue) = Overflow
  /\ queue' = Tail(queue)
  /\ Wrap("apply")
  /\ UNCHANGED <<file, value, walk, due, at, got, stop, missed, changes>>

TakeTick ==
  /\ pc = "select" /\ due
  /\ due' = FALSE
  /\ Wrap("apply")
  /\ UNCHANGED <<file, value, walk, queue, at, got, stop, missed, changes>>

(* The context's error, or a closed channel. The mutant takes it for an    *)
(* error like any other.                                                   *)
StopSeenPassing ==
  /\ pc = "select" /\ stop # "no"
  /\ Wrap("apply")
  /\ UNCHANGED <<file, value, walk, queue, due, at, got, stop, missed, changes>>
StopSeen ==
  /\ pc = "select" /\ stop # "no"
  /\ Wrap("drain")
  /\ UNCHANGED <<file, value, walk, queue, due, at, got, stop, missed, changes>>

Applying == pc \in {"first", "apply", "drain"}

(* The callback reads a file of the batch, in any order ...                *)
Read(k) ==
  /\ Applying /\ at = NoKey /\ k \in todo
  /\ todo' = todo \ {k}
  /\ at' = k /\ got' \in Meanings(file[k], value[k])
  /\ missed' = missed \ {k}
  /\ UNCHANGED <<file, value, walk, queue, batch, ticker, due, pc, stop, changes>>

(* ... and then assigns what it says.                                      *)
Update ==
  /\ at # NoKey
  /\ value' = [value EXCEPT ![at] = got]
  /\ at' = NoKey /\ got' = Default
  /\ UNCHANGED <<file, walk, queue, batch, ticker, due, pc, todo, stop, missed, changes>>

(* The batch is done.                                                      *)
Applied ==
  /\ Applying /\ at = NoKey /\ todo = {}
  /\ pc' = IF pc = "drain" THEN "reset" ELSE "select"
  /\ UNCHANGED <<file, value, walk, queue, batch, ticker, due, todo, at, got, stop, missed, changes>>

(* The values are reset, the watcher closed and the ticker stopped.        *)
Reset ==
  /\ pc = "reset"
  /\ value' = [k \in Keys |-> Default]
  /\ pc' = "closed"
  /\ queue' = <<>> /\ ticker' = FALSE /\ due' = FALSE
  /\ UNCHANGED <<file, walk, batch, todo, at, got, stop, missed, changes>>

Walk == \E d \in Dirs : AddDir(d) \/ \E S \in SUBSET {k \in Keys : DirOf[k] = d} : ListDir(d, S)
Select == Receive \/ ReceiveError \/ TakeTick \/ StopSeen
ReadAny == \E k \in Keys : Read(k)

Ended == pc \in {"failed", "closed"} /\ UNCHANGED vars

Next ==
  \/ \E k \in Keys, c \in Contents : Edit(k, c) \/ Publish(k, c)
  \/ \E k \in Keys : Retire(k)
  \/ Tick
  \/ \E s \in {"cancelled", "closed"} : Stop(s)
  \/ Walk \/ WalkFails \/ WalkDone
  \/ Select
  \/ ReadAny \/ Update \/ Applied \/ Reset
  \/ Ended

Spec == Init /\ [][Next]_vars

(* The walk and the goroutine go on, and so does time. select chooses at   *)
(* random, so none of its cases is passed over for ever.                   *)
FairSpec ==
  /\ Spec
  /\ WF_vars(Walk \/ WalkDone \/ ReadAny \/ Update \/ Applied \/ Reset)
  /\ WF_vars(Tick)
  /\ SF_vars(Receive \/ ReceiveError) /\ SF_vars(TakeTick) /\ SF_vars(StopSeen)

-----------------------------------------------------------------------------
(* Properties                                                              *)

(* Something will still make the key be read.                              *)
Pending(k) ==
  \/ \E n \in NamesOf(k) : n \in batch \/ Has(queue, n)
  \/ k \in todo
  \/ walk[DirOf[k]] # "listed"

(* The values once the one that was just read is assigned.                 *)
Seen == IF at = NoKey THEN value ELSE [value EXCEPT ![at] = got]

(* No change is overlooked: while the watch is on, a value that disagrees  *)
(* with its file is about to be read, or all the kernel had to say about   *)
(* it was lost (watch.go:95-143, 158-212; spec.go:205-213).                *)
Current ==
  Watching => \A k \in Keys :
    Pending(k) \/ k \in missed \/ Seen[k] \in Meanings(file[k], Seen[k])

(* Names are not left lying about: while some are collected the ticker     *)
(* runs or its tick is there (watch.go:159-163, 206-208).                  *)
BatchTimed == pc = "select" /\ batch # {} => ticker \/ due

(* The last batch comes before the reset, never after it: when the watch   *)
(* is over every value is as it was before it (watch.go:166-169).          *)
ClosedClean ==
  pc = "closed" => at = NoKey /\ todo = {} /\ value = [k \in Keys |-> Default]

(* Whatever a file says is taken over, or the file changes again, unless   *)
(* its events are lost or the watch ends (watch.go:174-212).               *)
Over == stop # "no" \/ pc \in {"failed", "closed"}
Followed == \A k \in Keys, c \in Good \cup {Blank} :
  file[k] = c ~> \/ value[k] \in Meanings(c, value[k]) \/ file[k] # c
                 \/ k \in missed \/ Over

(* A watch that is told to stop does: its cancel function, which waits for *)
(* the goroutine, returns (watch.go:214-218).                              *)
StopEnds == stop # "no" ~> pc \in {"failed", "closed"}

(* It keeps the promise of module Mirror.                                  *)
Phase == IF pc \in {"failed", "closed"} THEN "off"
         ELSE IF stop = "closed" \/ pc \in {"drain", "reset"} THEN "ending" ELSE "on"
Stale == IF Phase = "on" THEN {k \in Keys : Pending(k)} \cup missed ELSE Keys

M == INSTANCE Mirror WITH value <- Seen, stale <- Stale, phase <- Phase
MirrorSpec == M!Spec
=============================================================================
