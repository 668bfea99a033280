# snap-gs: specifications, model checking and proofs

snap-gs runs `snapshot_server` game lobbies: it starts the server as a child
process, learns the lobby's state from the lines the child writes, collects
match results, ends the lobby when it is idle or when a directory of "spec"
files says so, and starts the next one. This directory holds TLA+ models of the
parts of that program whose order of events matters, TLC runs over small
instances of them, and TLAPS proofs for all instances. File names below are
relative to the repository (`src/`).

## 1. The system

| part | state | operations | correct means |
|---|---|---|---|
| lobby run, `internal/lobby/lobby.go` | `l.reason`, `l.done`, the child `l.c`, two pipes, five goroutines in `l.wg` | `Run` = `alloc` + `runc`; `Cancel` from everywhere | the first reason counts; a reason ends the child, the goroutines and `Run`; nothing is left behind |
| output handlers, `scan.go` | `l.m`, `l.players`, `l.changed`, the stat files | one handler per kind of line | the advertised stats describe the room; an empty room is reset or ended |
| watcher, `watch.go` | `lastup`; reads `l.m`, `l.players`, `l.spec` unlocked | a tick a second | idle lobbies end, players and matches are not thrown out unless they must be |
| player registry, `players.go` | bots, players, admin, under a mutex | `Add`, `Remove`, `Count` | an admin iff there are players, and one of them |
| matches, `collect.go`, `internal/match` | channel `l.matches` of 10, two collectors | `collect`, `collector`, `writeMatchFile` | each accepted match is written once or reported |
| live stats, `stat.go` | files in `--statdir` | `newstat`, `setstat`, `remstat` | as the handlers say |
| spec, `spec.go` | 17 times | `ReasonAfter`; `Watch` fills them from files | harder reasons first, force only when asked for |
| directory watcher, `internal/watch` | a batch of events, aliases of symlinked directories | batching, filters, closing | every change is applied, the last one last |
| supervisor, `public/lobby` | counts of runs and failures | `Run`: start, judge, pause, give up | no busy loop, no endless trouble, signals end it |
| options, `public/options`, `public/cmd`, `cmd/snap-gs` | the options; the flag directory rewrites them | `Validate`, `Watch`, flags, environment, signals, `ExitCode` | a run sees a copy, the supervisor the present `maxfails` |
| fleet, `etc/systemd`, `hack/install.sh` | units, peer symlinks between lobbies | start conditions, restart statuses | some lobby is up when one is wanted |
| upload, `hack/sync.sh`, `internal/sync` | files in `--logdir` | pick up, upload, move away | no file half written is taken |
| `internal/log`, `hack/preload.c` | none | formatting; address rewriting | |

The parts of one run share memory. The two scanners and the watcher call
`Cancel`, as do the collectors and `runc` itself; `Cancel` closes `l.done`
(which stops the watcher) and terminates the child (whose end closes the pipes,
which stops the scanners, which closes `l.matches`, which stops the
collectors). The supervisor sees only the error that `Run` returns. Lobbies of
one host talk through files: the stat directory of one is the `peer` spec
directory of another.

What is hard here: reasons that race with each other, with the start and with
the end of the child; a shutdown in which five goroutines, a channel and two
pipes wait for each other; a watcher that decides on values read one after
another; stats kept up to date by a dozen handlers; a retry loop whose limit
may move. `PROJECT.json` lists each such hazard at its line, with the
properties aimed at it.

## 2. The modules

| module | models | state |
|---|---|---|
| `LobbyLife` | what `internal/lobby.Run` promises: the abstract life of a lobby | `phase`, `verdict`, `result` |
| `Lobby` | one run, all its goroutines, the child and the context | `main` is where `runc` is; `scan1`, `scan2`, `watcher`, `coll` where the goroutines are; `reason` and `closes` are `l.reason` and `l.done`; `cur`, `accepted`, `taken`, `closed` are `l.m` and `l.matches` |
| `Players` | the registry, as operators on its value | none |
| `LobbyPolicy` | what lines and ticks mean: handlers, stats, clock, watcher, spec | `reg`, `changed`, `match`, `age`, `stats`, `shown`, `spec`, `watch`, `keep` |
| `Supervisor` | `public/lobby.Run` | `pc`, `fails`, `maxfails`, `err`, `lasted` |
| `DirFiles` | what the contents of a watched file mean, as operators | none |
| `Mirror` | what `Spec.Watch` and `Options.Watch` promise | `file`, `value`, `stale`, `phase` |
| `DirWatch` | `internal/watch.Watch` with the callback of `Spec.Watch` or `Options.Watch`, the kernel's events and the files | `queue`, `batch` (`events`), `ticker`, `due`, `walk`, `pc`, `todo`, `at`, `got`; `file` and `value` |
| `MatchFiles` | `collector`, `writeMatchFile` and `hack/sync.sh` with its units | `hand`, `ver`, `kind`, `step`, `err`, `at` of each collector; `disk`; `sync` |
| `Fleet` | the lobbies of one host: systemd units, orders, peers | `unit`, `again`, `room`, `stats`, `orders`, `fresh`, `seen` |
| `LobbyProofs`, `PolicyProofs`, `SupervisorProofs`, `DirWatchProofs`, `MatchFilesProofs`, `FleetProofs` | theorems | |
| `MCLobby`, `MCLobbyPolicy`, `MCSupervisor`, `MCDirWatch`, `MCMatchFiles`, `MCFleet` | instances for TLC | |

**Lobby.** An action is a stretch of one goroutine's code between two points at
which another could see a difference. `runc` is `Commit` (end of `alloc` and
the `go` statements), `StartSpawns` and `StartReturns` (`c.Start`; the child
runs before `l.c.Process` is set), `WaitReturns` and `Conclude` (`c.Wait` and
the `Cancel` around it), then the defers in their order: `Unwind`,
`ClosePipes`, `Return`; `AllocFails` and `StartFails` are its error exits.
`Cancel` is an operator used by all of them: it changes `reason`, `closes` and
`signal` exactly as `l.reason`, `l.done` and the termination of a process that
is visible. What a line means is left open: `ScanReport` may give any of
`ScanReasons`, the watcher any of `WatchReasons`. Matches accepted by the
channel are numbered, so the channel is the interval from `taken + 1` to
`accepted`.

**LobbyPolicy.** The same run seen the other way round: goroutines and child
are abstracted to "a line may come at any time", and the contents matter. A
registration is two steps, the change of the registry (under its own lock) and
the rest of the handler, because the watcher may count in between. An iteration
of the watcher is `Tick` (read the clocks), `Sample` (count the players, look
for a forced down), `Judge` (look for a match, consult the spec and the
timeouts), `WatchCancels`. Times are ages in ticks and saturate at `MaxAge`.
The spec is the set of kinds in force: `up` stands for `up` and `peer/full`,
and the plain, `flag/` and `peer/` forms of a kind, which `spec.go:66-148`
treats alike, for that kind. `held` is history: it remembers, for the
properties, whether players and a match were there all through the present
iteration, and whether it began with a spec that keeps the lobby up. What
`Lobby` proves of reasons, that the first one ends the lobby, is what makes
`reason # "nil"` the end of the story here.

**Supervisor.** A run is one step with any error it can return. `rapid` is
history: the failed runs since the last pause or healthy run.

**DirWatch.** A key is a file name the callback knows; a file changes by being
written in place (`Edit`), by a rename from its lock file (`Publish`) or to its
`last` name (`Retire`, both in `stat.go`), and the change puts its events into
the kernel's queue, or loses them when that is full. The walk of the tree is
`AddDir` and `ListDir` per directory, since files change meanwhile. The
goroutine is `Receive`, `ReceiveError`, `TakeTick` or `StopSeen` per round of
its `select`; each of the last three hands over the batch through the filters
(`NamesOf`, `ReadFrom`), and the callback takes a `Read` and an `Update` per
key, because files change, and values are read, in between. `missed` is
history: keys with a change all of whose events were lost.

`Mirror` has neither events nor batches: a value is right unless its key is
stale, changes make keys stale, and in the end all is reset. The refinement
mapping takes for stale what is `Pending` in a batch, the queue or an unread
directory, or was missed.

**MatchFiles.** A collector goes through `Take`, and for each of its two files
through `Create`, `Write`, `Close`, `Publish`, with `Report` after an error;
`CreateFails`, `WriteFails` and `CloseFails` are its failures, the last of them
unheard of. `Report` is the collector's call `Cancel(ErrLobbyBad)` and nothing
more: whether the lobby then ends for that reason, or for another that is
already on record, is decided in `Lobby`. A file is the set of the pieces
written to it, and a collector that has it open writes to it wherever it has
been moved. `Start` is the path unit and the service's first command, `Sort`,
`Upload`, `Remove` are the background part of `sync.sh` for one kind of file;
`SortFails`, `UploadFails` and `RemoveFails` do a part of the same, for any of
the files, before they give up. `Crash` and `SyncCrash` kill lobby and script.
An update is a file and the version of its match. The rest is history: the
updates reported (`told`), those broken without anyone hearing of it
(`unheard`), which version of a file was last renamed into place (`shown`), which
of these was whole (`filed`), and whether two collectors ever held one name
(`clash`). Since versions are never used again, a report counts for the update
it is about, and not for files of the next lobby.

**Fleet.** The service of a lobby passes through its two `ExecCondition`s
(`Ask`, `AskPeers`, `Denied`), its preparation and `alloc` (`Alloc`) and the
child's start (`Up`). In a run, players come and go and change the stats as
`LobbyPolicy` says, the watcher's view of its peer and its orders lags behind
(`Refresh`), and the run ends for what it has seen (`Downed`, `Stopped`) or for
any other reason (`EndsOtherwise`); then the deferred calls remove the stats
(`RemoveUp`, `RemoveAll`), and supervisor or path unit start the next. `Crash`
leaves the stats behind.

`Lobby` and `LobbyPolicy` overlap in `Cancel` and `Collect` and nowhere else;
`Supervisor` takes from `Lobby` that a cancelled run ends (`CtxEnds`), as a
fairness assumption, and the set of errors a run returns. `MatchFiles` begins
where `Lobby!Collect` ends, with accepted matches, and opens up
`Lobby!CollFiles`. `Fleet` takes from `DirWatch` that a change is noticed
(`Followed`), from `LobbyPolicy` which stats are shown and which reasons count,
and from `Supervisor` that after a run there is another or an exit. Definitions
commented
as mutants are plausible bugs of the code, used to see that each property can
fail; no specification uses them.

## 3. The runs

| run | instance | checks |
|---|---|---|
| `lobby_safe` | 2 matches, 2 collectors, channel of 1, 4 lines, symmetric | `TypeOK`, `DoneClosedOnce`, `LeavesNothing`, `OneCollectorEach`, `ResultHonest`, `JoinSound`, `WindsDown`, deadlock |
| `lobby_live` | 1 match, 1 collector, 2 lines | `CancelEnds`, `CtxEnds`, `EveryMatchFiled`, `LifeSpec` |
| `policy_safe` | 3 players, a bot, an id that is neither; full is 2; 3 kinds of spec | `TypeOK`, `StatsTruthful`, `AdminInside`, `AdminStays`, `PlayersNotKicked`, `MatchNotBroken` |
| `policy_live` | 1 player | `KeptUp`, `UnusedEnds`, `DawdlingEnds`, `ForcedDownEnds` |
| `supervisor` | `maxfails` from 0 to 3, changing | `TypeOK`, `NoBusyLoop`, `CancelledEnds`, `TroubleEnds` |
| `dirwatch` | 2 keys in 2 directories, one linked to the other; 2 changes, a queue of 2 | `TypeOK`, `Current`, `Followed`, `StopEnds`, `MirrorSpec` |
| `files` | 1 match accepted twice, 2 kinds of file, 2 collectors, 1 fault | `TypeOK`, `OpenOnlyLocked`, `BrokenReported`, `NothingLost`, `Uploaded` |
| `fleet` | 2 lobbies, 2 players fill a room and a third fits in, an order for each, 1 fault | `TypeOK`, `Advertised`, `Served`, `RoomElsewhere`, `NoSurplus` |
| `lost_cancel`, `kick`, `unused_restart`, `final_update` | as above | one finding each, section 4 |

*What they show.* In every interleaving of these instances no `Cancel` panics,
`Run` returns the first real reason or, cleanly, after a clean exit of the
child, and leaves no goroutine, child, stat or unhandled match; nobody waits
for ever on anybody; each match goes to one collector, also while the channel
is being closed. When `runc` waits for its goroutines, what each of them waits
for is there or on its way (`JoinSound`), and from the end of the child on every
step of anybody is a step towards the return of `Run` (`WindsDown`). The run
implements `LobbyLife`, liveness included. Between
lines the stats agree with the room, whatever order players, bots, unknown ids
and matches come in. A lobby that had players, or a match, *all through* one
look of the watcher is not ended by it unless forced (or because its players
let the admin timeout pass), and one that is kept up when the look begins does
not time out by it. The supervisor neither loops busily nor tries for
ever, even while `maxfails` moves. What a spec or flag file says is taken over,
or the file changes again, unless every event of a change was lost to an
overflow; a watch that is stopped applies its last batch, then resets every
value, then lets its caller go on. A match file that is not whole becomes
the one others find only if a collector calls `Cancel(ErrLobbyBad)` for this very
update, or is about to, a failing close and a kill excepted; nothing written
well is lost through failed moves, uploads and removals, kills of lobby or
script, and newer versions. What peers see of a lobby is true unless it was killed; a
full lobby is followed by another for as long as it is full; an empty lobby
next to one with room does not last; and some lobby is up again and again
unless the last one was killed and left its stats to the first.

*Bounds and why they are enough.* Lines: four let a match be seen, given kill
data, replaced by another and replaced again, which fills a channel of one and
makes `collect` discard; the channel's capacity occurs only in the comparison
`accepted - taken < QueueCap`. Two collectors are the code's number. One reason
per source is enough because `Cancel` compares reasons with `nil` and
`ErrLobbyDone` only. In `policy_safe`, "full" is 2 instead of 10 so that the
step up to it, one above it and the way back happen, and the bot stands for everything
that is in the room without counting. Ages up to 2 with timeouts of 1 and a
grace of 2 separate "not yet", "just" and "exceeded", the timeouts being
compared with `<` only. `SpecKinds` holds one kind of each behaviour: keeping
up, forced, and subject to players and grace; `Options` holds both timeouts on,
each off, and restarts on and off. `MaxLimit` is the default of `--maxfails`.
In `dirwatch`, the key behind the link tells the filter for `last` names, which
works on the directory itself only, from the others, a queue of two is filled by
one rename, and a second change is then lost in part or in whole; a third change
would only repeat this. In `files`, two versions of one match make both the
orderly replacement and the clash happen; matches with different names touch
different files and meet only in the steps of the script, which the proofs
cover for any number of them. One fault at every place shows what a failure
does; the proofs allow any number, and the invariants also pass with two, in five
million states. In `fleet`, two lobbies are
the smallest ring, in which each is the other's peer; three behave alike but
for `RoomElsewhere`, where the successor's successor matters (three lobbies with
a `Full` of 1, no faults and no orders pass too, in a million states). One above
`Full` is there because the code says that "11 or even 12 people" are seen.
The proofs of section 5 remove the bounds from the safety of every module.

*Fairness.* In `Lobby` each goroutine that can go on does so (the Go
scheduler), a child that was sent SIGTERM or SIGKILL ends, and `exec` kills the
child of a cancelled context. The child need not write, nor end unasked, and
the watcher need not find a reason. In `LobbyPolicy` the ticker ticks and the
scanner finishes a handler it has begun; lines and spec changes are not fair.
In `Supervisor` the loop goes on and a cancelled run ends (`Lobby!CtxEnds`);
other runs may last for ever. In `DirWatch` time passes, and Go's `select`
chooses at random among its ready cases, so a case that is ready again and again
is taken (strong fairness); changes and the end of the watch are not fair. In
`MatchFiles` collectors and script go on and systemd starts the script when
there are files; failures, kills and further matches are not fair. In `Fleet`
systemd starts what its path unit finds wanted (a level, so weak fairness), the
watcher of each lobby notices changes and acts on what it has seen for good;
players, timeouts, orders, nudges and failures are not fair.

*Assumed.* Nothing happens before `c.Start` has returned, in `lobby_safe` and
`lobby_live` (`Early = FALSE`): the watcher's first tick comes after 200 ms at
the earliest, and the child's first line takes it longer than the parent's
return from the fork. `lost_cancel` drops this. A child ends when asked to, and
no descendant of it keeps the pipe open. Match JSON has a non-empty match id.
Reads of `l.reason`, `l.m` and `l.spec` without a lock return a value that was
written (a torn read of a time lands among the ages that `MatchSeen` allows
anyway; a torn read of `l.reason` in `Conclude` is left out, and so is one of an
option while the flag directory assigns it). The watched directories are there
at the start and stay. Renames are atomic, and a killed process loses only what
it had not written. A lobby's stat directory is used by one supervisor.
`sync.sh` can read the lobby's name for a file (when it cannot, the file goes to
another name; that is left out).

## 4. Findings

* `lost_cancel`: a reason given after the goroutines were started but before
  `l.c.Process` is set (`lobby.go:128`) terminates nothing, is not looked at
  again, and makes all later reasons be refused: the lobby stays up for good.
* `kick`: the watcher acts on a count of players that may be stale
  (`watch.go:53`, `79`), against its own comment (`watch.go:66`). The promise it
  does keep is `PlayersNotKicked`.
* `unused_restart`: `ErrLobbyTimeout` counts as a failure even after hours of
  uptime (`public/lobby/lobby.go:80-87`), so unused lobbies are not restarted
  for ever as the README says.
* `final_update`: all updates of a match share a file name (`collect.go:64`), two
  collectors take them from one queue, and the older may be renamed into place
  last; what remains and is uploaded is then not the final update
  (`README.md:14-15`). `FinalUnlessClash` proves that two collectors at work on
  one name is the only way to this, and `FinalWithOneCollector` that one
  collector would keep the promise.

Seen on the way, and not against anything written: with both timeouts off no
watcher runs (`watch.go:18`), and the spec is consulted only when the last player
leaves a changed room (`scan.go:228`); `ForcedDownEnds` therefore takes a watcher
for granted and says nothing of a lobby without one. A bot that joins a room with
one player flushes the match that is on (`scan.go:194`). A collector's
`ErrLobbyBad` is refused when another reason is on record (`lobby.go:118`), and
comes too late for the result once `runc` has fixed it (`lobby.go:282`), so
`BrokenReported` is about the call and not about what `Run` returns. An overflow of
the kernel's queue is reported to the callbacks without names, and they ignore
it, so a value may stay stale (`missed`). A lobby that is killed leaves its
stats, and `up` of the last lobby denies the first one its start until somebody
removes it (`LeftBehind`).

## 5. The proofs

`LobbyProofs` proves, for every set of matches, any number of collectors, any
capacity, any amount of output and `Early` either way, from `LobbyAssumption`
alone: `TypeCorrect`, `DoneIsClosedOnce`, `ResultIsHonest`,
`OneCollectorForEach`, `RunLeavesNothing`, and `ImplementsLife`, the safety half
of the refinement.

The invariant is `IInv`, by parts. `DoneInv`: `l.done` is open while there is
no reason. `StageInv`: how far `runc` is bounds what can be alive; in
particular every goroutine is done when `Run` returns. `ResultInv`: no result
before `Conclude`, and an honest one after, which needs `StageInv` because
honesty survives only as real reasons are never replaced and the child does not
run again. `PipeInv`: the numbers up to `taken` are exactly the matches filed,
spoiled or held, each by one collector; `OneCollectorEach` alone is not
inductive, since it says nothing of numbers not yet received. `CloseInv`: the
channel is closed by the scanner that fills it, and collectors stop only when it
is closed and drained. `LeavesNothing` follows from `PipeInv`, `CloseInv` and
the fact that there is a collector. For the refinement, every `Cancel` of a goroutine
is a `Blame` or a stutter, `Conclude` and `StartFails` are a `Settle`, and
`StageInv` says that goroutines only act between `Commit` and `Return`.

The end of a run is proved step by step, without fairness. `EndInv` adds that a
reason on record has closed `l.done` and that `runc` gives one before it closes
its pipes; with it nobody on whom `wg.Wait` waits is stuck (`NobodyIsStuck`).
`StepsLeft` counts what can still happen once the child has ended: the way of
each of the goroutines to its end, and for every unread line a report, a match,
its receipt and its filing. Each step of anybody lowers it (`RunWindsDown`), and
it is a natural number (`StepsAreCounted`), the collectors being finitely many
(`LobbyAssumption`). `ReasonIsHeard` leads there: with `Early = FALSE`, a reason
means that the run winds down already or the child was signalled. It needs
`StillInv`, that nobody has anything to say before `Start` has returned, and is
false with `Early = TRUE`, as `lost_cancel` shows. `NoMatchIsForgotten` does the
same for the matches: while one waits in the channel, no collector has stopped.

`SupervisorProofs` proves `TypeCorrect`, `NeverBusy` and `OneRun` for any
`MaxLimit`, from `LimitAssumption`. `rapid <= MaxLimit` is not inductive; it is
once one adds that no failed run since the last pause is missing from `fails`
and that the loop only goes on below the largest limit, whatever the limit is
at the moment. `OneRun` says that with `maxfails = 0` no lobby is followed by another.
`TroubleIsCounted` and `CancelledGoesOut` give the loop a measure, `LoopLeft`
and `WayOut`: without a healthy run, or with the context cancelled, each of its
steps lowers it, and no change of the limit raises it.

`PolicyProofs` proves the safety of `LobbyPolicy` for every finite set of
players, any bots, options, kinds of spec and ages, and any `Full` above 1, from
`PlayersAssumption` and `OptionsAssumption`: `TypeCorrect`, `AdminIsInside`,
`AdminKeepsPlace`, `StatsAgree`, `PlayersAreSafe` and `MatchesAreSafe`. It rests
on lemmas about the registry: the heir is one of those who are left
(`HeirIsLeft`, from the well-foundedness of `<`), and `Add` and `Remove` keep
the admin inside and change the count by at most one. `StatsTruthful` speaks of
the time between lines only, so `StatInv` adds what holds in the middle of a
line: the stats agree except in the case the rest of the handler is about to
deal with (one player now, exactly full, one below full, nobody left). With
`Full = 1` that fails, because the handlers for the first player to come and the
last to leave do not look at `full`. For the two promises of the watcher, `HeldInv` says that what
the history remembers is true now, and `LookInv` carries it from the count of
players to the verdict: players who were there all the time were counted, and a
match that was on all the time leaves only the forced down. `KeptUpStays`
(`KeptUp`) rests on the same invariant: a look that began with the lobby kept up
goes by a clock that its tick has just reset, so no timeout is found to be over,
whatever the spec says by the time of the verdict.

On the other side are lobbies that have to end. `OffMeansOver`: the watcher
stops for a reason on record only. `ForcedDownIsObeyed`: under a forced down it
is at most four steps away from giving one. `TimeoutsPass`: while the room
idles, with players or without, each step of the watcher lowers `LooksLeft`, and
nobody else changes it; a look that began too early is followed by one with
older clocks. Its hypothesis `Limit(p) < MaxAge` is that of the bound: ages from
`MaxAge` on are not told apart, and `MaxAge` is any number.

`DirWatchProofs` proves for all keys, directories, contents and bounds, from
`FilesAssumption` and `DirAssumption`: `TypeCorrect`, `NothingOverlooked`
(`Current`), `NothingForgotten` (`BatchTimed`: collected names always have a
tick coming), `NothingLeft` (`ClosedClean`: a watch that is over has reset every
value) and `Mirrors`, the refinement of
`Mirror` (which has no liveness). `Current` needs, beside the types, `Order`,
which says what is left of batch and walk at each stage, and `QueueOK`: an
overflow event takes the one place above the limit. The argument runs by three
kinds of steps: those that leave values and files alone and keep what is
pending (`QuietSteps`), changes of files, which add events or to `missed`
(`ChangeFacts`), and reads, after which the value agrees (`ReadFacts`).
`BatchesEnd` takes a finite set of keys and counts what is left of a batch
(`BatchLeft`): the goroutine is back at its channels, or closed, after so many
of its own steps, however fast files change meanwhile.

`MatchFilesProofs` proves, for all matches, kinds, collectors and faults, from
`FilesAssumption`: `TypeCorrect`, `WrittenUnderLock`, `BrokenIsReported` and
`FilesAreKept`. The invariant adds `Order`: without a clash two collectors never
hold one name, a file somebody has open is under its lock name and holds exactly
the pieces its step says, and where the script is bounds where files can be
(between `Upload` and `Remove` what is in the bucket is in the store). The
proof goes by collector steps, which alone can change the newest copy of a file,
and by steps of the script, whole or in part, which leave it what it is
(`NewestKeeps`), whatever they move, copy or remove.
`FinalUnlessClash` and `FinalWithOneCollector` rest on `FinalInv`, which speaks
of runs without faults and clashes: updates stand in the queue in their order,
and the last of each match is in the queue, or in the hands of the only
collector that has one of them and none waits, or in all files and nobody has
any. A collector that takes an update of a match which none is busy with keeps
this; that is where a clash comes in.

`FleetProofs` proves, for any number of lobbies, any `Full` and `Most`, any orders
and faults, from `FleetAssumption`: `TypeCorrect` and `StatsAreTrue`
(`Advertised`). A step of one lobby leaves the others' files alone (`Others`),
so the invariant is looked at one lobby at a time; what is added is that a lobby
that does not run has nobody in it. Three theorems say for any ring what
starting and stopping rest on: only a peer that is there, or was killed, denies
the first lobby its start (`FirstIsNotKeptOut`); the successor of a full lobby
is wanted and not denied (`SuccessorIsNotKeptOut`); a lobby nobody needs learns
from its next look around that it has to stop (`SurplusIsNoticed`). They need
`LiveInv`: a lobby that is there has not been killed since it started, and
"up" is never among the orders against it.

Only model-checked: the liveness properties themselves (`CancelEnds`, `CtxEnds`,
`EveryMatchFiled`, `UnusedEnds`, `DawdlingEnds`, `ForcedDownEnds`,
`CancelledEnds`, `TroubleEnds`, `Followed`, `StopEnds`, `Uploaded`, `Served`,
`RoomElsewhere`, `NoSurplus`) and the liveness half of the refinement of
`LobbyLife`: arguments from fairness are beyond the prover. What most of them
rest on is proved for all constants: that a step which has to happen is not
refused (`NobodyIsStuck`, `ReasonIsHeard`, `NoMatchIsForgotten`, the three of
`Fleet`), and that such steps lead to an end (`RunWindsDown`, `TroubleIsCounted`,
`CancelledGoesOut`, `ForcedDownIsObeyed`, `TimeoutsPass`, `BatchesEnd`). Fairness
adds that they are taken. `CtxEnds` and `Uploaded` have no such theorem of their
own.

## 6. Not modelled, and why

* Formatting and filtering of log lines and `internal/log`: no other part reads
  them. The one edge met there: the seconds of `uptime` are rounded after the
  precision was chosen (`log.go:62-71`), so just below a multiple of ten seconds the text
  is a byte too long and loses its unit.
* `Normalize` and `Anonymize` (`internal/match`): assignments to fields nothing
  branches on.
* The arena stat, pid files and cgroups: written, never read by the program.
* Parsing of flags and environment, `Validate`, `Copy` and the search for the executable:
  sequential start-up code without state that outlives it.
* The compressed log of a run (`public/lobby/lobby.go:24-66`) and the state
  files of `sync.sh`: they take the way of the match files.
* `hack/preload.c`, `lobby_linux.go` (one system call), the rest of
  `hack/install.sh`.
* `Update` and `Lookup` of the registry, which nothing calls.
* Torn reads, directories replaced while watched, and a child whose descendants
  keep its pipes: see "Assumed" in section 3 and the hazards without a property
  in `PROJECT.json`.
