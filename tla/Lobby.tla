-------------------------------- MODULE Lobby --------------------------------
(***************************************************************************)
(* One run of internal/lobby.Run: the main goroutine (alloc and runc), the *)
(* child process, the two scanners of its output, the watcher, the two     *)
(* match collectors, and Cancel, which all of them call.                   *)
(*                                                                         *)
(* What a line of output means and when the watcher gives a reason is the  *)
(* business of module LobbyPolicy: here a line may be any of the kinds the *)
(* lifecycle tells apart and the watcher may give any of its reasons.      *)
(***************************************************************************)
EXTENDS Integers, FiniteSets

CONSTANTS Matches,      \* match ids that may appear in the child's output
          NoMatch,      \* the empty match id
          Collectors,   \* the collector goroutines (two in the code)
          QueueCap,     \* capacity of l.matches (10 in the code)
          ScanReasons,  \* reasons the stdout scanner gives while it scans
          WatchReasons, \* reasons the watcher gives
          Early,        \* may the watcher tick or the child write before
                        \* c.Start has returned?
          MaxLines      \* bound: lines the child writes to stdout

Soft == {"nil", "done"}                     \* no reason yet, ErrLobbyDone
Reasons == ScanReasons \cup WatchReasons \cup {"bad", "exit", "start"}

ASSUME LobbyAssumption ==
  /\ NoMatch \notin Matches
  /\ Collectors # {} /\ IsFiniteSet(Collectors)
  /\ QueueCap \in Nat \ {0}
  /\ MaxLines \in Nat
  /\ Early \in BOOLEAN
  /\ Reasons \cap (Soft \cup {"none"}) = {}

VARIABLES
  opts,      \* the options that shape the run: [logdir |-> , watching |-> ]
  main,      \* where runc is
  child,     \* the child process: "none", "running", "ok", "failed"
  signal,    \* what it was sent: "none", "term", "kill"
  ctx,       \* is the context of Run cancelled?
  reason,    \* l.reason
  closes,    \* how often l.done was closed
  result,    \* what runc returns ("none": not yet known)
  up,        \* is the "up" stat advertised?
  wrote,     \* lines the child wrote to stdout
  read,      \* lines the stdout scanner took from the pipe
  scan1,     \* where the stdout scanner is
  owed,      \* the reason it is about to give
  scan2,     \* where the stderr scanner is
  watcher,   \* where the watcher is
  cur,       \* l.m: [id |-> match id, kills |-> has it kill data]
  accepted,  \* matches put into l.matches, numbered 1, 2, ... in this order
  taken,     \* matches received from it: the channel holds taken+1 .. accepted
  closed,    \* is l.matches closed?
  coll,      \* where each collector is
  held,      \* the number of the match each collector last received
  filed,     \* matches whose files were written
  spoiled    \* matches a file of which could not be written

mainVars == <<main, result, up>>
childVars == <<child, signal, wrote>>
cancelVars == <<reason, closes>>
scanVars == <<read, scan1, owed>>
matchVars == <<cur, accepted>>
collVars == <<taken, coll, held, filed, spoiled>>
vars == <<opts, mainVars, childVars, ctx, cancelVars, scanVars, scan2, watcher,
          matchVars, closed, collVars>>

Fresh == [id |-> NoMatch, kills |-> FALSE]

RunType ==
  /\ opts \in [logdir : BOOLEAN, watching : BOOLEAN]
  /\ main \in {"alloc", "start", "spawn", "wait", "conclude", "unwind", "close", "join",
             "returned"}
  /\ child \in {"none", "running", "ok", "failed"}
  /\ signal \in {"none", "term", "kill"}
  /\ ctx \in BOOLEAN /\ up \in BOOLEAN /\ closed \in BOOLEAN
  /\ scan2 \in {"off", "scan", "last", "done"}
  /\ watcher \in {"off", "watch", "last", "done"}

ReasonType ==
  /\ reason \in Reasons \cup Soft
  /\ closes \in Nat
  /\ result \in Reasons \cup Soft \cup {"none"}
  /\ owed \in ScanReasons \cup {"nil"}

LineType ==
  /\ wrote \in 0..MaxLines
  /\ read \in 0..wrote
  /\ scan1 \in {"off", "scan", "report", "flush", "shut", "last", "done"}

MatchType == cur \in [id : Matches \cup {NoMatch}, kills : BOOLEAN]

QueueType ==
  /\ accepted \in Nat
  /\ taken \in 0..accepted
  /\ accepted - taken <= QueueCap

CollType ==
  /\ coll \in [Collectors -> {"off", "recv", "file", "last", "done"}]
  /\ held \in [Collectors -> Nat]
  /\ filed \subseteq Nat
  /\ spoiled \subseteq Nat

TypeOK == RunType /\ ReasonType /\ LineType /\ MatchType /\ QueueType /\ CollType

Init ==
  /\ opts \in [logdir : BOOLEAN, watching : BOOLEAN]
  /\ main = "alloc" /\ result = "none" /\ up = FALSE
  /\ child = "none" /\ signal = "none" /\ wrote = 0
  /\ ctx = FALSE
  /\ reason = "nil" /\ closes = 0
  /\ read = 0 /\ scan1 = "off" /\ owed = "nil"
  /\ scan2 = "off" /\ watcher = "off"
  /\ cur = Fresh /\ accepted = 0 /\ closed = FALSE
  /\ taken = 0 /\ coll = [c \in Collectors |-> "off"]
  /\ held = [c \in Collectors |-> 0] /\ filed = {} /\ spoiled = {}

-----------------------------------------------------------------------------
(* Cancel                                                                  *)

(* l.c.Process is set when Start returns, l.c.ProcessState when Wait does: *)
(* only in between does Cancel find a process to terminate.                *)
Signallable == main = "wait"

(* Mutants of Cancel: one forgets that l.done is closed already, the other *)
(* lets the last reason win.                                               *)
CancelClosesAgain(r) ==
  /\ reason' = IF reason \in Soft THEN r ELSE reason
  /\ closes' = IF reason \in Soft THEN closes + 1 ELSE closes
  /\ signal' = IF Signallable /\ child = "running" /\ signal = "none" THEN "term" ELSE signal

CancelLastWins(r) ==
  /\ reason' = IF r = "done" THEN (IF reason = "nil" THEN r ELSE reason) ELSE r
  /\ closes' = IF reason = "nil" THEN closes + 1 ELSE closes
  /\ signal' = IF Signallable /\ child = "running" /\ signal = "none" THEN "term" ELSE signal

(* A reason is taken while the present one is nil or ErrLobbyDone; the     *)
(* first call closes l.done, and every call that is taken terminates the   *)
(* child if it can see it. A signal to a dead child does nothing.          *)
Cancel(r) ==
  /\ reason' = IF reason \in Soft THEN r ELSE reason
  /\ closes' = IF reason = "nil" THEN closes + 1 ELSE closes
  /\ signal' = IF /\ reason \in Soft /\ Signallable
                  /\ child = "running" /\ signal = "none"
               THEN "term" ELSE signal

(* Mutant of Returned: the caller's own reason instead of the first one.   *)
ReturnedOwn(r) == IF r = "done" THEN "nil" ELSE r

(* The value Cancel returns: ErrLobbyDone taken as a reason is no error.   *)
Returned(r) == IF reason \notin Soft THEN reason
               ELSE IF r = "done" THEN "nil" ELSE r

-----------------------------------------------------------------------------
(* The main goroutine                                                      *)

(* alloc returns an error: no goroutine, pipe or l.done exists yet.        *)
AllocFails ==
  /\ main = "alloc"
  /\ main' = "returned"
  /\ reason' = "start" /\ result' = "start"
  /\ UNCHANGED <<opts, up, childVars, ctx, closes, scanVars, scan2, watcher,
                 matchVars, closed, collVars>>

(* alloc commits and runc starts the goroutines. The watcher returns at    *)
(* once when both timeouts are off, a collector when there is no logdir.   *)
Commit ==
  /\ main = "alloc"
  /\ main' = "start"
  /\ scan1' = "scan" /\ scan2' = "scan"
  /\ watcher' = IF opts.watching THEN "watch" ELSE "done"
  /\ coll' = [c \in Collectors |-> IF opts.logdir THEN "recv" ELSE "done"]
  /\ UNCHANGED <<opts, result, up, childVars, ctx, cancelVars, read, owed, matchVars,
                 closed, taken, held, filed, spoiled>>

StartFails ==
  /\ main = "start"
  /\ main' = "unwind"
  /\ Cancel("start") /\ result' = Returned("start")
  /\ UNCHANGED <<opts, up, child, wrote, ctx, scanVars, scan2, watcher, matchVars,
                 closed, collVars>>

(* exec checks the context before it forks.                                *)
StartSpawns ==
  /\ main = "start" /\ ~ctx
  /\ main' = "spawn" /\ child' = "running"
  /\ UNCHANGED <<opts, result, up, signal, wrote, ctx, cancelVars, scanVars, scan2,
                 watcher, matchVars, closed, collVars>>

(* The child runs already when Start sets l.c.Process and returns.         *)
StartReturns ==
  /\ main = "spawn"
  /\ main' = "wait" /\ up' = TRUE
  /\ UNCHANGED <<opts, result, childVars, ctx, cancelVars, scanVars, scan2, watcher,
                 matchVars, closed, collVars>>

WaitReturns ==
  /\ main = "wait" /\ child # "running"
  /\ main' = "conclude"
  /\ UNCHANGED <<opts, result, up, childVars, ctx, cancelVars, scanVars, scan2, watcher,
                 matchVars, closed, collVars>>

(* Cancel(c.Wait()): Cancel(nil) only reads l.reason.                      *)
Conclude ==
  /\ main = "conclude"
  /\ main' = "unwind"
  /\ IF child = "failed"
     THEN Cancel("exit") /\ result' = Returned("exit")
     ELSE result' = reason /\ UNCHANGED <<cancelVars, signal>>
  /\ UNCHANGED <<opts, up, child, wrote, ctx, scanVars, scan2, watcher, matchVars,
                 closed, collVars>>

(* The deferred remstat("up") and Cancel(ErrLobbyDone).                    *)
Unwind ==
  /\ main = "unwind"
  /\ main' = "close" /\ up' = FALSE
  /\ Cancel("done")
  /\ UNCHANGED <<opts, result, child, wrote, ctx, scanVars, scan2, watcher, matchVars,
                 closed, collVars>>

ClosePipes ==
  /\ main = "close"
  /\ main' = "join"
  /\ UNCHANGED <<opts, result, up, childVars, ctx, cancelVars, scanVars, scan2, watcher,
                 matchVars, closed, collVars>>

(* Mutant of AllDone: wg.Add(3), the collectors are forgotten.             *)
AllDoneButCollectors == scan1 = "done" /\ scan2 = "done" /\ watcher = "done"

AllDone == /\ scan1 = "done" /\ scan2 = "done" /\ watcher = "done"
           /\ \A c \in Collectors : coll[c] = "done"

(* wg.Wait returns; the remaining defers remove every stat and end Run.    *)
Return ==
  /\ main = "join" /\ AllDone
  /\ main' = "returned"
  /\ UNCHANGED <<opts, result, up, childVars, ctx, cancelVars, scanVars, scan2, watcher,
                 matchVars, closed, collVars>>

Main == AllocFails \/ Commit \/ StartFails \/ StartSpawns \/ StartReturns
          \/ WaitReturns \/ Conclude \/ Unwind \/ ClosePipes \/ Return

-----------------------------------------------------------------------------
(* The child process and the context                                       *)

(* Starting takes less time than the watcher's first tick (200 ms at least *)
(* after the goroutine starts) and the child's first output, as a rule.    *)
Started == Early \/ main \notin {"start", "spawn"}

ChildWrites ==
  /\ child = "running" /\ wrote < MaxLines /\ Started
  /\ scan1 \in {"scan", "report"}            \* the pipe has a reader
  /\ wrote' = wrote + 1
  /\ UNCHANGED <<opts, mainVars, child, signal, ctx, cancelVars, scanVars, scan2,
                 watcher, matchVars, closed, collVars>>

(* The child may end at any time and with any status; SIGKILL fails it.    *)
ChildExits ==
  /\ child = "running"
  /\ child' \in IF signal = "kill" THEN {"failed"} ELSE {"ok", "failed"}
  /\ UNCHANGED <<opts, mainVars, signal, wrote, ctx, cancelVars, scanVars, scan2,
                 watcher, matchVars, closed, collVars>>

CtxCancelled ==
  /\ ~ctx /\ main # "returned"
  /\ ctx' = TRUE
  /\ UNCHANGED <<opts, mainVars, childVars, cancelVars, scanVars, scan2, watcher,
                 matchVars, closed, collVars>>

(* Mutant of CtxKills: exec.Command in place of exec.CommandContext.       *)
CtxKillsNothing == ctx /\ main = "wait" /\ child = "none" /\ UNCHANGED vars

(* exec.CommandContext kills the child of a cancelled context.             *)
CtxKills ==
  /\ ctx /\ main = "wait" /\ child = "running" /\ signal # "kill"
  /\ signal' = "kill"
  /\ UNCHANGED <<opts, mainVars, child, wrote, ctx, cancelVars, scanVars, scan2,
                 watcher, matchVars, closed, collVars>>

-----------------------------------------------------------------------------
(* The stdout scanner                                                      *)

Line == scan1 = "scan" /\ read < wrote /\ read' = read + 1

(* Mutant of Sent: the channel has no capacity.                            *)
SentUnbounded == IF cur.id # NoMatch /\ cur.kills THEN accepted + 1 ELSE accepted

(* collect: a match with kill data goes into the channel unless it is      *)
(* full; whether it was sent or discarded, l.m starts afresh.              *)
Sent == IF cur.id # NoMatch /\ cur.kills /\ accepted - taken < QueueCap
        THEN accepted + 1 ELSE accepted

Collect == /\ accepted' = Sent
           /\ cur' = IF cur.id = NoMatch THEN cur ELSE Fresh

ScanOther ==                                 \* a line of no consequence
  /\ Line
  /\ UNCHANGED <<opts, mainVars, childVars, ctx, cancelVars, scan1, owed, scan2,
                 watcher, matchVars, closed, collVars>>

ScanKill ==
  /\ Line /\ opts.logdir
  /\ cur' = [cur EXCEPT !.kills = TRUE]
  /\ UNCHANGED <<opts, mainVars, childVars, ctx, cancelVars, scan1, owed, scan2,
                 watcher, accepted, closed, collVars>>

(* Match JSON replaces l.m; a different id collects the old match first.   *)
ScanMatch(m, kills) ==
  /\ Line /\ opts.logdir
  /\ accepted' = IF m = cur.id THEN accepted ELSE Sent
  /\ cur' = [id |-> m, kills |-> kills]
  /\ UNCHANGED <<opts, mainVars, childVars, ctx, cancelVars, scan1, owed, scan2,
                 watcher, closed, collVars>>

ScanCollect ==
  /\ Line /\ Collect
  /\ UNCHANGED <<opts, mainVars, childVars, ctx, cancelVars, scan1, owed, scan2,
                 watcher, closed, collVars>>

(* A line that ends the lobby, with or without a collect before Cancel.    *)
ScanReport(r) ==
  /\ Line
  /\ Collect \/ UNCHANGED matchVars
  /\ scan1' = "report" /\ owed' = r
  /\ UNCHANGED <<opts, mainVars, childVars, ctx, cancelVars, scan2, watcher, closed,
                 collVars>>

ScanCancel ==
  /\ scan1 = "report"
  /\ Cancel(owed)
  /\ scan1' = "scan" /\ owed' = "nil"
  /\ UNCHANGED <<opts, mainVars, child, wrote, ctx, read, scan2, watcher, matchVars,
                 closed, collVars>>

(* Mutant of WritersGone: runc closes its write ends after wg.Wait.        *)
WritersGoneLate == main = "returned" /\ child # "running"

(* Both ends of a pipe that write to it: the child's and runc's own.       *)
WritersGone == main \in {"join", "returned"} /\ child # "running"

(* The scan loop ends at EOF, or at a line longer than its buffer; the     *)
(* deferred prout.Close follows.                                           *)
ScanEnds ==
  /\ scan1 = "scan"
  /\ read < wrote \/ WritersGone
  /\ scan1' = "flush"
  /\ UNCHANGED <<opts, mainVars, childVars, ctx, cancelVars, read, owed, scan2, watcher,
                 matchVars, closed, collVars>>

ScanFlush ==
  /\ scan1 = "flush"
  /\ Collect
  /\ scan1' = "shut"
  /\ UNCHANGED <<opts, mainVars, childVars, ctx, cancelVars, read, owed, scan2, watcher,
                 closed, collVars>>

ScanShut ==
  /\ scan1 = "shut"
  /\ closed' = TRUE
  /\ scan1' = "last"
  /\ UNCHANGED <<opts, mainVars, childVars, ctx, cancelVars, read, owed, scan2, watcher,
                 matchVars, collVars>>

ScanDone ==
  /\ scan1 = "last"
  /\ Cancel("done")
  /\ scan1' = "done"
  /\ UNCHANGED <<opts, mainVars, child, wrote, ctx, read, owed, scan2, watcher,
                 matchVars, closed, collVars>>

ScanLine == \/ ScanOther \/ ScanKill \/ ScanCollect
            \/ \E m \in Matches, kills \in BOOLEAN : ScanMatch(m, kills)
            \/ \E r \in ScanReasons : ScanReport(r)

Scanner == ScanLine \/ ScanCancel \/ ScanEnds \/ ScanFlush \/ ScanShut \/ ScanDone

-----------------------------------------------------------------------------
(* The stderr scanner: it changes nothing until its loop ends.             *)

ErrEnds ==
  /\ scan2 = "scan"
  /\ (child # "none" /\ Started) \/ WritersGone
  /\ scan2' = "last"
  /\ UNCHANGED <<opts, mainVars, childVars, ctx, cancelVars, scanVars, watcher,
                 matchVars, closed, collVars>>

ErrDone ==
  /\ scan2 = "last"
  /\ Cancel("done")
  /\ scan2' = "done"
  /\ UNCHANGED <<opts, mainVars, child, wrote, ctx, scanVars, watcher, matchVars,
                 closed, collVars>>

-----------------------------------------------------------------------------
(* The watcher                                                             *)

WatchCancels(r) ==
  /\ watcher = "watch" /\ Started
  /\ Cancel(r)
  /\ watcher' = "last"
  /\ UNCHANGED <<opts, mainVars, child, wrote, ctx, scanVars, scan2, matchVars, closed,
                 collVars>>

WatchEnds ==
  /\ watcher = "watch" /\ closes > 0
  /\ watcher' = "last"
  /\ UNCHANGED <<opts, mainVars, childVars, ctx, cancelVars, scanVars, scan2, matchVars,
                 closed, collVars>>

WatchDone ==
  /\ watcher = "last"
  /\ Cancel("done")
  /\ watcher' = "done"
  /\ UNCHANGED <<opts, mainVars, child, wrote, ctx, scanVars, scan2, matchVars, closed,
                 collVars>>

-----------------------------------------------------------------------------
(* The collectors                                                          *)

(* Mutant of CollReceives: the match is looked at but not taken.           *)
CollPeeks(c) ==
  /\ coll[c] = "recv" /\ taken < accepted
  /\ held' = [held EXCEPT ![c] = taken + 1]
  /\ coll' = [coll EXCEPT ![c] = "file"]
  /\ UNCHANGED <<opts, mainVars, childVars, ctx, cancelVars, scanVars, scan2, watcher,
                 matchVars, closed, taken, filed, spoiled>>

CollReceives(c) ==
  /\ coll[c] = "recv" /\ taken < accepted
  /\ taken' = taken + 1
  /\ held' = [held EXCEPT ![c] = taken + 1]
  /\ coll' = [coll EXCEPT ![c] = "file"]
  /\ UNCHANGED <<opts, mainVars, childVars, ctx, cancelVars, scanVars, scan2, watcher,
                 matchVars, closed, filed, spoiled>>

CollFiles(c) ==
  /\ coll[c] = "file"
  /\ filed' = filed \cup {held[c]}
  /\ coll' = [coll EXCEPT ![c] = "recv"]
  /\ UNCHANGED <<opts, mainVars, childVars, ctx, cancelVars, scanVars, scan2, watcher,
                 matchVars, closed, taken, held, spoiled>>

CollFails(c) ==
  /\ coll[c] = "file"
  /\ Cancel("bad")
  /\ spoiled' = spoiled \cup {held[c]}
  /\ coll' = [coll EXCEPT ![c] = "recv"]
  /\ UNCHANGED <<opts, mainVars, child, wrote, ctx, scanVars, scan2, watcher, matchVars,
                 closed, taken, held, filed>>

(* Mutant of CollEnds: closing the channel ends the collector at once.     *)
CollEndsEarly(c) ==
  /\ coll[c] = "recv" /\ closed
  /\ coll' = [coll EXCEPT ![c] = "last"]
  /\ UNCHANGED <<opts, mainVars, childVars, ctx, cancelVars, scanVars, scan2, watcher,
                 matchVars, closed, taken, held, filed, spoiled>>

CollEnds(c) ==
  /\ coll[c] = "recv" /\ closed /\ taken = accepted
  /\ coll' = [coll EXCEPT ![c] = "last"]
  /\ UNCHANGED <<opts, mainVars, childVars, ctx, cancelVars, scanVars, scan2, watcher,
                 matchVars, closed, taken, held, filed, spoiled>>

CollDone(c) ==
  /\ coll[c] = "last"
  /\ Cancel("done")
  /\ coll' = [coll EXCEPT ![c] = "done"]
  /\ UNCHANGED <<opts, mainVars, child, wrote, ctx, scanVars, scan2, watcher, matchVars,
                 closed, taken, held, filed, spoiled>>

Collector(c) == CollReceives(c) \/ CollFiles(c) \/ CollFails(c) \/ CollEnds(c) \/ CollDone(c)

-----------------------------------------------------------------------------
(* Run has returned: only this and the end of the caller's context remain. *)
Finished == main = "returned" /\ UNCHANGED vars

Next == \/ Main \/ ChildWrites \/ ChildExits \/ CtxCancelled \/ CtxKills
        \/ Scanner \/ ErrEnds \/ ErrDone
        \/ WatchEnds \/ WatchDone \/ \E r \in WatchReasons : WatchCancels(r)
        \/ \E c \in Collectors : Collector(c)
        \/ Finished

Spec == Init /\ [][Next]_vars

(* Every goroutine that can go on does, and a child that was signalled     *)
(* ends. Nothing else is assumed of the child, the watcher or the caller.  *)
Fairness ==
  /\ WF_vars(Main) /\ WF_vars(Scanner)
  /\ WF_vars(WritersGone /\ ErrEnds) /\ WF_vars(ErrDone)
  /\ WF_vars(WatchEnds) /\ WF_vars(WatchDone)
  /\ \A c \in Collectors : WF_vars(Collector(c))
  /\ WF_vars(CtxKills) /\ WF_vars(signal # "none" /\ ChildExits)

FairSpec == Spec /\ Fairness

-----------------------------------------------------------------------------
(* Properties                                                              *)

(* l.done is closed at most once (Cancel, lobby.go:113): a second close    *)
(* would panic. The first caller may be any of seven goroutines' calls.    *)
DoneClosedOnce == closes <= 1

(* When Run returns nothing of it is left behind (the defers of runc,      *)
(* lobby.go:262-281): no child, no goroutine, no "up" stat, no match that  *)
(* was accepted but neither written nor reported as failed.                *)
Quiet == /\ child # "running" /\ ~up
         /\ AllDone \/ scan1 = "off"
NoMatchLeft == /\ filed \cup spoiled = 1..accepted
               /\ spoiled # {} => reason \notin Soft
LeavesNothing == main = "returned" => Quiet /\ NoMatchLeft

(* No match goes to both collectors, and none is filed after it failed     *)
(* (the range over l.matches in collector, collect.go:44).                 *)
OneCollectorEach ==
  /\ filed \cap spoiled = {}
  /\ \A c \in Collectors : coll[c] = "file" =>
        /\ held[c] \notin filed \cup spoiled
        /\ \A d \in Collectors \ {c} : coll[d] = "file" => held[d] # held[c]

(* A clean result (nil or ErrLobbyDone) means that the child was started   *)
(* and ended well (Cancel(c.Wait()), lobby.go:282); any other result is    *)
(* the reason on record, whatever the goroutines report afterwards.        *)
ResultHonest ==
  result # "none" => IF result \in Soft THEN child = "ok" ELSE result = reason

(* What wg.Wait waits for does not wait in its turn: the pipes are at      *)
(* their end, l.done is closed, and a collector that waits for matches has *)
(* a scanner that will yet close the channel (the order of runc's defers,  *)
(* lobby.go:262-276).                                                      *)
JoinSound ==
  main = "join" =>
    /\ "scan" \in {scan1, scan2} => WritersGone
    /\ watcher = "watch" => closes > 0
    /\ \A c \in Collectors : coll[c] = "recv" => scan1 # "done" \/ closed

(* From the end of the child on, or a start that failed, what is left to   *)
(* do only gets less, whatever the scanners, the collectors and the        *)
(* watcher still find and report: a line may yield a match and a reason,   *)
(* a match is received and filed.                                          *)
Winding == child \in {"ok", "failed"} \/ main \in {"unwind", "close", "join", "returned"}

MainRank == [spawn |-> 6, wait |-> 5, conclude |-> 4, unwind |-> 3, close |-> 2, join |-> 1,
             returned |-> 0]
ScanRank == [off |-> 0, scan |-> 6, report |-> 7, flush |-> 5, shut |-> 2, last |-> 1, done |-> 0]
Rank == [off |-> 0, scan |-> 2, watch |-> 2, recv |-> 2, file |-> 3, last |-> 1, done |-> 0]

CollSteps == {step \in Collectors \X (1..3) : step[2] <= Rank[coll[step[1]]]}
StepsLeft ==
  MainRank[main] + ScanRank[scan1] + Rank[scan2] + Rank[watcher] + Cardinality(CollSteps)
    + 4 * (wrote - read) + 2 * (accepted - taken) + (IF ctx THEN 0 ELSE 1)

WindsDown == [][Winding => StepsLeft' < StepsLeft]_vars

(* Once anybody gave a reason, the lobby ends and Run returns (Cancel,     *)
(* lobby.go:104).                                                          *)
CancelEnds == reason # "nil" ~> main = "returned"

(* Cancelling the context ends the run (exec.CommandContext, lobby.go:229).*)
CtxEnds == ctx ~> main = "returned"

(* Every match that got into the channel is written or reported, whatever  *)
(* the rest of the lobby does (collector, collect.go:36).                  *)
EveryMatchFiled == \A n \in 1..MaxLines : accepted >= n ~> n \in filed \cup spoiled

(* The run implements the abstract life of a lobby: the first real reason  *)
(* is kept and returned, and a blamed lobby ends.                          *)
Phase == IF main \in {"alloc", "start", "spawn", "wait", "conclude"} THEN "open"
         ELSE IF main \in {"unwind", "close", "join"} THEN "settled"
         ELSE "ended"
Verdict == IF reason \in Soft THEN "none" ELSE reason

Life == INSTANCE LobbyLife WITH
  Blames <- Reasons, phase <- Phase, verdict <- Verdict, result <- result

LifeSpec == Life!FairSpec
=============================================================================
