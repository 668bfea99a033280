----------------------------- MODULE LobbyPolicy -----------------------------
(***************************************************************************)
(* What a lobby makes of its child's output and of its spec, and when it   *)
(* decides to end: the handlers of scan.go, the registry, the live stats,  *)
(* the match clock and the watcher, which reads all of it without a lock.  *)
(*                                                                         *)
(* Time is counted in ticks of the watcher (one second, or the shorter of  *)
(* the timeouts, at least 200 ms); a tick finds every age one larger.      *)
(***************************************************************************)
EXTENDS Players, Sequences

CONSTANTS Options,      \* option records: see OptionsAssumption
          SpecKinds,    \* the kinds of spec entry that may come and go
          Full,         \* players at which "full" is advertised (10)
          MaxAge        \* bound: ages saturate here

AllKinds == {"up", "forcedown", "forcestop", "forcerestart", "down", "stop", "restart"}

ASSUME OptionsAssumption ==
  /\ Options \subseteq [timeout : Nat, admintimeout : Nat, grace : Nat, restarts : BOOLEAN]
  /\ SpecKinds \subseteq AllKinds
  /\ Full \in Nat /\ Full > 1
  /\ MaxAge \in Nat

VARIABLES
  opts,      \* the options of this run; restarts: is maxfails other than 0?
  spec,      \* kinds of spec in force: up and peer/full are "up", the
             \* peer, plain and flag entries of down, stop, ... their kind
  reg,       \* l.players
  changed,   \* l.changed: the room no longer has its default settings
  match,     \* is l.m.MatchID set?
  age,       \* the age of l.m.Timestamp
  stats,     \* the live stat files among "idle", "full", "match"
  shown,     \* the number in the stat file "players", 0 if there is none
  reason,    \* l.reason, "nil" until somebody cancels
  scan,      \* the line the stdout scanner is in the middle of
  keep,      \* the watcher's lastup, as an age
  watch,     \* the watcher: [pc, since, players, force, reason]
  held       \* history of the watcher's present iteration: was someone in
             \* the room, a match on, ever since it began; did it begin with
             \* a spec that keeps the lobby up?

scanVars == <<reg, changed, match, age, stats, shown, scan>>
watchVars == <<keep, watch>>
vars == <<opts, spec, scanVars, reason, watchVars, held>>

Waiting == [pc |-> "wait", since |-> 0, players |-> FALSE, force |-> FALSE, reason |-> "nil"]
Unseen == [present |-> FALSE, playing |-> FALSE, kept |-> FALSE]
Between == [pc |-> "line", bug |-> FALSE, admin |-> FALSE]

SpecReasons == {"downed", "stopped", "restarted"}
WatchReasons == SpecReasons \cup {"timeout", "admintimeout"}
ScanReasons == SpecReasons \cup {"idletimeout", "disconnected", "bug"}

RunType == opts \in Options /\ spec \subseteq SpecKinds

RoomType ==
  /\ reg \in Registry
  /\ changed \in BOOLEAN /\ match \in BOOLEAN
  /\ scan \in [pc : {"line", "joined", "left"}, bug : BOOLEAN, admin : BOOLEAN]

ClockType == age \in 0..MaxAge /\ keep \in 0..MaxAge

StatType ==
  /\ stats \subseteq {"idle", "full", "match"}
  /\ shown \in 0..Cardinality(Humans)

ReasonType == reason \in WatchReasons \cup ScanReasons \cup {"nil"}

LookType ==
  /\ watch \in [pc : {"wait", "sample", "judge", "cancel", "off"}, since : 0..MaxAge,
                players : BOOLEAN, force : BOOLEAN, reason : WatchReasons \cup {"nil"}]
  /\ held \in [present : BOOLEAN, playing : BOOLEAN, kept : BOOLEAN]

TypeOK == RunType /\ RoomType /\ ClockType /\ StatType /\ ReasonType /\ LookType

Watching == opts.timeout > 0 \/ opts.admintimeout > 0

Init ==
  /\ opts \in Options
  /\ spec \in SUBSET SpecKinds
  /\ reg = Nobody /\ changed = FALSE /\ match = FALSE
  /\ age = 0 /\ keep = 0 /\ stats = {} /\ shown = 0
  /\ reason = "nil"
  /\ scan = Between
  /\ watch = [Waiting EXCEPT !.pc = IF Watching THEN "wait" ELSE "off"]
  /\ held = Unseen

-----------------------------------------------------------------------------
(* The first reason stays (Lobby!Cancel, without ErrLobbyDone).            *)
Cancel(r) == reason' = IF reason = "nil" THEN r ELSE reason

(* What the history remembers after the room and the match have changed.   *)
Observe == held' = [present |-> held.present /\ reg'.joins # {},
                    playing |-> held.playing /\ match',
                    kept |-> held.kept]

(* collect: the match is over, its clock restarts now.                     *)
Collect == match' = FALSE /\ age' = 0
Uncollected == UNCHANGED <<match, age>>
WithMatchLeft(s) == s                   \* mutant: the stat is not removed
WithoutMatch(s) == s \ {"match"}

(* ReasonAfter: what the spec asks for, and whether it insists. Kinds that *)
(* push the server down harder come first; "stop" leaves the lobby its     *)
(* grace.                                                                  *)
Ranking == <<"forcedown", "forcestop", "forcerestart", "down", "stop", "restart">>
Asked == <<"downed", "stopped", "restarted", "downed", "stopped", "restarted">>
Heeded(idle, grace) ==
  {i \in DOMAIN Ranking : Ranking[i] \in spec /\ (Ranking[i] = "stop" => idle >= grace)}
SpecReason(idle, grace) ==
  LET heeded == Heeded(idle, grace)
  IN  IF heeded = {} THEN "nil"
      ELSE Asked[CHOOSE i \in heeded : \A j \in heeded : i <= j]
Insists == spec \cap {"forcedown", "forcestop", "forcerestart"} # {}

-----------------------------------------------------------------------------
(* Lines of the child's output                                             *)

Line == scan = Between

(* "Registered player": the registry first, then what follows from it; the *)
(* watcher may look in between. A bot changes the room.                    *)
Registered(id) ==
  /\ Line
  /\ reg' = Add(reg, id)
  /\ changed' = (changed \/ id \in Bots)
  /\ shown' = IF id \in Humans THEN Count(reg') ELSE shown
  /\ scan' = [pc |-> "joined", bug |-> ~CanAdd(id), admin |-> FALSE]
  /\ UNCHANGED <<opts, spec, match, age, stats, reason, watchVars>>
  /\ Observe

(* One player: no longer idle, and whatever was on is flushed.             *)
AfterRegistered ==
  /\ scan.pc = "joined"
  /\ IF Count(reg) = 1
     THEN Collect /\ stats' = WithoutMatch(stats) \ {"idle"}
     ELSE /\ stats' = IF Count(reg) = Full THEN stats \cup {"full"} ELSE stats
          /\ Uncollected
  /\ IF scan.bug THEN Cancel("bug") ELSE UNCHANGED reason
  /\ scan' = Between
  /\ UNCHANGED <<opts, spec, reg, changed, shown, watchVars>>
  /\ Observe

(* "Unregistered player".                                                  *)
Unregistered(id) ==
  /\ Line
  /\ reg' = Remove(reg, id)
  /\ changed' = (changed \/ id \in reg.bots)
  /\ shown' = IF id \in reg.joins /\ Count(reg') # 0 THEN Count(reg') ELSE shown
  /\ scan' = [pc |-> "left", bug |-> ~CanRemove(reg, id), admin |-> AdminLeaves(reg, id)]
  /\ UNCHANGED <<opts, spec, match, age, stats, reason, watchVars>>
  /\ Observe

(* Nobody left: the lobby is idle again if its settings are the default    *)
(* ones, or if it would not be restarted; otherwise it ends.               *)
AfterUnregistered ==
  /\ scan.pc = "left"
  /\ IF Count(reg) = 0
     THEN /\ Collect
          /\ shown' = 0
          /\ IF ~changed \/ ~opts.restarts
             THEN /\ stats' = WithoutMatch(stats) \cup {"idle"}
                  /\ IF scan.bug THEN Cancel("bug") ELSE UNCHANGED reason
             ELSE /\ stats' = WithoutMatch(stats)
                  /\ Cancel(IF SpecReason(0, 0) = "nil" THEN "idletimeout"
                            ELSE SpecReason(0, 0))
     ELSE /\ IF scan.admin /\ ~match THEN Collect ELSE Uncollected
          /\ stats' = IF Count(reg) = Full - 1 THEN stats \ {"full"} ELSE stats
          /\ IF scan.bug THEN Cancel("bug") ELSE UNCHANGED reason
          /\ UNCHANGED shown
  /\ scan' = Between
  /\ UNCHANGED <<opts, spec, reg, changed, watchVars>>
  /\ Observe

(* "Player assigned", "REMOTE CALLBACKS": somebody tries to get in.        *)
Attempt ==
  /\ Line
  /\ stats' = stats \ {"idle"}
  /\ UNCHANGED <<opts, spec, reg, changed, match, age, shown, scan, reason, watchVars, held>>

(* "Finished populating pool".                                             *)
Populated ==
  /\ Line /\ reg.joins = {}
  /\ stats' = stats \cup {"idle"}
  /\ UNCHANGED <<opts, spec, reg, changed, match, age, shown, scan, reason, watchVars, held>>

(* "ArenaSpecName Changed", "BallsPerSecond Changed".                      *)
SettingsChanged ==
  /\ Line /\ reg.joins # {}
  /\ changed' = TRUE
  /\ UNCHANGED <<opts, spec, reg, match, age, stats, shown, scan, reason, watchVars, held>>

(* Match JSON (its match id is taken to be non-empty): the clock shows the *)
(* time in the id, or now when it has none; JSON for the match that is on  *)
(* and whose id has none leaves it as it was.                              *)
MatchSeen ==
  /\ Line
  /\ match' = TRUE
  /\ age' \in {0, age, MaxAge}
  /\ stats' = stats \cup {"match"}
  /\ UNCHANGED <<opts, spec, reg, changed, shown, scan, reason, watchVars>>
  /\ Observe

(* "Upload complete".                                                      *)
Uploaded ==
  /\ Line
  /\ Collect
  /\ stats' = WithoutMatch(stats)
  /\ UNCHANGED <<opts, spec, reg, changed, shown, scan, reason, watchVars>>
  /\ Observe

(* "Disconnected", "Failed to create session".                             *)
Disconnected ==
  /\ Line
  /\ Cancel("disconnected")
  /\ UNCHANGED <<opts, spec, scanVars, watchVars, held>>

Scanner == \/ \E id \in Ids : Registered(id) \/ Unregistered(id)
           \/ AfterRegistered \/ AfterUnregistered
           \/ Attempt \/ Populated \/ SettingsChanged
           \/ MatchSeen \/ Uploaded \/ Disconnected

-----------------------------------------------------------------------------
(* The watcher: every read of what others change is a step of its own.     *)

Older(a) == IF a < MaxAge THEN a + 1 ELSE MaxAge
Younger(a, b) == IF a < b THEN a ELSE b

(* lastup: now while the spec keeps the lobby up.                          *)
KeepOlder == Older(keep)                \* mutant: up is not looked at
Keep == IF "up" \in spec THEN 0 ELSE Older(keep)

(* A tick: read the match clock, and the clock of the spec that keeps the  *)
(* lobby up; the younger one counts.                                       *)
Tick ==
  /\ watch.pc = "wait"
  /\ reason = "nil"           \* later ticks change nothing: Cancel ignores them
  /\ age' = Older(age)
  /\ keep' = Keep
  /\ watch' = [Waiting EXCEPT !.pc = "sample", !.since = Younger(age', keep')]
  /\ held' = [present |-> reg.joins # {}, playing |-> match, kept |-> "up" \in spec]
  /\ UNCHANGED <<opts, spec, reg, changed, match, stats, shown, scan, reason>>

(* Count the players; a forced down needs no more than that.               *)
ForcedDownLater == "forcedown" \in spec /\ ~match  \* mutant: after the match
ForcedDown == "forcedown" \in spec

Sample ==
  /\ watch.pc = "sample"
  /\ watch' = IF ForcedDown
              THEN [watch EXCEPT !.pc = "cancel", !.players = (reg.joins # {}),
                                 !.force = TRUE, !.reason = "downed"]
              ELSE [watch EXCEPT !.pc = "judge", !.players = (reg.joins # {})]
  /\ UNCHANGED <<opts, spec, scanVars, reason, keep, held>>

(* The reason there is to end the lobby: none during a match; else what    *)
(* the spec asks for, unless there are players and it does not insist;     *)
(* failing that, the timeout for an empty room or for one with players.    *)
ObeyedAlways == SpecReason(watch.since, opts.grace)  \* mutant: with players too
Obeyed == IF watch.players /\ ~Insists THEN "nil" ELSE SpecReason(watch.since, opts.grace)

Passed(limit) == limit > 0 /\ limit < watch.since
OverduePlayers ==                       \* mutant: an empty room has no timeout
  IF watch.players /\ Passed(opts.admintimeout) THEN "admintimeout" ELSE "nil"
OverdueEmpty ==                         \* mutant: a room with players has none
  IF ~watch.players /\ Passed(opts.timeout) THEN "timeout" ELSE "nil"
Overdue == IF watch.players
           THEN IF Passed(opts.admintimeout) THEN "admintimeout" ELSE "nil"
           ELSE IF Passed(opts.timeout) THEN "timeout" ELSE "nil"

DueInMatch == IF Obeyed # "nil" THEN Obeyed ELSE Overdue  \* mutant: match or not
Due == IF match THEN "nil" ELSE IF Obeyed # "nil" THEN Obeyed ELSE Overdue

Judge ==
  /\ watch.pc = "judge"
  /\ IF Due = "nil"
     THEN watch' = Waiting /\ held' = Unseen
     ELSE /\ watch' = [watch EXCEPT !.pc = "cancel", !.force = Insists, !.reason = Due]
          /\ UNCHANGED held
  /\ UNCHANGED <<opts, spec, scanVars, reason, keep>>

WatchCancels ==
  /\ watch.pc = "cancel"
  /\ Cancel(watch.reason)
  /\ watch' = [Waiting EXCEPT !.pc = "off"] /\ held' = Unseen
  /\ UNCHANGED <<opts, spec, scanVars, keep>>

(* l.done is closed: somebody else gave a reason.                          *)
WatchEnds ==
  /\ watch.pc = "wait" /\ reason # "nil"
  /\ watch' = [Waiting EXCEPT !.pc = "off"]
  /\ UNCHANGED <<opts, spec, scanVars, reason, keep, held>>

Watcher == Tick \/ Sample \/ Judge \/ WatchCancels \/ WatchEnds

-----------------------------------------------------------------------------
(* A spec file appears or goes away.                                       *)
SpecChanges(kind) ==
  /\ spec' = IF kind \in spec THEN spec \ {kind} ELSE spec \cup {kind}
  /\ UNCHANGED <<opts, scanVars, reason, watchVars, held>>

Next == Scanner \/ Watcher \/ \E kind \in SpecKinds : SpecChanges(kind)

Spec == Init /\ [][Next]_vars

(* The ticker ticks, and the scanner finishes the line it is in.           *)
FairSpec == Spec /\ WF_vars(Watcher) /\ WF_vars(AfterRegistered \/ AfterUnregistered)

-----------------------------------------------------------------------------
(* Properties                                                              *)

(* Between lines the advertised stats tell the truth about the room (the   *)
(* stat calls of filterbolt and filterjson, scan.go:158-251): its number   *)
(* of players, whether it is full - eleven or twelve included - and        *)
(* whether a match is on; "idle" is never advertised with players inside.  *)
StatsTruthful ==
  scan = Between =>
    /\ shown = Count(reg)
    /\ "full" \in stats <=> Count(reg) >= Full
    /\ "match" \in stats <=> match
    /\ "idle" \in stats => reg.joins = {}

(* There is an admin exactly when there are players, and the admin is one  *)
(* of them (Players.set and migrate, players.go:21-64).                    *)
AdminInside == IF reg.joins = {} THEN reg.admin = NoOne ELSE reg.admin \in reg.joins

(* Nobody becomes admin while the admin is there.                          *)
AdminStays == [][reg'.admin # reg.admin => reg.admin \notin reg'.joins]_vars

WatcherActs == watch.pc = "cancel" /\ watch'.pc = "off" /\ reason # reason'

(* The watcher does not end a lobby that had players all through its look  *)
(* at it, unless forced or because they let the admin timeout pass         *)
(* (watch.go:64-71).                                                       *)
PlayersNotKicked ==
  [][WatcherActs /\ held.present => watch.force \/ watch.reason = "admintimeout"]_vars

(* A match that was on all through the watcher's look is only ended by a   *)
(* forced down (watch.go:55-62).                                           *)
MatchNotBroken ==
  [][WatcherActs /\ held.playing => watch.force /\ watch.reason = "downed"]_vars

(* A lobby that the spec or a full peer keeps up when the watcher begins   *)
(* to look at it does not time out by that look, whatever becomes of the   *)
(* spec, the players and the match meanwhile (watch.go:46-73).             *)
KeptUp ==
  [][WatcherActs /\ held.kept => watch.reason \notin {"timeout", "admintimeout"}]_vars

(* An unused lobby that nothing keeps up ends (watch.go:72).               *)
Unused == reg.joins = {} /\ ~match /\ age > 0 /\ "up" \notin spec
UnusedEnds == opts.timeout > 0 /\ <>[]Unused => <>(reason # "nil")

(* Players who never start a match do not hold the lobby for ever          *)
(* (watch.go:69).                                                          *)
Dawdling == reg.joins # {} /\ ~match /\ age > 0 /\ "up" \notin spec
DawdlingEnds == opts.admintimeout > 0 /\ <>[]Dawdling => <>(reason # "nil")

(* A forced down is obeyed, match or no match, while there is a watcher    *)
(* (watch.go:55).                                                          *)
ForcedDownEnds == Watching /\ <>[]("forcedown" \in spec) => <>(reason # "nil")
=============================================================================
