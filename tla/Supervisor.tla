----------------------------- MODULE Supervisor -----------------------------
(***************************************************************************)
(* public/lobby.Run: the loop that runs one lobby after another, decides   *)
(* after each whether to start the next, at once or after a pause, and     *)
(* hands the last error to systemd as an exit status. What a run does is   *)
(* module Lobby's business; here it may end with any error it can return.  *)
(***************************************************************************)
EXTENDS Integers

CONSTANT MaxLimit       \* bound: largest --maxfails

ASSUME LimitAssumption == MaxLimit \in Nat \ {0}

(* The errors a run ends with: ends that are part of the plan, ends that   *)
(* systemd is to act on, and all others ("exit": the child's exit error,   *)
(* "invalid": options that do not validate, "done": ErrLobbyDone).         *)
Planned == {"nil", "idletimeout", "admintimeout"}
Final == {"downed", "restarted", "stopped"}
Failure == {"timeout", "disconnected", "bug", "bad", "exit", "done", "invalid"}
Errors == Planned \cup Final \cup Failure

VARIABLES
  pc,        \* "check" (loop condition), "run", "judge", "sleep", "exited"
  fails,     \* the count of failed runs
  maxfails,  \* opts.MaxFails, which the flag directory may change
  ctx,       \* "live", or the signal that cancelled it: "term", "hard"
  err,       \* the error of the last run
  lasted,    \* did that run last 15 seconds or more?
  result,    \* what Run returned, "none" before
  runs,      \* history: lobbies started, at most 2 told apart
  rapid      \* history: failed runs since the last pause or healthy run,
             \* counted up to one more than the largest limit

vars == <<pc, fails, maxfails, ctx, err, lasted, result, runs, rapid>>

TypeOK ==
  /\ pc \in {"check", "run", "judge", "sleep", "exited"}
  /\ fails \in 0..MaxLimit
  /\ maxfails \in 0..MaxLimit
  /\ ctx \in {"live", "term", "hard"}
  /\ err \in Errors
  /\ lasted \in BOOLEAN
  /\ result \in Errors \cup {"none", "ctx", "maxfails"}
  /\ runs \in 0..2
  /\ rapid \in 0..(MaxLimit + 1)

Init ==
  /\ pc = "check" /\ fails = 0
  /\ maxfails \in 0..MaxLimit
  /\ ctx = "live"
  /\ err = "nil" /\ lasted = FALSE /\ result = "none"
  /\ runs = 0 /\ rapid = 0

-----------------------------------------------------------------------------
Exit(r) == pc' = "exited" /\ result' = r
Again == pc' = "check" /\ UNCHANGED result

(* Enough failures to give up; with restarts off none are enough. The      *)
(* mutant allows one more.                                                 *)
EnoughOver(n) == n > maxfails
Enough(n) == n >= maxfails

Hurried == rapid' = IF rapid > MaxLimit THEN rapid ELSE rapid + 1

(* Mutant of Check: the loop has no condition.                             *)
CheckAlways ==
  /\ pc = "check"
  /\ pc' = "run" /\ runs' = IF runs < 2 THEN runs + 1 ELSE 2
  /\ UNCHANGED <<fails, maxfails, ctx, err, lasted, result, rapid>>

(* The loop condition; a cancelled context is the result.                  *)
Check ==
  /\ pc = "check"
  /\ IF ctx # "live" THEN Exit("ctx") /\ UNCHANGED runs
     ELSE /\ pc' = "run" /\ runs' = IF runs < 2 THEN runs + 1 ELSE 2
          /\ UNCHANGED result
  /\ UNCHANGED <<fails, maxfails, ctx, err, lasted, rapid>>

RunEnds(e, l) ==
  /\ pc = "run"
  /\ pc' = "judge" /\ err' = e /\ lasted' = l
  /\ UNCHANGED <<fails, maxfails, ctx, result, runs, rapid>>

(* systemd is to act: pass the error on.                                   *)
JudgeFinal ==
  /\ pc = "judge" /\ err \in Final
  /\ Exit(err)
  /\ UNCHANGED <<fails, maxfails, ctx, err, lasted, runs, rapid>>

(* A failure counts, however long the run lasted, and is retried at once.  *)
JudgeFailure ==
  /\ pc = "judge" /\ err \in Failure
  /\ fails' = fails + 1
  /\ IF Enough(fails') THEN Exit(err) ELSE Again
  /\ Hurried
  /\ UNCHANGED <<maxfails, ctx, err, lasted, runs>>

CountedLong == IF lasted THEN fails + 1 ELSE 0   \* mutant: the other way round

(* A planned end after 15 seconds clears the count, before that it counts. *)
Counted == IF lasted THEN 0 ELSE fails + 1

(* The error is the caller's if there is one, or if restarts are off.      *)
GivenUp == IF err # "nil" \/ maxfails = 0 THEN err ELSE "maxfails"

JudgePlanned ==
  /\ pc = "judge" /\ err \in Planned
  /\ fails' = Counted
  /\ IF Enough(fails') THEN Exit(GivenUp)
     ELSE /\ pc' = IF fails' = 0 THEN "check" ELSE "sleep"
          /\ UNCHANGED result
  /\ IF lasted THEN rapid' = 0 ELSE Hurried
  /\ UNCHANGED <<maxfails, ctx, err, lasted, runs>>

(* Mutant of Wake: the pause forgives the failures.                        *)
WakeForgives ==
  /\ pc = "sleep"
  /\ pc' = "check" /\ rapid' = 0 /\ fails' = 0
  /\ UNCHANGED <<maxfails, ctx, err, lasted, result, runs>>

(* The rest of the 15 seconds is over, or the context is cancelled.        *)
Wake ==
  /\ pc = "sleep"
  /\ pc' = "check" /\ rapid' = 0
  /\ UNCHANGED <<fails, maxfails, ctx, err, lasted, result, runs>>

Judge == JudgeFinal \/ JudgeFailure \/ JudgePlanned

(* SIGTERM, or one of SIGQUIT, SIGINT and SIGHUP.                          *)
Signal(s) ==
  /\ ctx = "live" /\ pc # "exited"
  /\ ctx' = s
  /\ UNCHANGED <<pc, fails, maxfails, err, lasted, result, runs, rapid>>

FlagChanges(n) ==
  /\ pc # "exited" /\ n # maxfails
  /\ maxfails' = n
  /\ UNCHANGED <<pc, fails, ctx, err, lasted, result, runs, rapid>>

Ended == pc = "exited" /\ UNCHANGED vars

Loop == \/ Check \/ Judge \/ Wake
        \/ \E e \in Errors, l \in BOOLEAN : RunEnds(e, l)

Next == \/ Loop
        \/ \E s \in {"term", "hard"} : Signal(s)
        \/ \E n \in 0..MaxLimit : FlagChanges(n)
        \/ Ended

Spec == Init /\ [][Next]_vars

(* The loop goes on. A run that was cancelled ends (Lobby!CtxEnds); one    *)
(* that was not may last for ever.                                         *)
FairSpec == /\ Spec
            /\ WF_vars(Check \/ Judge \/ Wake)
            /\ WF_vars(ctx # "live" /\ \E e \in Errors, l \in BOOLEAN : RunEnds(e, l))

-----------------------------------------------------------------------------
(* Properties                                                              *)

(* Lobbies that keep failing are not restarted in a busy loop: between two *)
(* pauses or healthy runs there are at most MaxLimit failed ones, although *)
(* the limit itself may move meanwhile ("Avoid busy loops from unknown     *)
(* bugs", public/lobby/lobby.go:118).                                      *)
NoBusyLoop == rapid <= MaxLimit

(* With restarts off there is one run ("--maxfails=0 disables automatic    *)
(* lobby restarts", README.md:66).                                         *)
OneRunWhenOff == [](maxfails = 0) => [](runs <= 1)

(* A cancelled context ends the supervisor (public/lobby/lobby.go:75, 122).*)
CancelledEnds == ctx # "live" ~> pc = "exited"

(* Endless trouble ends it too: if no run is a healthy one any more and    *)
(* runs keep ending, it gives up (public/lobby/lobby.go:85, 104).          *)
Healthy == pc = "judge" /\ err \in Planned /\ lasted
TroubleEnds == (<>[]~Healthy /\ []<>(pc # "run")) => <>(pc = "exited")

(* An unused lobby that was up for its whole timeout is restarted, unless  *)
(* restarts are off (README.md:8).                                         *)
UnusedRestarted ==
  [][pc = "judge" /\ err = "timeout" /\ lasted /\ maxfails > 0 => pc' # "exited"]_vars
=============================================================================
