-------------------------- MODULE SupervisorProofs --------------------------
(***************************************************************************)
(* Theorems about module Supervisor, for any largest --maxfails.           *)
(***************************************************************************)
EXTENDS Supervisor, TLAPS

(* The loop only goes on while the count is below the limit of the moment, *)
(* so below the largest there is; and no failed run since the last pause   *)
(* is missing from the count.                                              *)
IInv ==
  /\ TypeOK
  /\ pc # "exited" => fails < MaxLimit
  /\ rapid <= fails

LEMMA InitIInv == Init => IInv
<1> SUFFICES ASSUME Init PROVE IInv
  OBVIOUS
<1>1. TypeOK
  <2>1. err \in Errors
    BY DEF Init, Errors, Planned
  <2>2. lasted \in BOOLEAN /\ result \in Errors \cup {"none", "ctx", "maxfails"}
    BY DEF Init
  <2>3. fails \in 0..MaxLimit /\ runs \in 0..2 /\ rapid \in 0..(MaxLimit + 1)
    BY LimitAssumption DEF Init
  <2>4. QED BY <2>1, <2>2, <2>3 DEF Init, TypeOK
<1>2. QED BY <1>1, LimitAssumption DEF Init, IInv

LEMMA NextIInv == IInv /\ [Next]_vars => IInv'
<1> SUFFICES ASSUME IInv, [Next]_vars PROVE IInv'
  OBVIOUS
<1> USE LimitAssumption DEF IInv, TypeOK, Exit, Again, Enough, Hurried
<1>1. CASE Check
  BY <1>1 DEF Check
<1>2. ASSUME NEW e \in Errors, NEW l \in BOOLEAN, RunEnds(e, l) PROVE IInv'
  BY <1>2 DEF RunEnds
<1>3. CASE JudgeFinal
  BY <1>3 DEF JudgeFinal, Errors
<1>4. CASE JudgeFailure
  BY <1>4 DEF JudgeFailure, Errors
<1>5. CASE JudgePlanned
  <2>1. fails' = Counted /\ Counted \in 0..MaxLimit
    BY <1>5 DEF JudgePlanned, Counted
  <2>2. rapid' <= fails' /\ rapid' \in 0..(MaxLimit + 1)
    BY <1>5, <2>1 DEF JudgePlanned, Counted
  <2>3. pc' # "exited" => fails' < MaxLimit
    BY <1>5, <2>1 DEF JudgePlanned
  <2>4. pc' \in {"check", "sleep", "exited"} /\ result' \in Errors \cup {"none", "ctx", "maxfails"}
    BY <1>5 DEF JudgePlanned, GivenUp
  <2>5. QED
    BY <1>5, <2>1, <2>2, <2>3, <2>4 DEF JudgePlanned
<1>6. CASE Wake
  BY <1>6 DEF Wake
<1>7. ASSUME NEW s \in {"term", "hard"}, Signal(s) PROVE IInv'
  BY <1>7 DEF Signal
<1>8. ASSUME NEW n \in 0..MaxLimit, FlagChanges(n) PROVE IInv'
  BY <1>8 DEF FlagChanges
<1>9. CASE UNCHANGED vars
  BY <1>9 DEF vars
<1>10. QED
  BY <1>1, <1>2, <1>3, <1>4, <1>5, <1>6, <1>7, <1>8, <1>9 DEF Next, Loop, Judge, Ended

LEMMA Inductive == Spec => []IInv
BY InitIInv, NextIInv, PTL DEF Spec

(* Every variable keeps its type: in particular the count of failed runs   *)
(* never exceeds the largest limit (public/lobby/lobby.go:73-127).         *)
THEOREM TypeCorrect == Spec => []TypeOK
<1>1. IInv => TypeOK
  BY DEF IInv
<1>2. QED BY <1>1, Inductive, PTL

(* However the limit is changed while lobbies come and go, no more than    *)
(* the largest limit of them fail in a row without a pause or a healthy    *)
(* lobby in between (public/lobby/lobby.go:83-125).                        *)
THEOREM NeverBusy == Spec => []NoBusyLoop
<1>1. IInv => NoBusyLoop
  BY LimitAssumption DEF IInv, TypeOK, NoBusyLoop
<1>2. QED BY <1>1, Inductive, PTL

-----------------------------------------------------------------------------
(* With restarts off, the loop is passed once.                             *)
Once == /\ runs <= 1
        /\ pc = "check" => runs = 0
        /\ pc # "sleep"

LEMMA NextOnce == IInv /\ Once /\ maxfails = 0 /\ [Next]_vars => Once'
<1> SUFFICES ASSUME IInv, Once, maxfails = 0, [Next]_vars PROVE Once'
  OBVIOUS
<1> USE DEF IInv, TypeOK, Once, Exit, Again, Enough
<1>1. CASE Check
  BY <1>1 DEF Check
<1>2. CASE Judge
  BY <1>2, LimitAssumption DEF Judge, JudgeFinal, JudgeFailure, JudgePlanned, Counted
<1>3. CASE UNCHANGED <<pc, runs>>
  BY <1>3
<1>4. ASSUME NEW e \in Errors, NEW l \in BOOLEAN, RunEnds(e, l) PROVE Once'
  BY <1>4 DEF RunEnds
<1>5. QED
  BY <1>1, <1>2, <1>3, <1>4 DEF Next, Loop, Wake, Signal, FlagChanges, Ended, vars

(* With --maxfails=0 there is one lobby, whatever it ends with             *)
(* (public/lobby/lobby.go:85, 104).                                        *)
THEOREM OneRun == Spec => OneRunWhenOff
<1>1. Init => Once
  BY DEF Init, Once
<1>2. Once => runs <= 1
  BY DEF Once
<1>3. QED BY <1>1, <1>2, NextOnce, Inductive, PTL DEF Spec, OneRunWhenOff
-----------------------------------------------------------------------------
(* The end of trouble.                                                     *)

(* How many steps the loop can take before it gives up or a lobby is a     *)
(* healthy one: a round takes up to four, a pause included, and adds one   *)
(* to the count, whatever the limit is by then.                            *)
Round == [exited |-> 0, judge |-> 1, run |-> 2, check |-> 3, sleep |-> 4]
LoopLeft == 4 * (MaxLimit - fails) + Round[pc]

(* A healthy lobby begins the count anew; no other step of the loop and no *)
(* change of the limit takes any of it back.                               *)
TroubleCounts ==
  [][Healthy \/ (IF Loop THEN LoopLeft' < LoopLeft ELSE LoopLeft' = LoopLeft)]_vars

(* Once the context is cancelled the loop has one way to go: the present   *)
(* run ends, and there is no other.                                        *)
WayOut == [run |-> 4, judge |-> 3, sleep |-> 2, check |-> 1, exited |-> 0]
CancelledGoes ==
  [][ctx # "live" => IF Loop THEN WayOut[pc'] < WayOut[pc]
                     ELSE WayOut[pc'] = WayOut[pc]]_vars

LEMMA Rounds ==
  /\ Round["exited"] = 0 /\ Round["judge"] = 1 /\ Round["run"] = 2
  /\ Round["check"] = 3 /\ Round["sleep"] = 4
  /\ WayOut["exited"] = 0 /\ WayOut["check"] = 1 /\ WayOut["sleep"] = 2
  /\ WayOut["judge"] = 3 /\ WayOut["run"] = 4
BY DEF Round, WayOut

LEMMA OthersKeepPlace ==
  ASSUME Next, ~Loop PROVE pc' = pc /\ fails' = fails
BY DEF Next, Signal, FlagChanges, Ended, vars

LEMMA LoopCounts ==
  ASSUME IInv, Loop, ~Healthy PROVE LoopLeft' < LoopLeft
<1> USE Rounds, LimitAssumption DEF IInv, TypeOK, LoopLeft, Exit, Again
<1>1. CASE Check
  BY <1>1 DEF Check
<1>2. CASE Wake
  BY <1>2 DEF Wake
<1>3. ASSUME NEW e \in Errors, NEW l \in BOOLEAN, RunEnds(e, l) PROVE LoopLeft' < LoopLeft
  BY <1>3 DEF RunEnds
<1>4. CASE JudgeFinal
  BY <1>4 DEF JudgeFinal
<1>5. CASE JudgeFailure
  <2>1. fails' = fails + 1 /\ pc = "judge" /\ pc' \in {"exited", "check"}
    BY <1>5 DEF JudgeFailure
  <2>2. QED BY <2>1
(* One that was not healthy counts, and the pause is paid for by that.     *)
<1>6. CASE JudgePlanned
  <2>1. fails' = fails + 1 /\ pc = "judge" /\ pc' \in {"exited", "check", "sleep"}
    BY <1>6 DEF JudgePlanned, Counted, Healthy
  <2>2. QED BY <2>1
<1>7. QED BY <1>1, <1>2, <1>3, <1>4, <1>5, <1>6 DEF Loop, Judge

(* Without a healthy lobby the supervisor gives up after at most LoopLeft  *)
(* more steps, however the limit changes: what lies behind TroubleEnds,    *)
(* for any largest limit (public/lobby/lobby.go:75-125).                   *)
THEOREM TroubleIsCounted == Spec => TroubleCounts /\ [](LoopLeft \in Nat)
<1>1. IInv /\ [Next]_vars
        => [Healthy \/ (IF Loop THEN LoopLeft' < LoopLeft ELSE LoopLeft' = LoopLeft)]_vars
  BY LoopCounts, OthersKeepPlace DEF LoopLeft
<1>2. IInv => LoopLeft \in Nat
  BY Rounds, LimitAssumption DEF IInv, TypeOK, LoopLeft
<1>3. QED BY <1>1, <1>2, Inductive, PTL DEF Spec, TroubleCounts

(* A cancelled supervisor starts no other lobby and has at most four steps *)
(* to go, the end of the present one included (public/lobby/lobby.go:75,   *)
(* 104, 122).                                                              *)
THEOREM CancelledGoesOut == Spec => CancelledGoes
<1>1. IInv /\ [Next]_vars
        => [ctx # "live" => IF Loop THEN WayOut[pc'] < WayOut[pc]
                            ELSE WayOut[pc'] = WayOut[pc]]_vars
  <2> SUFFICES ASSUME IInv, Next, ctx # "live"
               PROVE  IF Loop THEN WayOut[pc'] < WayOut[pc] ELSE WayOut[pc'] = WayOut[pc]
    OBVIOUS
  <2>1. CASE Loop
    <3>1. CASE Check
      BY <2>1, <3>1, Rounds DEF Check, Exit
    <3>2. CASE Wake
      BY <2>1, <3>2, Rounds DEF Wake
    <3>3. ASSUME NEW e \in Errors, NEW l \in BOOLEAN, RunEnds(e, l)
          PROVE  WayOut[pc'] < WayOut[pc]
      BY <3>3, Rounds DEF RunEnds
    <3>4. CASE Judge
      <4>1. pc = "judge" /\ pc' \in {"check", "sleep", "exited"}
        BY <3>4 DEF Judge, JudgeFinal, JudgeFailure, JudgePlanned, Exit, Again
      <4>2. WayOut[pc'] \in 0..2 /\ WayOut[pc] = 3
        BY <4>1, Rounds
      <4>3. QED BY <2>1, <4>2
    <3>5. QED BY <2>1, <3>1, <3>2, <3>3, <3>4 DEF Loop
  <2>2. CASE ~Loop
    BY <2>2, OthersKeepPlace
  <2>3. QED BY <2>1, <2>2
<1>2. QED BY <1>1, Inductive, PTL DEF Spec, CancelledGoes
=============================================================================
