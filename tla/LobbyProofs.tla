----------------------------- MODULE LobbyProofs -----------------------------
(***************************************************************************)
(* Theorems about module Lobby, for any set of matches, any number of      *)
(* collectors, any capacity of the channel and any amount of output.       *)
(***************************************************************************)
EXTENDS Lobby, FiniteSetTheorems, TLAPS

-----------------------------------------------------------------------------
(* Type correctness                                                        *)

LEMMA InitTypeOK == Init => TypeOK
<1> SUFFICES ASSUME Init PROVE TypeOK
  OBVIOUS
<1> USE LobbyAssumption DEF Init, Fresh
<1>1. RunType BY DEF RunType
<1>2. ReasonType BY DEF ReasonType, Reasons, Soft
<1>3. LineType BY DEF LineType
<1>4. MatchType BY DEF MatchType
<1>5. QueueType BY DEF QueueType
<1>6. CollType BY DEF CollType
<1>7. QED BY <1>1, <1>2, <1>3, <1>4, <1>5, <1>6 DEF TypeOK

LEMMA NextTypeOK == TypeOK /\ [Next]_vars => TypeOK'
<1> SUFFICES ASSUME TypeOK, [Next]_vars PROVE TypeOK'
  OBVIOUS
<1> USE LobbyAssumption
    DEF TypeOK, RunType, ReasonType, LineType, MatchType, QueueType, CollType,
        Soft, Reasons, vars, mainVars, childVars, cancelVars, scanVars, matchVars,
        collVars, Cancel
<1>1. ASSUME Main PROVE TypeOK'
  <2> USE DEF Returned
  <2>1. CASE AllocFails BY <2>1 DEF AllocFails
  <2>2. CASE Commit BY <2>2 DEF Commit
  <2>3. CASE StartFails BY <2>3 DEF StartFails
  <2>4. CASE StartSpawns BY <2>4 DEF StartSpawns
  <2>5. CASE StartReturns BY <2>5 DEF StartReturns
  <2>6. CASE WaitReturns BY <2>6 DEF WaitReturns
  <2>7. CASE Conclude BY <2>7 DEF Conclude
  <2>8. CASE Unwind
    <3>1. RunType' BY <2>8 DEF Unwind
    <3>2. ReasonType' BY <2>8 DEF Unwind
    <3>3. LineType' /\ MatchType' BY <2>8 DEF Unwind
    <3>4. QueueType' /\ CollType' BY <2>8 DEF Unwind
    <3>5. QED BY <3>1, <3>2, <3>3, <3>4
  <2>9. CASE ClosePipes BY <2>9 DEF ClosePipes
  <2>10. CASE Return BY <2>10 DEF Return
  <2>11. QED
    BY <1>1, <2>1, <2>2, <2>3, <2>4, <2>5, <2>6, <2>7, <2>8, <2>9, <2>10 DEF Main
<1>2. CASE ChildWrites BY <1>2 DEF ChildWrites
<1>3. CASE ChildExits BY <1>3 DEF ChildExits
<1>4. CASE CtxCancelled BY <1>4 DEF CtxCancelled
<1>5. CASE CtxKills BY <1>5 DEF CtxKills
<1>6. ASSUME Scanner PROVE TypeOK'
  <2> USE DEF Line, Collect, Sent, Fresh
  <2>1. CASE ScanOther BY <2>1 DEF ScanOther
  <2>2. CASE ScanKill
    <3>1. RunType' /\ ReasonType' BY <2>2 DEF ScanKill
    <3>2. LineType' BY <2>2 DEF ScanKill
    <3>3. MatchType' BY <2>2 DEF ScanKill
    <3>4. QueueType' /\ CollType' BY <2>2 DEF ScanKill
    <3>5. QED BY <3>1, <3>2, <3>3, <3>4
  <2>3. CASE ScanCollect BY <2>3 DEF ScanCollect
  <2>4. ASSUME NEW m \in Matches, NEW k \in BOOLEAN, ScanMatch(m, k) PROVE TypeOK'
    BY <2>4 DEF ScanMatch
  <2>5. ASSUME NEW r \in ScanReasons, ScanReport(r) PROVE TypeOK'
    <3>1. RunType' /\ ReasonType' BY <2>5 DEF ScanReport
    <3>2. LineType' BY <2>5 DEF ScanReport
    <3>3. MatchType'
      <4>1. CASE Collect BY <4>1
      <4>2. CASE UNCHANGED matchVars BY <4>2
      <4>3. QED BY <2>5, <4>1, <4>2 DEF ScanReport
    <3>4. QueueType' /\ CollType' BY <2>5 DEF ScanReport
    <3>5. QED BY <3>1, <3>2, <3>3, <3>4
  <2>6. CASE ScanCancel BY <2>6 DEF ScanCancel
  <2>7. CASE ScanEnds BY <2>7 DEF ScanEnds
  <2>8. CASE ScanFlush BY <2>8 DEF ScanFlush
  <2>9. CASE ScanShut BY <2>9 DEF ScanShut
  <2>10. CASE ScanDone BY <2>10 DEF ScanDone
  <2>11. QED
    BY <1>6, <2>1, <2>2, <2>3, <2>4, <2>5, <2>6, <2>7, <2>8, <2>9, <2>10
    DEF Scanner, ScanLine
<1>7. CASE ErrEnds BY <1>7 DEF ErrEnds
<1>8. CASE ErrDone BY <1>8 DEF ErrDone
<1>9. CASE WatchEnds BY <1>9 DEF WatchEnds
<1>10. CASE WatchDone BY <1>10 DEF WatchDone
<1>11. ASSUME NEW r \in WatchReasons, WatchCancels(r) PROVE TypeOK'
  BY <1>11 DEF WatchCancels
<1>12. ASSUME NEW c \in Collectors, Collector(c) PROVE TypeOK'
  <2>1. CASE CollReceives(c) BY <2>1 DEF CollReceives
  <2>2. CASE CollFiles(c)
    <3>1. RunType' /\ ReasonType' BY <2>2 DEF CollFiles
    <3>2. LineType' /\ MatchType' /\ QueueType' BY <2>2 DEF CollFiles
    <3>3. CollType' BY <2>2 DEF CollFiles
    <3>4. QED BY <3>1, <3>2, <3>3
  <2>3. CASE CollFails(c)
    <3>1. RunType' BY <2>3 DEF CollFails
    <3>2. ReasonType' BY <2>3 DEF CollFails
    <3>3. LineType' /\ MatchType' /\ QueueType' BY <2>3 DEF CollFails
    <3>4. CollType' BY <2>3 DEF CollFails
    <3>5. QED BY <3>1, <3>2, <3>3, <3>4
  <2>4. CASE CollEnds(c) BY <2>4 DEF CollEnds
  <2>5. CASE CollDone(c) BY <2>5 DEF CollDone
  <2>6. QED BY <1>12, <2>1, <2>2, <2>3, <2>4, <2>5 DEF Collector
<1>13. CASE UNCHANGED vars BY <1>13
<1>14. QED
  BY <1>1, <1>2, <1>3, <1>4, <1>5, <1>6, <1>7, <1>8, <1>9, <1>10, <1>11, <1>12, <1>13
  DEF Next, Finished

(* Every variable keeps its type (the fields of type Lobby, lobby.go:30),  *)
(* and the channel of matches never holds more than its capacity.          *)
THEOREM TypeCorrect == Spec => []TypeOK
BY InitTypeOK, NextTypeOK, PTL DEF Spec

-----------------------------------------------------------------------------
(* The inductive invariant                                                 *)

(* l.done is open until there is a reason.                                 *)
DoneInv == /\ closes <= 1
           /\ reason = "nil" => closes = 0
           /\ scan1 = "report" => owed # "nil"

(* How far runc is says what can be alive.                                 *)
StageInv ==
  /\ child = "running" => main \in {"spawn", "wait"}
  /\ main \in {"spawn", "wait", "conclude"} => child # "none"
  /\ up => main \in {"wait", "conclude", "unwind"}
  /\ main = "alloc" => scan1 = "off" /\ reason = "nil"
  /\ scan1 = "off" => /\ main \in {"alloc", "returned"}
                      /\ scan2 = "off" /\ watcher = "off"
                      /\ \A c \in Collectors : coll[c] = "off"
  /\ main = "returned" => AllDone \/ scan1 = "off"

(* The result is not known before runc has concluded.                      *)
ResultInv ==
  /\ result = "none" <=> main \in {"alloc", "start", "spawn", "wait", "conclude"}
  /\ ResultHonest

(* Where the matches are: every number up to taken is filed, spoiled or    *)
(* held by exactly one collector, and a collector only stops once the      *)
(* channel is closed and empty.                                            *)
Settled == filed \cup spoiled
PipeInv ==
  /\ Settled \subseteq 1..taken
  /\ filed \cap spoiled = {}
  /\ \A c \in Collectors : coll[c] = "file" => held[c] \in (1..taken) \ Settled
  /\ \A c, d \in Collectors :
       coll[c] = "file" /\ coll[d] = "file" /\ held[c] = held[d] => c = d
  /\ \A n \in (1..taken) \ Settled :
       \E c \in Collectors : coll[c] = "file" /\ held[c] = n
  /\ spoiled # {} => reason \notin Soft

(* The channel is closed by the stdout scanner, which sends nothing after  *)
(* that; without a logdir nothing is ever sent.                            *)
CloseInv ==
  /\ closed <=> scan1 \in {"last", "done"}
  /\ scan1 = "off" => accepted = 0
  /\ ~opts.logdir => accepted = 0 /\ cur.id = NoMatch
  /\ \A c \in Collectors :
       coll[c] = "last" \/ (coll[c] = "done" /\ opts.logdir) => closed /\ taken = accepted

IInv == TypeOK /\ DoneInv /\ StageInv /\ ResultInv /\ PipeInv /\ CloseInv

(* Only the first Cancel finds no reason on record. *)
LEMMA NextDoneInv == IInv /\ [Next]_vars => DoneInv'
<1> SUFFICES ASSUME IInv, [Next]_vars PROVE DoneInv'
  OBVIOUS
<1> USE LobbyAssumption
    DEF IInv, DoneInv, StageInv, TypeOK, RunType, ReasonType, LineType, MatchType,
        QueueType, CollType, Soft, Reasons, vars, mainVars, childVars, cancelVars,
        scanVars, matchVars, collVars, Cancel, Returned, Line, Collect, Sent, Fresh
<1>1. CASE Main
  BY <1>1
     DEF Main, AllocFails, Commit, StartFails, StartSpawns, StartReturns, WaitReturns,
         Conclude, Unwind, ClosePipes, Return
<1>2. CASE ChildWrites \/ ChildExits \/ CtxCancelled \/ CtxKills
  BY <1>2 DEF ChildWrites, ChildExits, CtxCancelled, CtxKills
<1>3. CASE ScanLine
  BY <1>3 DEF ScanLine, ScanOther, ScanKill, ScanCollect, ScanMatch, ScanReport
<1>4. CASE Scanner /\ ~ScanLine
  BY <1>4 DEF Scanner, ScanCancel, ScanEnds, ScanFlush, ScanShut, ScanDone
<1>5. CASE ErrEnds \/ ErrDone
  BY <1>5 DEF ErrEnds, ErrDone
<1>6. CASE WatchEnds \/ WatchDone \/ \E r \in WatchReasons : WatchCancels(r)
  BY <1>6 DEF WatchEnds, WatchDone, WatchCancels
<1>7. ASSUME NEW e \in Collectors, Collector(e) PROVE DoneInv'
  BY <1>7 DEF Collector, CollReceives, CollFiles, CollFails, CollEnds, CollDone
<1>8. CASE UNCHANGED vars
  BY <1>8
<1>9. QED BY <1>1, <1>2, <1>3, <1>4, <1>5, <1>6, <1>7, <1>8 DEF Next, Finished

(* The defers of runc run in order and wait for every goroutine. *)
LEMMA NextStageInv == IInv /\ [Next]_vars => StageInv'
<1> SUFFICES ASSUME IInv, [Next]_vars PROVE StageInv'
  OBVIOUS
<1> USE LobbyAssumption
    DEF IInv, StageInv, AllDone, TypeOK, RunType, ReasonType, LineType, MatchType,
        QueueType, CollType, Soft, Reasons, vars, mainVars, childVars, cancelVars,
        scanVars, matchVars, collVars, Cancel, Returned, Line, Collect, Sent, Fresh
<1>1. CASE Main
  BY <1>1
     DEF Main, AllocFails, Commit, StartFails, StartSpawns, StartReturns, WaitReturns,
         Conclude, Unwind, ClosePipes, Return
<1>2. CASE ChildWrites \/ ChildExits \/ CtxCancelled \/ CtxKills
  BY <1>2 DEF ChildWrites, ChildExits, CtxCancelled, CtxKills
<1>3. CASE ScanLine
  BY <1>3 DEF ScanLine, ScanOther, ScanKill, ScanCollect, ScanMatch, ScanReport
<1>4. CASE Scanner /\ ~ScanLine
  BY <1>4 DEF Scanner, ScanCancel, ScanEnds, ScanFlush, ScanShut, ScanDone
<1>5. CASE ErrEnds \/ ErrDone
  BY <1>5 DEF ErrEnds, ErrDone
<1>6. CASE WatchEnds \/ WatchDone \/ \E r \in WatchReasons : WatchCancels(r)
  BY <1>6 DEF WatchEnds, WatchDone, WatchCancels
<1>7. ASSUME NEW e \in Collectors, Collector(e) PROVE StageInv'
  BY <1>7 DEF Collector, CollReceives, CollFiles, CollFails, CollEnds, CollDone
<1>8. CASE UNCHANGED vars
  BY <1>8
<1>9. QED BY <1>1, <1>2, <1>3, <1>4, <1>5, <1>6, <1>7, <1>8 DEF Next, Finished

(* A result is fixed in one step, from a reason that stays. *)
LEMMA NextResultInv == IInv /\ [Next]_vars => ResultInv'
<1> SUFFICES ASSUME IInv, [Next]_vars PROVE ResultInv'
  OBVIOUS
<1> USE LobbyAssumption
    DEF IInv, ResultInv, ResultHonest, StageInv, TypeOK, RunType, ReasonType, LineType, MatchType,
        QueueType, CollType, Soft, Reasons, vars, mainVars, childVars, cancelVars,
        scanVars, matchVars, collVars, Cancel, Returned, Line, Collect, Sent, Fresh
<1>1. CASE Main
  BY <1>1
     DEF Main, AllocFails, Commit, StartFails, StartSpawns, StartReturns, WaitReturns,
         Conclude, Unwind, ClosePipes, Return
<1>2. CASE ChildWrites \/ ChildExits \/ CtxCancelled \/ CtxKills
  BY <1>2 DEF ChildWrites, ChildExits, CtxCancelled, CtxKills
<1>3. CASE ScanLine
  BY <1>3 DEF ScanLine, ScanOther, ScanKill, ScanCollect, ScanMatch, ScanReport
<1>4. CASE Scanner /\ ~ScanLine
  BY <1>4 DEF Scanner, ScanCancel, ScanEnds, ScanFlush, ScanShut, ScanDone
<1>5. CASE ErrEnds \/ ErrDone
  BY <1>5 DEF ErrEnds, ErrDone
<1>6. CASE WatchEnds \/ WatchDone \/ \E r \in WatchReasons : WatchCancels(r)
  BY <1>6 DEF WatchEnds, WatchDone, WatchCancels
<1>7. ASSUME NEW e \in Collectors, Collector(e) PROVE ResultInv'
  BY <1>7 DEF Collector, CollReceives, CollFiles, CollFails, CollEnds, CollDone
<1>8. CASE UNCHANGED vars
  BY <1>8
<1>9. QED BY <1>1, <1>2, <1>3, <1>4, <1>5, <1>6, <1>7, <1>8 DEF Next, Finished

(* Nothing enters the channel once the stdout scanner has closed it. *)
LEMMA NextCloseInv == IInv /\ [Next]_vars => CloseInv'
<1> SUFFICES ASSUME IInv, [Next]_vars PROVE CloseInv'
  OBVIOUS
<1> USE LobbyAssumption
    DEF IInv, CloseInv, StageInv, TypeOK, RunType, ReasonType, LineType, MatchType,
        QueueType, CollType, Soft, Reasons, vars, mainVars, childVars, cancelVars,
        scanVars, matchVars, collVars, Cancel, Returned, Line, Collect, Sent, Fresh
<1>1. CASE Main
  BY <1>1
     DEF Main, AllocFails, Commit, StartFails, StartSpawns, StartReturns, WaitReturns,
         Conclude, Unwind, ClosePipes, Return
<1>2. CASE ChildWrites \/ ChildExits \/ CtxCancelled \/ CtxKills
  BY <1>2 DEF ChildWrites, ChildExits, CtxCancelled, CtxKills
<1>3. CASE ScanLine
  BY <1>3 DEF ScanLine, ScanOther, ScanKill, ScanCollect, ScanMatch, ScanReport
<1>4. CASE Scanner /\ ~ScanLine
  BY <1>4 DEF Scanner, ScanCancel, ScanEnds, ScanFlush, ScanShut, ScanDone
<1>5. CASE ErrEnds \/ ErrDone
  BY <1>5 DEF ErrEnds, ErrDone
<1>6. CASE WatchEnds \/ WatchDone \/ \E r \in WatchReasons : WatchCancels(r)
  BY <1>6 DEF WatchEnds, WatchDone, WatchCancels
<1>7. ASSUME NEW e \in Collectors, Collector(e) PROVE CloseInv'
  BY <1>7 DEF Collector, CollReceives, CollFiles, CollFails, CollEnds, CollDone
<1>8. CASE UNCHANGED vars
  BY <1>8
<1>9. QED BY <1>1, <1>2, <1>3, <1>4, <1>5, <1>6, <1>7, <1>8 DEF Next, Finished

(* Matches only move between the channel, the collectors and the files; a  *)
(* step of anybody else leaves them where they are.                        *)
LEMMA NextPipeInv == IInv /\ [Next]_vars => PipeInv'
<1> SUFFICES ASSUME IInv, [Next]_vars PROVE PipeInv'
  OBVIOUS
<1> USE DEF IInv, PipeInv, Settled, TypeOK, QueueType, CollType, ReasonType, StageInv
<1>1. ASSUME UNCHANGED collVars, reason \notin Soft => reason' \notin Soft PROVE PipeInv'
  BY <1>1 DEF collVars
<1>2. CASE Main
  <2>1. CASE Commit
    BY <2>1 DEF Commit, cancelVars
  <2>2. CASE ~Commit
    <3>1. UNCHANGED collVars /\ (reason \notin Soft => reason' \notin Soft)
      BY <1>2, <2>2
         DEF Main, AllocFails, StartFails, StartSpawns, StartReturns, WaitReturns,
             Conclude, Unwind, ClosePipes, Return, Cancel, cancelVars, Soft
    <3>2. QED BY <3>1, <1>1
  <2>3. QED BY <2>1, <2>2
<1>3. CASE ChildWrites \/ ChildExits \/ CtxCancelled \/ CtxKills
  BY <1>1, <1>3 DEF ChildWrites, ChildExits, CtxCancelled, CtxKills, cancelVars
<1>4. CASE Scanner \/ ErrEnds \/ ErrDone
  BY <1>1, <1>4
     DEF Scanner, ScanLine, ScanOther, ScanKill, ScanCollect, ScanMatch, ScanReport,
         ScanCancel, ScanEnds, ScanFlush, ScanShut, ScanDone, ErrEnds, ErrDone, Cancel,
         cancelVars
<1>5. CASE WatchEnds \/ WatchDone \/ \E r \in WatchReasons : WatchCancels(r)
  BY <1>1, <1>5 DEF WatchEnds, WatchDone, WatchCancels, Cancel, cancelVars
<1>6. ASSUME NEW e \in Collectors, Collector(e) PROVE PipeInv'
  <2>1. CASE CollReceives(e)
    BY <2>1 DEF CollReceives, cancelVars
  <2>2. ASSUME coll[e] = "file", coll' = [coll EXCEPT ![e] = "recv"],
               Settled' = Settled \cup {held[e]}, filed' \cap spoiled' = {},
               spoiled' # {} => reason' \notin Soft, UNCHANGED <<taken, held>>
        PROVE  PipeInv'
    <3>1. Settled' \subseteq 1..taken'
      <4>1. held[e] \in 1..taken /\ Settled \subseteq 1..taken
        BY <2>2
      <4>2. QED BY <2>2, <4>1
    <3>2. ASSUME NEW c \in Collectors, coll'[c] = "file"
          PROVE  c # e /\ coll[c] = "file" /\ held[c] # held[e]
      BY <2>2, <3>2
    <3>3. \A c \in Collectors : coll'[c] = "file" => held'[c] \in (1..taken') \ Settled'
      BY <2>2, <3>2
    <3>4. \A c, d \in Collectors :
            coll'[c] = "file" /\ coll'[d] = "file" /\ held'[c] = held'[d] => c = d
      BY <2>2, <3>2
    <3>5. \A n \in (1..taken') \ Settled' :
            \E c \in Collectors : coll'[c] = "file" /\ held'[c] = n
      BY <2>2
    <3>6. QED BY <2>2, <3>1, <3>3, <3>4, <3>5
  <2>3. CASE CollFiles(e)
    <3>1. Settled' = Settled \cup {held[e]} /\ filed' \cap spoiled' = {}
      BY <2>3 DEF CollFiles
    <3>2. QED BY <2>2, <2>3, <3>1 DEF CollFiles, cancelVars
  <2>4. CASE CollFails(e)
    <3>1. Settled' = Settled \cup {held[e]} /\ filed' \cap spoiled' = {}
      BY <2>4 DEF CollFails
    <3>2. reason' \notin Soft
      BY <2>4, LobbyAssumption DEF CollFails, Cancel, Reasons, Soft
    <3>3. QED BY <2>2, <2>4, <3>1, <3>2 DEF CollFails
  <2>5. CASE CollEnds(e)
    BY <2>5 DEF CollEnds, cancelVars
  <2>6. CASE CollDone(e)
    <3>1. reason \notin Soft => reason' \notin Soft
      BY <2>6 DEF CollDone, Cancel
    <3>2. UNCHANGED <<taken, held, filed, spoiled>>
      BY <2>6 DEF CollDone
    <3>3. \A c \in Collectors : coll'[c] = "file" <=> coll[c] = "file"
      BY <2>6 DEF CollDone
    <3>4. QED BY <3>1, <3>2, <3>3
  <2>7. QED BY <1>6, <2>1, <2>3, <2>4, <2>5, <2>6 DEF Collector
<1>7. CASE UNCHANGED vars
  BY <1>1, <1>7 DEF vars, cancelVars
<1>8. QED BY <1>2, <1>3, <1>4, <1>5, <1>6, <1>7 DEF Next, Finished

LEMMA InitIInv == Init => IInv
<1> SUFFICES ASSUME Init PROVE IInv
  OBVIOUS
<1>1. TypeOK
  BY InitTypeOK
<1>2. DoneInv /\ ResultInv
  BY DEF Init, DoneInv, ResultInv, ResultHonest
<1>3. StageInv
  BY DEF Init, StageInv
<1>4. PipeInv
  BY DEF Init, PipeInv, Settled
<1>5. CloseInv
  BY DEF Init, CloseInv, Fresh
<1>6. QED BY <1>1, <1>2, <1>3, <1>4, <1>5 DEF IInv

LEMMA NextIInv == IInv /\ [Next]_vars => IInv'
BY NextTypeOK, NextDoneInv, NextStageInv, NextResultInv, NextPipeInv, NextCloseInv DEF IInv

LEMMA Inductive == Spec => []IInv
BY InitIInv, NextIInv, PTL DEF Spec

-----------------------------------------------------------------------------
(* The theorems                                                            *)

(* The channel l.done is closed at most once, whoever calls Cancel and     *)
(* however often (lobby.go:113-117): no call of Cancel can panic.          *)
THEOREM DoneIsClosedOnce == Spec => []DoneClosedOnce
<1>1. IInv => DoneClosedOnce
  BY DEF IInv, DoneInv, DoneClosedOnce
<1>2. QED BY <1>1, Inductive, PTL

(* A clean result means a child that ended well, and every other result is *)
(* the reason on record, then and for ever after (lobby.go:282).           *)
THEOREM ResultIsHonest == Spec => []ResultHonest
<1>1. IInv => ResultHonest
  BY DEF IInv, ResultInv
<1>2. QED BY <1>1, Inductive, PTL

(* A match goes to one collector and is dealt with once (collect.go:44),   *)
(* for any number of collectors.                                           *)
THEOREM OneCollectorForEach == Spec => []OneCollectorEach
<1>1. IInv => OneCollectorEach
  BY DEF IInv, PipeInv, Settled, OneCollectorEach
<1>2. QED BY <1>1, Inductive, PTL

(* When Run returns there is no child, no goroutine, no "up" stat and no   *)
(* match that was accepted but neither written nor reported (the defers of *)
(* runc, lobby.go:262-281, and of scanner, scan.go:254-263).               *)
THEOREM RunLeavesNothing == Spec => []LeavesNothing
<1>1. IInv => LeavesNothing
  <2> SUFFICES ASSUME IInv, main = "returned" PROVE Quiet /\ NoMatchLeft
    BY DEF LeavesNothing
  <2> USE DEF IInv
  <2>1. Quiet
    BY DEF StageInv, Quiet
  <2>2. spoiled # {} => reason \notin Soft
    BY DEF PipeInv
  <2>3. \A c \in Collectors : coll[c] # "file"
    BY DEF StageInv, AllDone
  <2>4. filed \cup spoiled = 1..taken
    BY <2>3 DEF PipeInv, Settled
  <2>5. taken = accepted
    <3>1. CASE scan1 = "off" \/ ~opts.logdir
      BY <3>1 DEF CloseInv, TypeOK, QueueType
    <3>2. CASE AllDone /\ opts.logdir
      <4>1. PICK c \in Collectors : coll[c] = "done"
        BY <3>2, LobbyAssumption DEF AllDone
      <4>2. QED BY <3>2, <4>1 DEF CloseInv
    <3>3. QED BY <3>1, <3>2 DEF StageInv, TypeOK, RunType
  <2>6. QED BY <2>1, <2>2, <2>4, <2>5 DEF NoMatchLeft
<1>2. QED BY <1>1, Inductive, PTL

-----------------------------------------------------------------------------
(* The end of a run                                                        *)

(* Nobody starts a child before runc does; a reason on record has closed   *)
(* l.done; and runc gives one before it closes the pipes.                  *)
EndInv ==
  /\ main \in {"alloc", "start"} => child = "none"
  /\ main # "returned" /\ reason # "nil" => closes > 0
  /\ main \in {"close", "join"} => reason # "nil"

LEMMA NextEndInv == IInv /\ EndInv /\ [Next]_vars => EndInv'
<1> SUFFICES ASSUME IInv, EndInv, [Next]_vars PROVE EndInv'
  OBVIOUS
<1> USE DEF EndInv, IInv, TypeOK, ReasonType, Cancel, Soft
(* A reason that is there stays, and the first one closes l.done.          *)
<1>1. ASSUME NEW r, r # "nil", Cancel(r) \/ UNCHANGED cancelVars
      PROVE  /\ reason # "nil" => reason' # "nil"
             /\ (reason # "nil" => closes > 0) => (reason' # "nil" => closes' > 0)
  BY <1>1 DEF cancelVars
<1>2. CASE Main
  <2>1. CASE AllocFails
    BY <2>1 DEF AllocFails
  <2>2. CASE StartFails
    BY <1>1, <2>2 DEF StartFails
  <2>3. CASE Conclude
    BY <1>1, <2>3 DEF Conclude
  <2>4. CASE Unwind
    BY <2>4 DEF Unwind
  <2>5. CASE Commit \/ StartSpawns \/ StartReturns \/ WaitReturns \/ ClosePipes \/ Return
    BY <2>5 DEF Commit, StartSpawns, StartReturns, WaitReturns, ClosePipes, Return,
                cancelVars, childVars
  <2>6. QED BY <1>2, <2>1, <2>2, <2>3, <2>4, <2>5 DEF Main
<1>3. CASE ~Main
  <2>1. UNCHANGED main /\ (main \in {"alloc", "start"} => child' = child)
    BY <1>3
       DEF Next, ChildWrites, ChildExits, CtxCancelled, CtxKills, Scanner, ScanLine, ScanOther,
           ScanKill, ScanCollect, ScanMatch, ScanReport, ScanCancel, ScanEnds, ScanFlush,
           ScanShut, ScanDone, ErrEnds, ErrDone, WatchEnds, WatchDone, WatchCancels, Collector,
           CollReceives, CollFiles, CollFails, CollEnds, CollDone, Finished, mainVars,
           childVars, vars
  <2>2. \E r : r # "nil" /\ (Cancel(r) \/ UNCHANGED cancelVars)
    <3>1. ASSUME NEW r \in Reasons PROVE r # "nil"
      BY LobbyAssumption
    <3>2. CASE Scanner \/ ErrEnds \/ ErrDone
      BY <3>1, <3>2
         DEF Scanner, ScanLine, ScanOther, ScanKill, ScanCollect, ScanMatch, ScanReport,
             ScanCancel, ScanEnds, ScanFlush, ScanShut, ScanDone, ErrEnds, ErrDone, DoneInv
    <3>3. CASE WatchEnds \/ WatchDone \/ \E r \in WatchReasons : WatchCancels(r)
      BY <3>1, <3>3 DEF WatchEnds, WatchDone, WatchCancels, Reasons
    <3>4. ASSUME NEW c \in Collectors, Collector(c)
          PROVE  \E r : r # "nil" /\ (Cancel(r) \/ UNCHANGED cancelVars)
      BY <3>4 DEF Collector, CollReceives, CollFiles, CollFails, CollEnds, CollDone
    <3>5. CASE ChildWrites \/ ChildExits \/ CtxCancelled \/ CtxKills \/ UNCHANGED vars
      BY <3>5 DEF ChildWrites, ChildExits, CtxCancelled, CtxKills, vars
    <3>6. QED BY <1>3, <3>2, <3>3, <3>4, <3>5 DEF Next, Finished
  <2>3. QED BY <1>1, <2>1, <2>2
<1>4. QED BY <1>2, <1>3

LEMMA Ending == Spec => [](IInv /\ EndInv)
<1>1. Init => EndInv
  BY DEF Init, EndInv
<1>2. QED BY <1>1, NextEndInv, Inductive, PTL DEF Spec

(* When runc waits for its goroutines, none of them waits for runc or for  *)
(* one that is gone: with any number of collectors wg.Wait is no deadlock  *)
(* (the order of the defers, lobby.go:262-276).                            *)
THEOREM NobodyIsStuck == Spec => []JoinSound
<1>1. IInv /\ EndInv => JoinSound
  <2> SUFFICES ASSUME IInv, EndInv, main = "join" PROVE JoinSound
    BY DEF JoinSound
  <2>1. WritersGone
    BY DEF IInv, StageInv, WritersGone
  <2>2. closes > 0
    BY DEF EndInv
  <2>3. scan1 # "done" \/ closed
    BY DEF IInv, CloseInv
  <2>4. QED BY <2>1, <2>2, <2>3 DEF JoinSound
<1>2. QED BY <1>1, Ending, PTL

(* The ranks, one by one.                                                  *)
LEMMA Ranks ==
  /\ MainRank["spawn"] = 6 /\ MainRank["wait"] = 5 /\ MainRank["conclude"] = 4
  /\ MainRank["unwind"] = 3 /\ MainRank["close"] = 2 /\ MainRank["join"] = 1
  /\ MainRank["returned"] = 0
  /\ ScanRank["scan"] = 6 /\ ScanRank["report"] = 7 /\ ScanRank["flush"] = 5
  /\ ScanRank["shut"] = 2 /\ ScanRank["last"] = 1 /\ ScanRank["done"] = 0
  /\ ScanRank["off"] = 0
  /\ Rank["scan"] = 2 /\ Rank["watch"] = 2 /\ Rank["recv"] = 2 /\ Rank["file"] = 3
  /\ Rank["last"] = 1 /\ Rank["done"] = 0 /\ Rank["off"] = 0
BY DEF MainRank, ScanRank, Rank

LEMMA CollStepsFinite == IsFiniteSet(CollSteps) /\ Cardinality(CollSteps) \in Nat
<1>1. IsFiniteSet(Collectors \X (1..3))
  <2>1. IsFiniteSet(1..3)
    <3>1. 1 \in Int /\ 3 \in Int
      OBVIOUS
    <3>2. QED BY <3>1, FS_Interval, Zenon
  <2>2. IsFiniteSet(Collectors)
    BY LobbyAssumption
  <2>3. QED BY <2>1, <2>2, FS_Product
<1>2. CollSteps \in SUBSET (Collectors \X (1..3))
  BY DEF CollSteps
<1>3. QED BY <1>1, <1>2, FS_Subset, FS_CardinalityType

(* A collector that moves one rank down has one step less to take, one     *)
(* that moves up one more.                                                 *)
LEMMA CollMoves ==
  ASSUME NEW c \in Collectors, NEW s \in {"recv", "file", "last", "done"},
         coll \in [Collectors -> {"off", "recv", "file", "last", "done"}],
         coll' = [coll EXCEPT ![c] = s]
  PROVE  /\ Rank[coll[c]] = Rank[s] + 1 => Cardinality(CollSteps') = Cardinality(CollSteps) - 1
         /\ Rank[s] = Rank[coll[c]] + 1 => Cardinality(CollSteps') = Cardinality(CollSteps) + 1
<1> DEFINE high == Rank[s]
           low == Rank[coll[c]]
<1>a. high \in 0..3 /\ low \in 0..3
  <2>1. coll[c] \in {"off", "recv", "file", "last", "done"}
    OBVIOUS
  <2>2. QED BY <2>1, Ranks
<1>b. \A x \in Collectors \X (1..3) :
        /\ x \in CollSteps <=> x[2] <= Rank[coll[x[1]]]
        /\ x \in CollSteps' <=> x[2] <= (IF x[1] = c THEN high ELSE Rank[coll[x[1]]])
  BY DEF CollSteps
<1>c. CollSteps \subseteq Collectors \X (1..3) /\ CollSteps' \subseteq Collectors \X (1..3)
  BY DEF CollSteps
<1>d. \A x \in Collectors \X (1..3) : x = <<x[1], x[2]>> /\ x[2] \in 1..3
  OBVIOUS
<1> HIDE DEF high, low
<1>1. ASSUME low = high + 1
      PROVE  Cardinality(CollSteps') = Cardinality(CollSteps) - 1
  <2>1. <<c, low>> \in Collectors \X (1..3)
    BY <1>a, <1>1
  <2>2. <<c, low>> \in CollSteps
    BY <1>a, <1>b, <2>1 DEF low
  <2>3. ASSUME NEW x \in Collectors \X (1..3)
        PROVE  x \in CollSteps' <=> x \in CollSteps /\ x # <<c, low>>
    <3>1. CASE x[1] = c
      <4>1. x[2] <= high <=> x[2] <= low /\ x[2] # low
        BY <1>a, <1>d, <1>1
      <4>2. x = <<c, low>> <=> x[2] = low
        BY <1>d, <3>1
      <4>3. QED BY <1>b, <3>1, <4>1, <4>2 DEF low
    <3>2. CASE x[1] # c
      BY <1>b, <3>2
    <3>3. QED BY <3>1, <3>2
  <2>4. CollSteps' = CollSteps \ {<<c, low>>}
    BY <1>c, <2>3
  <2>5. QED BY <2>2, <2>4, CollStepsFinite, FS_RemoveElement
<1>2. ASSUME high = low + 1
      PROVE  Cardinality(CollSteps') = Cardinality(CollSteps) + 1
  <2>1. <<c, high>> \in Collectors \X (1..3)
    BY <1>a, <1>2
  <2>2. <<c, high>> \notin CollSteps
    BY <1>a, <1>b, <1>2, <2>1 DEF low
  <2>3. ASSUME NEW x \in Collectors \X (1..3)
        PROVE  x \in CollSteps' <=> x \in CollSteps \/ x = <<c, high>>
    <3>1. CASE x[1] = c
      <4>1. x[2] <= high <=> x[2] <= low \/ x[2] = high
        BY <1>a, <1>d, <1>2
      <4>2. x = <<c, high>> <=> x[2] = high
        BY <1>d, <3>1
      <4>3. QED BY <1>b, <3>1, <4>1, <4>2 DEF low
    <3>2. CASE x[1] # c
      BY <1>b, <3>2
    <3>3. QED BY <3>1, <3>2
  <2>4. CollSteps' = CollSteps \cup {<<c, high>>}
    BY <1>c, <2>1, <2>3
  <2>5. QED BY <2>2, <2>4, CollStepsFinite, FS_AddElement
<1>3. QED BY <1>1, <1>2 DEF high, low

(* What is left, in parts.                                                 *)
Runc == MainRank[main]
Ears == ScanRank[scan1] + Rank[scan2] + Rank[watcher]
Lines == wrote - read
Waiting == accepted - taken
Hands == Cardinality(CollSteps)
Caller == IF ctx THEN 0 ELSE 1

LEMMA PartsAre ==
  ASSUME IInv, Winding, EndInv
  PROVE  /\ Runc \in Nat /\ Ears \in Nat /\ Lines \in Nat /\ Waiting \in Nat
         /\ Hands \in Nat /\ Caller \in Nat
         /\ StepsLeft = Runc + Ears + Hands + 4 * Lines + 2 * Waiting + Caller
<1> USE DEF IInv, TypeOK
<1>1. main \notin {"alloc", "start"}
  BY DEF Winding, EndInv
<1>2. Runc \in Nat
  BY <1>1, Ranks DEF Runc, RunType
<1>3. ScanRank[scan1] \in Nat /\ Rank[scan2] \in Nat /\ Rank[watcher] \in Nat
  BY Ranks DEF LineType, RunType
<1>4. Lines \in Nat /\ Waiting \in Nat /\ Caller \in Nat
  BY LobbyAssumption DEF Lines, Waiting, Caller, LineType, QueueType
<1>5. QED BY <1>2, <1>3, <1>4, CollStepsFinite 
     DEF StepsLeft, Runc, Ears, Lines, Waiting, Hands, Caller

(* The end of a run is an end: no child, and no way back.                  *)
LEMMA WindingStays == ASSUME IInv, EndInv, Winding, [Next]_vars PROVE Winding'
<1> USE DEF Winding, IInv, StageInv, EndInv
<1>1. CASE Main
  BY <1>1 DEF Main, AllocFails, Commit, StartFails, StartSpawns, StartReturns, WaitReturns,
              Conclude, Unwind, ClosePipes, Return, childVars
<1>2. CASE ~Main
  BY <1>2
     DEF Next, ChildWrites, ChildExits, CtxCancelled, CtxKills, Scanner, ScanLine, ScanOther,
         ScanKill, ScanCollect, ScanMatch, ScanReport, ScanCancel, ScanEnds, ScanFlush,
         ScanShut, ScanDone, ErrEnds, ErrDone, WatchEnds, WatchDone, WatchCancels, Collector,
         CollReceives, CollFiles, CollFails, CollEnds, CollDone, Finished, mainVars,
         childVars, vars
<1>3. QED BY <1>1, <1>2

(* Which part a step takes from; only a line of output adds to another.    *)
LEMMA NextWinds ==
  ASSUME IInv, EndInv, Winding, Next, vars' # vars
  PROVE  StepsLeft' < StepsLeft
<1>a. [Next]_vars
  OBVIOUS
<1>b. IInv' /\ EndInv' /\ Winding'
  BY <1>a, NextIInv, NextEndInv, WindingStays
<1>c. /\ Runc \in Nat /\ Ears \in Nat /\ Lines \in Nat /\ Waiting \in Nat /\ Caller \in Nat
      /\ Hands \in Nat
      /\ StepsLeft = Runc + Ears + Hands + 4 * Lines + 2 * Waiting + Caller
  BY PartsAre
<1> DEFINE runc == Runc'
           ears == Ears'
           lines == Lines'
           waiting == Waiting'
           hands == Hands'
           caller == Caller'
<1>d. /\ runc \in Nat /\ ears \in Nat /\ lines \in Nat /\ waiting \in Nat /\ hands \in Nat
      /\ caller \in Nat
      /\ StepsLeft' = runc + ears + hands + 4 * lines + 2 * waiting + caller
  <2>1. (IInv /\ Winding /\ EndInv =>
          /\ Runc \in Nat /\ Ears \in Nat /\ Lines \in Nat /\ Waiting \in Nat
          /\ Hands \in Nat /\ Caller \in Nat
          /\ StepsLeft = Runc + Ears + Hands + 4 * Lines + 2 * Waiting + Caller)'
    BY PartsAre, PTL
  <2>2. QED BY <1>b, <2>1
<1> HIDE DEF runc, ears, lines, waiting, hands, caller
<1>e. UNCHANGED coll => hands = Hands
  BY DEF CollSteps, Hands, hands
<1>f. /\ UNCHANGED main => runc = Runc
      /\ UNCHANGED <<scan1, scan2, watcher>> => ears = Ears
      /\ UNCHANGED <<wrote, read>> => lines = Lines
      /\ UNCHANGED <<accepted, taken>> => waiting = Waiting
      /\ UNCHANGED ctx => caller = Caller
  BY DEF Runc, Ears, Lines, Waiting, Caller, runc, ears, lines, waiting, caller
<1> USE DEF mainVars, childVars, cancelVars, scanVars, matchVars, collVars
<1>1. CASE Main
  <2>1. main \notin {"alloc", "start"}
    BY DEF Winding, EndInv
  <2>2. runc < Runc
    BY <1>1, <2>1, Ranks
       DEF Main, AllocFails, Commit, StartFails, StartSpawns, StartReturns, WaitReturns,
           Conclude, Unwind, ClosePipes, Return, Runc, runc
  <2>3. UNCHANGED <<scan1, scan2, watcher, wrote, read, accepted, taken, ctx, coll>>
    BY <1>1, <2>1
       DEF Main, AllocFails, Commit, StartFails, StartSpawns, StartReturns, WaitReturns,
           Conclude, Unwind, ClosePipes, Return
  <2>4. ears = Ears /\ lines = Lines /\ waiting = Waiting /\ caller = Caller /\ hands = Hands
    BY <1>e, <1>f, <2>3
  <2>5. QED BY <1>c, <1>d, <2>2, <2>4
<1>2. CASE ChildWrites \/ ChildExits \/ CtxKills
  BY <1>2 DEF ChildWrites, ChildExits, CtxKills, IInv, StageInv, Winding
<1>3. CASE CtxCancelled
  <2>1. caller < Caller
    BY <1>3 DEF CtxCancelled, Caller, caller
  <2>2. UNCHANGED <<main, scan1, scan2, watcher, wrote, read, accepted, taken, coll>>
    BY <1>3 DEF CtxCancelled
  <2>3. runc = Runc /\ ears = Ears /\ lines = Lines /\ waiting = Waiting /\ hands = Hands
    BY <1>e, <1>f, <2>2
  <2>4. QED BY <1>c, <1>d, <2>1, <2>3
(* A line may yield a match, and a reason.                                 *)
<1>4. CASE ScanLine
  <2>1. lines = Lines - 1 /\ UNCHANGED <<main, scan2, watcher, wrote, taken, ctx, coll>>
    BY <1>4
       DEF ScanLine, ScanOther, ScanKill, ScanCollect, ScanMatch, ScanReport, Line, Lines,
           lines, IInv, TypeOK, LineType
  <2>2. accepted' \in {accepted, accepted + 1}
    BY <1>4 DEF ScanLine, ScanOther, ScanKill, ScanCollect, ScanMatch, ScanReport, Collect, Sent
  <2>3. waiting <= Waiting + 1
    <3>1. taken' = taken /\ taken \in Nat /\ accepted \in Nat
      BY <2>1 DEF IInv, TypeOK, QueueType
    <3>2. CASE accepted' = accepted
      BY <3>1, <3>2 DEF Waiting, waiting
    <3>3. CASE accepted' = accepted + 1
      BY <3>1, <3>3 DEF Waiting, waiting
    <3>4. QED BY <2>2, <3>2, <3>3
  <2>4. scan1 = "scan" /\ scan1' \in {"scan", "report"}
    BY <1>4 DEF ScanLine, ScanOther, ScanKill, ScanCollect, ScanMatch, ScanReport, Line
  <2>5. ears <= Ears + 1
    BY <2>1, <2>4, Ranks DEF Ears, ears, IInv, TypeOK, RunType
  <2>6. runc = Runc /\ caller = Caller /\ hands = Hands
    BY <1>e, <1>f, <2>1
  <2>7. QED BY <1>c, <1>d, <2>1, <2>3, <2>5, <2>6
<1>5. CASE ScanFlush
  <2>1. waiting <= Waiting + 1
    BY <1>5 DEF ScanFlush, Collect, Sent, Waiting, waiting, IInv, TypeOK, QueueType
  <2>2. ears = Ears - 3
    BY <1>5, Ranks DEF ScanFlush, Ears, ears, IInv, TypeOK, RunType
  <2>3. UNCHANGED <<main, wrote, read, ctx, coll>>
    BY <1>5 DEF ScanFlush
  <2>4. runc = Runc /\ lines = Lines /\ caller = Caller /\ hands = Hands
    BY <1>e, <1>f, <2>3
  <2>5. QED BY <1>c, <1>d, <2>1, <2>2, <2>4
<1>6. CASE \/ ScanCancel \/ ScanEnds \/ ScanShut \/ ScanDone \/ ErrEnds \/ ErrDone
           \/ WatchEnds \/ WatchDone \/ \E r \in WatchReasons : WatchCancels(r)
  <2>1. ears = Ears - 1
    <3>1. CASE ScanCancel \/ ScanEnds \/ ScanShut \/ ScanDone
      BY <3>1, Ranks DEF ScanCancel, ScanEnds, ScanShut, ScanDone, Ears, ears, IInv, TypeOK, RunType
    <3>2. CASE ErrEnds \/ ErrDone
      BY <3>2, Ranks DEF ErrEnds, ErrDone, Ears, ears, IInv, TypeOK, RunType, LineType
    <3>3. CASE WatchEnds \/ WatchDone \/ \E r \in WatchReasons : WatchCancels(r)
      BY <3>3, Ranks
         DEF WatchEnds, WatchDone, WatchCancels, Ears, ears, IInv, TypeOK, RunType, LineType
    <3>4. QED BY <1>6, <3>1, <3>2, <3>3
  <2>2. UNCHANGED <<main, wrote, read, accepted, taken, ctx, coll>>
    BY <1>6 DEF ScanCancel, ScanEnds, ScanShut, ScanDone, ErrEnds, ErrDone, WatchEnds,
                WatchDone, WatchCancels
  <2>3. QED BY <1>c, <1>d, <1>e, <1>f, <2>1, <2>2
<1>7. ASSUME NEW c \in Collectors, Collector(c) PROVE StepsLeft' < StepsLeft
  <2>a. coll \in [Collectors -> {"off", "recv", "file", "last", "done"}]
    BY DEF IInv, TypeOK, CollType
  <2>b. UNCHANGED <<main, scan1, scan2, watcher, wrote, read, accepted, ctx>>
    BY <1>7 DEF Collector, CollReceives, CollFiles, CollFails, CollEnds, CollDone
  <2>1. CASE CollReceives(c)
    <3>1. waiting = Waiting - 1
      BY <2>1, <2>b DEF CollReceives, Waiting, waiting, IInv, TypeOK, QueueType
    <3>2. hands = Hands + 1
      <4>1. coll[c] = "recv" /\ coll' = [coll EXCEPT ![c] = "file"]
        BY <2>1 DEF CollReceives
      <4>2. Rank["file"] = Rank[coll[c]] + 1
        BY <4>1, Ranks
      <4>3. QED BY <2>a, <4>1, <4>2, CollMoves DEF Hands, hands
    <3>3. QED BY <1>c, <1>d, <1>f, <2>b, <3>1, <3>2
  <2>2. CASE CollFiles(c) \/ CollFails(c) \/ CollEnds(c) \/ CollDone(c)
    <3>1. UNCHANGED taken
      BY <2>2 DEF CollFiles, CollFails, CollEnds, CollDone
    <3>2. hands = Hands - 1
      BY <2>a, <2>2, CollMoves, Ranks DEF CollFiles, CollFails, CollEnds, CollDone, Hands, hands
    <3>3. QED BY <1>c, <1>d, <1>f, <2>b, <3>1, <3>2
  <2>3. QED BY <1>7, <2>1, <2>2 DEF Collector
<1>8. QED BY <1>1, <1>2, <1>3, <1>4, <1>5, <1>6, <1>7 DEF Next, Scanner, Finished

(* From the end of the child on every step brings the run nearer to its    *)
(* end, whatever is still found and reported: with NobodyIsStuck, Run      *)
(* returns after at most StepsLeft more steps (lobby.go:257-283).          *)
THEOREM RunWindsDown == Spec => WindsDown
<1>1. IInv /\ EndInv /\ [Next]_vars => [Winding => StepsLeft' < StepsLeft]_vars
  BY NextWinds
<1>2. QED BY <1>1, Ending, PTL DEF Spec, WindsDown

(* StepsLeft is a number of steps: there is nothing below 0 to go to.      *)
THEOREM StepsAreCounted == Spec => [](Winding => StepsLeft \in Nat)
<1>1. IInv /\ EndInv => (Winding => StepsLeft \in Nat)
  BY PartsAre, CollStepsFinite
<1>2. QED BY <1>1, Ending, PTL

-----------------------------------------------------------------------------
(* No match is forgotten                                                   *)

(* A match in the channel has been dealt with, is in a collector's hands,  *)
(* or waits for collectors none of which has stopped.                      *)
Awaited ==
  \A n \in 1..accepted :
    \/ n \in Settled
    \/ \E c \in Collectors : coll[c] = "file" /\ held[c] = n
    \/ n > taken /\ \A c \in Collectors : coll[c] \in {"recv", "file"}

(* The collectors are started with the scanner. *)
Manned == scan1 # "off" => \A c \in Collectors : coll[c] # "off"

LEMMA NextManned == ASSUME IInv, Manned, [Next]_vars PROVE Manned'
<1> USE DEF Manned, IInv, StageInv, TypeOK, CollType, LineType, scanVars, collVars
<1>1. CASE Main
  BY <1>1 DEF Main, AllocFails, Commit, StartFails, StartSpawns, StartReturns, WaitReturns,
              Conclude, Unwind, ClosePipes, Return
<1>2. CASE Scanner
  BY <1>2 DEF Scanner, ScanLine, ScanOther, ScanKill, ScanCollect, ScanMatch, ScanReport, Line,
              ScanCancel, ScanEnds, ScanFlush, ScanShut, ScanDone
<1>3. ASSUME NEW c \in Collectors, Collector(c) PROVE Manned'
  BY <1>3 DEF Collector, CollReceives, CollFiles, CollFails, CollEnds, CollDone
<1>4. CASE UNCHANGED <<scan1, coll>>
  BY <1>4
<1>5. QED
  BY <1>1, <1>2, <1>3, <1>4
     DEF Next, ChildWrites, ChildExits, CtxCancelled, CtxKills, ErrEnds, ErrDone, WatchEnds,
         WatchDone, WatchCancels, Finished, vars

(* What EveryMatchFiled rests on (collector, collect.go:36): a collector   *)
(* that still has a match to receive has not returned, whether the channel *)
(* is closed or the lobby has long had its reason. Matches are received in *)
(* order, so the n-th is in somebody's hands after n - taken receives.     *)
THEOREM NoMatchIsForgotten == Spec => []Awaited
<1>1. IInv /\ Manned => Awaited
  <2> SUFFICES ASSUME IInv, Manned, NEW n \in 1..accepted
               PROVE  \/ n \in Settled
                      \/ \E c \in Collectors : coll[c] = "file" /\ held[c] = n
                      \/ n > taken /\ \A c \in Collectors : coll[c] \in {"recv", "file"}
    BY DEF Awaited
  <2> USE DEF IInv
  <2>a. accepted \in Nat /\ taken \in Nat /\ taken <= accepted /\ n \in Nat
    BY DEF TypeOK, QueueType
  <2>1. CASE n <= taken
    BY <2>a, <2>1 DEF PipeInv
  <2>2. CASE n > taken
    <3> SUFFICES ASSUME NEW c \in Collectors PROVE coll[c] \in {"recv", "file"}
      BY <2>2
    <3>1. accepted # 0 /\ taken # accepted
      BY <2>a, <2>2
    <3>2. scan1 # "off" /\ opts.logdir
      BY <3>1 DEF CloseInv
    <3>3. coll[c] \notin {"last", "done"}
      BY <3>1, <3>2 DEF CloseInv
    <3>4. coll[c] # "off"
      BY <3>2 DEF Manned
    <3>5. QED BY <3>3, <3>4 DEF TypeOK, CollType
  <2>3. QED BY <2>a, <2>1, <2>2
<1>2. Init => Manned
  BY DEF Init, Manned
<1>3. QED BY <1>1, <1>2, NextManned, Inductive, PTL DEF Spec

-----------------------------------------------------------------------------
(* A reason is heard                                                       *)

(* Until Start has returned nobody has anything to say: no line was        *)
(* written, so no match and no reason was found in one, and nobody's defer *)
(* has run.                                                                *)
StillInv ==
  main \in {"alloc", "start", "spawn"} =>
    /\ reason = "nil" /\ wrote = 0 /\ accepted = 0
    /\ scan1 \in {"off", "scan"} /\ scan2 \in {"off", "scan"} /\ watcher # "last"
    /\ \A c \in Collectors : coll[c] \in {"off", "recv", "done"}

(* Once there is a reason, the run is at its end or the child was told.    *)
Heard == reason # "nil" => Winding \/ signal # "none"

LEMMA NextStill ==
  ASSUME Early = FALSE, IInv, StillInv, [Next]_vars
  PROVE  StillInv'
<1> USE DEF IInv, StageInv, CloseInv, StillInv, AllDone, Started, mainVars, childVars, cancelVars,
            scanVars, matchVars, collVars, vars
<1>1. CASE Main
  <2>1. CASE Commit
    BY <2>1 DEF Commit
  <2>2. CASE StartSpawns
    BY <2>2 DEF StartSpawns
  <2>3. CASE ~(Commit \/ StartSpawns)
    BY <1>1, <2>3 DEF Main, AllocFails, StartFails, StartReturns, WaitReturns, Conclude,
                      Unwind, ClosePipes, Return
  <2>4. QED BY <2>1, <2>2, <2>3
<1>2. CASE ChildWrites \/ ChildExits \/ CtxCancelled \/ CtxKills
  BY <1>2 DEF ChildWrites, ChildExits, CtxCancelled, CtxKills
(* A scanner needs a line, or the end of its pipe.                         *)
<1>3. CASE Scanner
  <2>1. UNCHANGED main
    BY <1>3 DEF Scanner, ScanLine, ScanOther, ScanKill, ScanCollect, ScanMatch, ScanReport,
                ScanCancel, ScanEnds, ScanFlush, ScanShut, ScanDone
  <2>2. main \notin {"alloc", "start", "spawn"}
    <3>1. CASE ScanLine \/ ScanEnds
      <4>1. wrote # 0 \/ WritersGone
        BY <3>1 DEF ScanLine, ScanOther, ScanKill, ScanCollect, ScanMatch, ScanReport, Line,
                    ScanEnds, TypeOK, LineType
      <4>2. QED BY <4>1 DEF WritersGone
    <3>2. CASE ~(ScanLine \/ ScanEnds)
      BY <1>3, <3>2 DEF Scanner, ScanCancel, ScanFlush, ScanShut, ScanDone
    <3>3. QED BY <3>1, <3>2
  <2>3. QED BY <2>1, <2>2
<1>4. CASE ErrEnds \/ ErrDone
  BY <1>4 DEF ErrEnds, ErrDone, WritersGone
<1>5. CASE WatchEnds \/ WatchDone \/ \E r \in WatchReasons : WatchCancels(r)
  BY <1>5 DEF WatchEnds, WatchDone, WatchCancels, DoneInv
<1>6. ASSUME NEW e \in Collectors, Collector(e) PROVE StillInv'
  <2>1. UNCHANGED main
    BY <1>6 DEF Collector, CollReceives, CollFiles, CollFails, CollEnds, CollDone
  <2>2. main \notin {"alloc", "start", "spawn"}
    <3>1. CASE CollReceives(e) \/ CollEnds(e)
      BY <3>1 DEF CollReceives, CollEnds, TypeOK, QueueType
    <3>2. CASE CollFiles(e) \/ CollFails(e) \/ CollDone(e)
      BY <3>2 DEF CollFiles, CollFails, CollDone
    <3>3. QED BY <1>6, <3>1, <3>2 DEF Collector
  <2>3. QED BY <2>1, <2>2
<1>7. CASE UNCHANGED vars
  BY <1>7
<1>8. QED BY <1>1, <1>2, <1>3, <1>4, <1>5, <1>6, <1>7 DEF Next, Finished

(* Cancel finds the process of a child that runs, once Start has returned. *)
LEMMA CancelTells ==
  ASSUME NEW r, Cancel(r), signal \in {"none", "term", "kill"}, UNCHANGED <<main, child>>,
         main = "wait" /\ child = "running", Heard
  PROVE  signal' # "none"
<1>1. CASE reason \in Soft
  BY <1>1 DEF Cancel, Signallable
<1>2. CASE reason \notin Soft
  BY <1>2 DEF Cancel, Soft, Heard, Winding
<1>3. QED BY <1>1, <1>2

LEMMA NextHeard ==
  ASSUME Early = FALSE, IInv, EndInv, StillInv, Heard, [Next]_vars
  PROVE  Heard'
<1>a. StillInv'
  BY NextStill
<1>b. Winding => Winding'
  BY WindingStays
<1> SUFFICES ASSUME ~Winding, ~Winding' PROVE Heard'
  BY <1>b DEF Heard
<1>c. main \in {"alloc", "start", "spawn", "wait"} /\ main' \in {"alloc", "start", "spawn", "wait"}
  <2>1. main # "conclude" /\ main' # "conclude"
    <3>1. StageInv' /\ TypeOK'
      BY NextIInv DEF IInv
    <3>2. QED BY <3>1 DEF Winding, IInv, StageInv, TypeOK, RunType
  <2>2. TypeOK'
    BY NextIInv DEF IInv
  <2>3. QED BY <2>1, <2>2 DEF Winding, IInv, TypeOK, RunType
<1>1. CASE main' # "wait"
  BY <1>a, <1>1, <1>c DEF StillInv, Heard
<1>2. CASE main' = "wait" /\ main # "wait"
  <2>1. StartReturns
    BY <1>2 DEF Next, Main, AllocFails, Commit, StartFails, StartSpawns, WaitReturns, Conclude,
                Unwind, ClosePipes, Return, ChildWrites, ChildExits, CtxCancelled, CtxKills,
                Scanner, ScanLine, ScanOther, ScanKill, ScanCollect, ScanMatch, ScanReport,
                ScanCancel, ScanEnds, ScanFlush, ScanShut, ScanDone, ErrEnds, ErrDone,
                WatchEnds, WatchDone, WatchCancels, Collector, CollReceives, CollFiles,
                CollFails, CollEnds, CollDone, Finished, mainVars, vars
  <2>2. QED BY <2>1 DEF StartReturns, StillInv, Heard, cancelVars
<1>3. CASE main = "wait" /\ main' = "wait"
  <2>a. child = "running" /\ signal \in {"none", "term", "kill"}
    BY <1>3 DEF IInv, StageInv, TypeOK, RunType, Winding
  <2>1. ASSUME UNCHANGED <<reason, signal>> PROVE Heard'
    BY <2>1 DEF Heard
  <2>2. ASSUME NEW r, Cancel(r), UNCHANGED child PROVE Heard'
    BY <1>3, <2>2, <2>a, CancelTells DEF Heard
  <2>3. CASE Main
    BY <1>3, <2>3 DEF Main, AllocFails, Commit, StartFails, StartSpawns, StartReturns,
                      WaitReturns, Conclude, Unwind, ClosePipes, Return
  <2>4. CASE ChildWrites \/ ChildExits \/ CtxCancelled
    BY <2>1, <2>4 DEF ChildWrites, ChildExits, CtxCancelled, childVars, cancelVars, Winding
  <2>5. CASE CtxKills
    BY <2>5 DEF CtxKills, Heard
  <2>6. CASE Scanner
    <3>1. CASE ScanCancel \/ ScanDone
      BY <2>2, <3>1 DEF ScanCancel, ScanDone
    <3>2. CASE ~(ScanCancel \/ ScanDone)
      BY <2>1, <2>6, <3>2
         DEF Scanner, ScanLine, ScanOther, ScanKill, ScanCollect, ScanMatch, ScanReport,
             ScanEnds, ScanFlush, ScanShut, childVars, cancelVars
    <3>3. QED BY <3>1, <3>2
  <2>7. CASE ErrEnds \/ ErrDone
    BY <2>1, <2>2, <2>7 DEF ErrEnds, ErrDone, childVars, cancelVars
  <2>8. CASE WatchEnds \/ WatchDone \/ \E r \in WatchReasons : WatchCancels(r)
    BY <2>1, <2>2, <2>8 DEF WatchEnds, WatchDone, WatchCancels, childVars, cancelVars
  <2>9. ASSUME NEW c \in Collectors, Collector(c) PROVE Heard'
    BY <2>1, <2>2, <2>9
       DEF Collector, CollReceives, CollFiles, CollFails, CollEnds, CollDone, childVars, cancelVars
  <2>10. CASE UNCHANGED vars
    BY <2>1, <2>10 DEF vars, childVars, cancelVars
  <2>11. QED BY <2>3, <2>4, <2>5, <2>6, <2>7, <2>8, <2>9, <2>10 DEF Next, Finished
<1>4. QED BY <1>1, <1>2, <1>3

(* What CancelEnds rests on (Cancel, lobby.go:116): if nobody speaks       *)
(* before Start has returned, a reason ends a run that waits for its child *)
(* by a signal to the child, and no reason is given that the child is not  *)
(* told of. From there RunWindsDown counts the steps to the end.           *)
THEOREM ReasonIsHeard == ASSUME Early = FALSE PROVE Spec => []Heard
<1>1. Init => StillInv /\ Heard
  BY DEF Init, StillInv, Heard
<1>2. IInv /\ EndInv /\ StillInv /\ Heard /\ [Next]_vars => StillInv' /\ Heard'
  BY NextStill, NextHeard
<1>3. QED BY <1>1, <1>2, Ending, PTL DEF Spec

-----------------------------------------------------------------------------
(* Refinement                                                              *)

(* A step of the lobby is, seen from outside, a step of the abstract life  *)
(* of a lobby or no step at all.                                           *)
LEMMA NextIsLife == IInv /\ [Next]_vars => [Life!Next]_(Life!vars)
<1> SUFFICES ASSUME IInv, [Next]_vars PROVE [Life!Next]_(Life!vars)
  OBVIOUS
<1> USE LobbyAssumption DEF Life!vars
<1>1. ASSUME UNCHANGED <<main, reason, result>> PROVE UNCHANGED Life!vars
  BY <1>1 DEF Phase, Verdict
(* Cancel by a goroutine: a first real reason is a Blame.                  *)
<1>2. ASSUME NEW r \in Reasons \cup Soft, UNCHANGED <<main, result>>,
             main \notin {"alloc", "returned"}, Cancel(r)
      PROVE  [Life!Next]_(Life!vars)
  <2>1. CASE reason \in Soft /\ r \notin Soft
    <3>1. Life!Blame(r)
      BY <1>2, <2>1
         DEF Cancel, Life!Blame, Life!Undecided, Phase, Verdict, Soft, IInv, TypeOK, RunType
    <3>2. r \in Reasons
      BY <2>1
    <3>3. QED BY <3>1, <3>2 DEF Life!Next
  <2>2. CASE reason \notin Soft \/ r \in Soft
    BY <1>2, <2>2 DEF Cancel, Phase, Verdict, Soft
  <2>3. QED BY <2>1, <2>2
<1>3. ASSUME NEW r \in Reasons, main \in {"start", "conclude"}, main' = "unwind", Cancel(r),
             result' = Returned(r)
      PROVE  [Life!Next]_(Life!vars)
  <2>1. Life!Settle(r)
    <3>1. Phase = "open" /\ Phase' = "settled"
      BY <1>3 DEF Phase
    <3>2. CASE reason \in Soft
      <4>1. Verdict = "none" /\ Verdict' = r /\ result' = r
        BY <1>3, <3>2 DEF Cancel, Returned, Verdict, Soft, Reasons
      <4>2. QED
        BY <3>1, <4>1 DEF Life!Settle, Life!Outcome, Life!Undecided, Life!Clean, Soft
    <3>3. CASE reason \notin Soft
      <4>1. Verdict = reason /\ Verdict' = reason /\ result' = reason
        BY <1>3, <3>3 DEF Cancel, Returned, Verdict
      <4>2. reason \in Reasons
        BY <3>3 DEF IInv, TypeOK, ReasonType
      <4>3. QED
        BY <3>1, <4>1, <4>2
           DEF Life!Settle, Life!Outcome, Life!Undecided, Life!Clean, Soft, Reasons
    <3>4. QED BY <3>2, <3>3
  <2>2. QED BY <2>1 DEF Life!Next, Life!SettleSome
<1>4. ASSUME Main PROVE [Life!Next]_(Life!vars)
  <2>1. CASE AllocFails
    <3>1. Life!Refuse("start")
      BY <2>1 DEF AllocFails, Life!Refuse, Life!Undecided, Phase, Verdict, Soft, Reasons,
                  IInv, StageInv
    <3>2. QED BY <3>1 DEF Life!Next, Reasons
  <2>2. CASE Commit \/ StartSpawns \/ StartReturns \/ WaitReturns
    BY <2>2 DEF Commit, StartSpawns, StartReturns, WaitReturns, cancelVars, Phase, Verdict
  <2>3. CASE StartFails
    BY <1>3, <2>3 DEF StartFails, Reasons
  <2>4. CASE Conclude
    <3>1. CASE child = "failed"
      BY <1>3, <2>4, <3>1 DEF Conclude, Reasons
    <3>2. CASE child # "failed"
      <4>1. Life!Settle(reason)
        BY <2>4, <3>2
           DEF Conclude, cancelVars, Life!Settle, Life!Outcome, Life!Undecided,
               Life!Clean, Phase, Verdict, Soft, Reasons, IInv, TypeOK, ReasonType
      <4>2. QED
        BY <4>1 DEF Life!Next, Life!SettleSome, Life!Clean, Soft, IInv, TypeOK, ReasonType
    <3>3. QED BY <3>1, <3>2
  <2>5. CASE Unwind
    BY <2>5 DEF Unwind, Cancel, Phase, Verdict, Soft
  <2>6. CASE ClosePipes
    BY <2>6 DEF ClosePipes, cancelVars, Phase, Verdict
  <2>7. CASE Return
    <3>1. Life!End
      BY <2>7 DEF Return, mainVars, cancelVars, Life!End, Phase, Verdict
    <3>2. QED BY <3>1 DEF Life!Next
  <2>8. QED BY <1>4, <2>1, <2>2, <2>3, <2>4, <2>5, <2>6, <2>7 DEF Main
<1>5. ASSUME ChildWrites \/ ChildExits \/ CtxCancelled \/ CtxKills
      PROVE  [Life!Next]_(Life!vars)
  BY <1>1, <1>5
     DEF ChildWrites, ChildExits, CtxCancelled, CtxKills, mainVars, cancelVars
(* The goroutines run only between Commit and Return.                      *)
<1>6. ASSUME Scanner \/ ErrEnds \/ ErrDone PROVE [Life!Next]_(Life!vars)
  <2>1. main \notin {"alloc", "returned"}
    BY <1>6 DEF IInv, StageInv, AllDone, Scanner, ScanLine, ScanOther, ScanKill,
                ScanCollect, ScanMatch, ScanReport, ScanCancel, ScanEnds, ScanFlush,
                ScanShut, ScanDone, ErrEnds, ErrDone, Line
  <2>2. CASE ScanCancel \/ ScanDone \/ ErrDone
    <3>1. owed \in Reasons \cup Soft /\ "done" \in Soft
      BY DEF IInv, TypeOK, ReasonType, Reasons, Soft
    <3>2. QED BY <1>2, <2>1, <2>2, <3>1 DEF ScanCancel, ScanDone, ErrDone, mainVars
  <2>3. CASE ~(ScanCancel \/ ScanDone \/ ErrDone)
    BY <1>1, <1>6, <2>3
       DEF Scanner, ScanLine, ScanOther, ScanKill, ScanCollect, ScanMatch, ScanReport,
           ScanEnds, ScanFlush, ScanShut, ErrEnds, mainVars, cancelVars
  <2>4. QED BY <2>2, <2>3
<1>7. ASSUME WatchEnds \/ WatchDone \/ \E r \in WatchReasons : WatchCancels(r)
      PROVE  [Life!Next]_(Life!vars)
  <2>1. main \notin {"alloc", "returned"}
    BY <1>7 DEF IInv, StageInv, AllDone, WatchEnds, WatchDone, WatchCancels
  <2>2. CASE WatchEnds
    BY <1>1, <2>2 DEF WatchEnds, mainVars, cancelVars
  <2>3. CASE WatchDone
    BY <1>2, <2>1, <2>3 DEF WatchDone, mainVars, Soft
  <2>4. ASSUME NEW r \in WatchReasons, WatchCancels(r) PROVE [Life!Next]_(Life!vars)
    BY <1>2, <2>1, <2>4 DEF WatchCancels, mainVars, Reasons
  <2>5. QED BY <1>7, <2>2, <2>3, <2>4
<1>8. ASSUME NEW c \in Collectors, Collector(c) PROVE [Life!Next]_(Life!vars)
  <2>1. main \notin {"alloc", "returned"}
    BY <1>8 DEF IInv, StageInv, AllDone, Collector, CollReceives, CollFiles, CollFails,
                CollEnds, CollDone
  <2>2. CASE CollFails(c) \/ CollDone(c)
    BY <1>2, <2>1, <2>2 DEF CollFails, CollDone, mainVars, Reasons, Soft
  <2>3. CASE CollReceives(c) \/ CollFiles(c) \/ CollEnds(c)
    BY <1>1, <2>3 DEF CollReceives, CollFiles, CollEnds, mainVars, cancelVars
  <2>4. QED BY <1>8, <2>2, <2>3 DEF Collector
<1>9. CASE UNCHANGED vars
  BY <1>1, <1>9 DEF vars, mainVars, cancelVars
<1>10. QED BY <1>4, <1>5, <1>6, <1>7, <1>8, <1>9 DEF Next, Finished

(* Every run of the lobby is a run of LobbyLife: the first real reason is  *)
(* kept, the result is settled once and is that reason if it came in time  *)
(* (Cancel, lobby.go:104, and runc, lobby.go:257).                         *)
THEOREM ImplementsLife == Spec => Life!Spec
<1>1. Init => Life!Init
  BY DEF Init, Life!Init, Life!Undecided, Phase, Verdict, Soft
<1>2. QED BY <1>1, NextIsLife, Inductive, PTL DEF Spec, Life!Spec
=============================================================================
