-------------------------- MODULE DirWatchProofs --------------------------
(***************************************************************************)
(* Theorems about module DirWatch, for any keys, contents, directories and *)
(* limits of the queue and of the number of changes.                       *)
(***************************************************************************)
EXTENDS DirWatch, FiniteSetTheorems, TLAPS

Events == Names \cup {Overflow}

(* A queue longer than its limit ends in the overflow event, and is longer *)
(* by no more than that.                                                   *)
QueueOK(q) ==
  /\ q \in Seq(Events)
  /\ Len(q) <= QueueCap + 1
  /\ Len(q) > QueueCap => Has(q, Overflow)

LEMMA AppendHas ==
  ASSUME NEW q \in Seq(Events), NEW e \in Events
  PROVE  /\ Append(q, e) \in Seq(Events) /\ Len(Append(q, e)) = Len(q) + 1
         /\ Has(Append(q, e), e)
         /\ \A n : Has(Append(q, e), n) <=> Has(q, n) \/ n = e
<1>1. Append(q, e) \in Seq(Events) /\ Len(Append(q, e)) = Len(q) + 1
  OBVIOUS
<1>2. Len(q) + 1 \in DOMAIN Append(q, e) /\ Append(q, e)[Len(q) + 1] = e
  OBVIOUS
<1>3. ASSUME NEW n, Has(q, n) PROVE Has(Append(q, e), n)
  <2>1. PICK i \in DOMAIN q : q[i] = n
    BY <1>3 DEF Has
  <2>2. i \in DOMAIN Append(q, e) /\ Append(q, e)[i] = n
    BY <2>1
  <2>3. QED BY <2>2 DEF Has
<1>4. ASSUME NEW n, Has(Append(q, e), n), n # e PROVE Has(q, n)
  <2>1. PICK i \in 1..(Len(q) + 1) : Append(q, e)[i] = n
    BY <1>1, <1>4 DEF Has
  <2>2. i \in 1..Len(q) /\ q[i] = n
    BY <1>4, <2>1
  <2>3. QED BY <2>2 DEF Has
<1>5. Has(Append(q, e), e)
  BY <1>2 DEF Has
<1>6. QED BY <1>1, <1>3, <1>4, <1>5

(* An event is queued unless the queue is full; none is taken out.         *)
LEMMA PutFacts ==
  ASSUME NEW q, QueueOK(q), NEW e \in Names
  PROVE  /\ QueueOK(Put(q, e))
         /\ \A n : Has(q, n) => Has(Put(q, e), n)
         /\ \A n : Has(Put(q, e), n) => Has(q, n) \/ n \in {e, Overflow}
         /\ ~Full(q) => Has(Put(q, e), e)
<1>1. q \in Seq(Events) /\ e \in Events /\ Overflow \in Events /\ Len(q) \in Nat
  BY DEF QueueOK, Events
<1>2. CASE ~Full(q)
  <2>1. Put(q, e) = Append(q, e)
    BY <1>2 DEF Put
  <2>2. Len(q) + 1 <= QueueCap
    BY <1>1, <1>2, DirAssumption DEF Full
  <2>3. QED BY <1>1, <2>1, <2>2, AppendHas, DirAssumption DEF QueueOK
<1>3. CASE Full(q) /\ Has(q, Overflow)
  BY <1>3 DEF Put
<1>4. CASE Full(q) /\ ~Has(q, Overflow)
  <2>1. Put(q, e) = Append(q, Overflow)
    BY <1>4 DEF Put
  <2>2. Len(q) <= QueueCap
    BY <1>1, <1>4, DirAssumption DEF QueueOK
  <2>3. QED BY <1>1, <1>4, <2>1, <2>2, AppendHas, DirAssumption DEF QueueOK
<1>5. QED BY <1>2, <1>3, <1>4

(* Taking the head leaves every other event in the queue.                  *)
LEMMA TailFacts ==
  ASSUME NEW q, QueueOK(q), q # <<>>
  PROVE  /\ QueueOK(Tail(q)) /\ Head(q) \in Events
         /\ \A n : Has(q, n) <=> n = Head(q) \/ Has(Tail(q), n)
<1>1. q \in Seq(Events) /\ Len(q) \in Nat /\ Len(q) > 0 /\ Len(q) <= QueueCap + 1
  BY DEF QueueOK
<1>2. Tail(q) \in Seq(Events) /\ Len(Tail(q)) = Len(q) - 1 /\ Head(q) \in Events
  BY <1>1
<1>3. Len(Tail(q)) <= QueueCap
  BY <1>1, <1>2, DirAssumption
<1>4. ASSUME NEW n, Has(q, n), n # Head(q) PROVE Has(Tail(q), n)
  <2>1. PICK i \in 1..Len(q) : q[i] = n
    BY <1>1, <1>4 DEF Has
  <2>2. i # 1
    BY <1>1, <1>4, <2>1
  <2>3. i - 1 \in 1..Len(Tail(q)) /\ Tail(q)[i - 1] = n
    BY <1>1, <1>2, <2>1, <2>2
  <2>4. DOMAIN Tail(q) = 1..Len(Tail(q))
    BY <1>2
  <2>5. \E j \in DOMAIN Tail(q) : Tail(q)[j] = n
    BY <2>3, <2>4, Zenon
  <2>6. QED BY <2>5, Zenon DEF Has
<1>5. Has(q, Head(q))
  BY <1>1 DEF Has
<1>6. ASSUME NEW n, Has(Tail(q), n) PROVE Has(q, n)
  <2>1. PICK i \in 1..Len(Tail(q)) : Tail(q)[i] = n
    BY <1>2, <1>6 DEF Has
  <2>2. i + 1 \in 1..Len(q) /\ q[i + 1] = n
    BY <1>1, <1>2, <2>1
  <2>3. DOMAIN q = 1..Len(q)
    BY <1>1
  <2>4. \E j \in DOMAIN q : q[j] = n
    BY <2>2, <2>3, Zenon
  <2>5. QED BY <2>4, Zenon DEF Has
<1>7. QueueOK(Tail(q))
  BY <1>2, <1>3, DirAssumption DEF QueueOK
<1>8. QED BY <1>2, <1>4, <1>5, <1>6, <1>7

-----------------------------------------------------------------------------
(* What holds besides the properties: the walk is over when the files are  *)
(* read, nothing was assigned before that, and only while a batch is       *)
(* applied is there a key to be read, and nothing else collected.          *)
Order ==
  /\ pc \in {"walk", "failed"} => value = [k \in Keys |-> Default]
  /\ pc \notin {"walk", "failed"} => \A d \in Dirs : walk[d] = "listed"
  /\ at # NoKey \/ todo # {} => Applying
  /\ pc \notin {"walk", "select"} => batch = {}

IInv == TypeOK /\ QueueOK(queue) /\ Order /\ Current /\ BatchTimed /\ ClosedClean

LEMMA InitIInv == Init => IInv
<1> SUFFICES ASSUME Init PROVE IInv
  OBVIOUS
<1>1. value \in [Keys -> Values] /\ got \in Values
  BY DEF Init, Values
<1>2. queue \in Seq(Events) /\ Len(queue) = 0
  BY DEF Init
<1>3. QueueOK(queue)
  BY <1>2, DirAssumption DEF QueueOK
<1>4. TypeOK
  <2>1. walk \in [Dirs -> {"no", "added", "listed"}]
    BY DEF Init
  <2>2. changes \in 0..MaxChanges
    BY DirAssumption DEF Init
  <2>3. queue \in Seq(Names \cup {Overflow}) /\ Len(queue) <= QueueCap + 1
    BY <1>3 DEF QueueOK, Events
  <2>4. QED BY <1>1, <2>1, <2>2, <2>3 DEF Init, TypeOK
<1>5. Order /\ BatchTimed /\ ClosedClean
  BY DEF Init, Order, BatchTimed, ClosedClean
<1>6. Current
  <2>1. \A k \in Keys : Pending(k)
    BY DirAssumption DEF Init, Pending
  <2>2. QED BY <2>1 DEF Current
<1>7. QED BY <1>3, <1>4, <1>5, <1>6 DEF IInv

(* Types.                                                                  *)
LEMMA MeaningsType ==
  ASSUME NEW c \in Contents, NEW v \in Values
  PROVE  Meanings(c, v) \subseteq Values
BY DEF Meanings, Contents, Values

LEMMA ReadFromType == \A names : ReadFrom(names) \subseteq Keys
BY DEF ReadFrom

(* Whatever a change reports, the queue keeps its form and its events, and *)
(* the key is in it unless the queue was full.                             *)
LEMMA ReportedFacts ==
  ASSUME IInv, NEW k \in Keys, NEW f \in Forms, NEW g \in Forms \cup {Nothing}
  PROVE  /\ QueueOK(Reported(k, f, g))
         /\ \A n : Has(queue, n) => Has(Reported(k, f, g), n)
         /\ \A n : Has(Reported(k, f, g), n) => Has(queue, n) \/ n \in {<<k, f>>, <<k, g>>, Overflow}
         /\ ~Full(queue) => Has(Reported(k, f, g), <<k, f>>)
<1> DEFINE q == Put(queue, <<k, f>>)
<1>1. <<k, f>> \in Names
  BY DEF Names
<1>2. /\ QueueOK(q)
      /\ \A n : Has(queue, n) => Has(q, n)
      /\ \A n : Has(q, n) => Has(queue, n) \/ n \in {<<k, f>>, Overflow}
      /\ ~Full(queue) => Has(q, <<k, f>>)
  BY <1>1, PutFacts DEF IInv
<1>3. CASE g = Nothing
  BY <1>2, <1>3 DEF Reported
<1>4. CASE g # Nothing
  <2>1. <<k, g>> \in Names
    BY <1>4 DEF Names
  <2>2. Reported(k, f, g) = Put(q, <<k, g>>)
    BY <1>4 DEF Reported
  <2>3. /\ QueueOK(Put(q, <<k, g>>))
        /\ \A n : Has(q, n) => Has(Put(q, <<k, g>>), n)
        /\ \A n : Has(Put(q, <<k, g>>), n) => Has(q, n) \/ n \in {<<k, g>>, Overflow}
    BY <1>2, <2>1, PutFacts
  <2>4. QED BY <1>2, <2>2, <2>3
<1>5. QED BY <1>3, <1>4

(* The three ways of changing a file are Change.                           *)
FileChanges == \E k \in Keys, c \in Contents, f \in Forms, g \in Forms \cup {Nothing} :
  Change(k, c, f, g) /\ f \in {"plain", "lock"}

LEMMA Changing ==
  /\ (\E k \in Keys, c \in Contents : Edit(k, c) \/ Publish(k, c)) => FileChanges
  /\ (\E k \in Keys : Retire(k)) => FileChanges
BY DEF Edit, Publish, Retire, FileChanges, Forms, Contents

LEMMA NextTypes == IInv /\ [Next]_vars => TypeOK' /\ QueueOK(queue)'
<1> SUFFICES ASSUME IInv, [Next]_vars PROVE TypeOK' /\ QueueOK(queue)'
  OBVIOUS
<1>0. TypeOK /\ QueueOK(queue) /\ Names \cup {Overflow} = Events
  BY DEF IInv, Events
<1> HIDE DEF IInv, QueueOK
<1>q. \A q : QueueOK(q) => q \in Seq(Events) /\ Len(q) <= QueueCap + 1
  BY DEF QueueOK
<1>e. QueueOK(<<>>)
  BY DirAssumption DEF QueueOK
<1>r. \A names : ReadFrom(names) \subseteq Keys
  BY ReadFromType
<1>1. ASSUME NEW k \in Keys, NEW c \in Contents, NEW f \in Forms, NEW g \in Forms \cup {Nothing},
             Change(k, c, f, g)
      PROVE  TypeOK' /\ QueueOK(queue)'
  <2>1. QueueOK(queue')
    BY <1>0, <1>1, ReportedFacts DEF Change
  <2>2. changes' \in 0..MaxChanges
    BY <1>0, <1>1, DirAssumption DEF Change, TypeOK
  <2>3. file' \in [Keys -> Contents] /\ missed' \subseteq Keys
    BY <1>0, <1>1 DEF Change, TypeOK
  <2>4. QED BY <1>0, <1>1, <1>q, <2>1, <2>2, <2>3 DEF Change, TypeOK
<1>2. CASE Tick
  BY <1>0, <1>2 DEF Tick, TypeOK
<1>3. ASSUME NEW s \in {"cancelled", "closed"}, Stop(s) PROVE TypeOK' /\ QueueOK(queue)'
  BY <1>0, <1>3 DEF Stop, TypeOK, wvars
<1>4. ASSUME NEW d \in Dirs, AddDir(d) PROVE TypeOK' /\ QueueOK(queue)'
  BY <1>0, <1>4 DEF AddDir, TypeOK
<1>5. ASSUME NEW d \in Dirs, NEW S \in SUBSET {k \in Keys : DirOf[k] = d}, ListDir(d, S)
      PROVE  TypeOK' /\ QueueOK(queue)'
  <2>1. batch' \subseteq Names
    BY <1>0, <1>5 DEF ListDir, TypeOK, Names, Forms
  <2>2. walk' \in [Dirs -> {"no", "added", "listed"}]
    BY <1>0, <1>5 DEF ListDir, TypeOK
  <2>3. QED BY <1>0, <1>5, <2>1, <2>2 DEF ListDir, TypeOK
<1>6. CASE WalkFails
  BY <1>0, <1>6, <1>q, <1>e DEF WalkFails, TypeOK
<1>7. CASE WalkDone
  BY <1>0, <1>7, <1>r DEF WalkDone, TypeOK
<1>8. CASE Receive
  <2>1. QueueOK(queue') /\ Head(queue) \in Events
    BY <1>0, <1>8, TailFacts DEF Receive
  <2>2. batch' \subseteq Names
    BY <1>0, <1>8, <2>1 DEF Receive, TypeOK, Events
  <2>3. QED BY <1>0, <1>8, <1>q, <2>1, <2>2 DEF Receive, TypeOK
<1>9. CASE ReceiveError
  <2>1. QueueOK(queue')
    BY <1>0, <1>9, TailFacts DEF ReceiveError
  <2>2. QED BY <1>0, <1>9, <1>q, <1>r, <2>1 DEF ReceiveError, Wrap, TypeOK
<1>10. CASE TakeTick
  BY <1>0, <1>10, <1>r DEF TakeTick, Wrap, TypeOK
<1>11. CASE StopSeen
  BY <1>0, <1>11, <1>r DEF StopSeen, Wrap, TypeOK
<1>12. ASSUME NEW k \in Keys, Read(k) PROVE TypeOK' /\ QueueOK(queue)'
  <2>1. file[k] \in Contents /\ value[k] \in Values
    BY <1>0 DEF TypeOK
  <2>2. got' \in Values
    BY <1>12, <2>1, MeaningsType DEF Read
  <2>3. QED BY <1>0, <1>12, <2>2 DEF Read, TypeOK
<1>13. CASE Update
  <2>1. Default \in Values
    BY DEF Values
  <2>2. value' \in [Keys -> Values]
    BY <1>0, <1>13 DEF Update, TypeOK
  <2>3. QED BY <1>0, <1>13, <2>1, <2>2 DEF Update, TypeOK
<1>14. CASE Applied
  BY <1>0, <1>14 DEF Applied, TypeOK
<1>15. CASE Reset
  <2>1. value' \in [Keys -> Values]
    BY <1>15 DEF Reset, Values
  <2>2. QED BY <1>0, <1>15, <1>q, <1>e, <2>1 DEF Reset, TypeOK
<1>16. CASE UNCHANGED vars
  BY <1>0, <1>16 DEF vars, wvars, TypeOK
<1>17. CASE FileChanges
  BY <1>1, <1>17 DEF FileChanges
<1>18. CASE Walk
  BY <1>4, <1>5, <1>18 DEF Walk
<1>19. QED
  BY <1>2, <1>3, <1>6, <1>7, <1>8, <1>9, <1>10, <1>11, <1>12, <1>13, <1>14,
     <1>15, <1>16, <1>17, <1>18, Changing DEF Next, Select, ReadAny, Ended

LEMMA NextOrder == IInv /\ [Next]_vars => Order' /\ BatchTimed' /\ ClosedClean'
<1> SUFFICES ASSUME IInv, [Next]_vars PROVE Order' /\ BatchTimed' /\ ClosedClean'
  OBVIOUS
<1>0. TypeOK /\ Order /\ BatchTimed /\ ClosedClean
  BY DEF IInv
<1> HIDE DEF IInv
<1> USE DEF Order, BatchTimed, ClosedClean, Applying
<1>1. CASE FileChanges
  BY <1>0, <1>1 DEF FileChanges, Change
<1>2. CASE Tick
  BY <1>0, <1>2 DEF Tick
<1>3. ASSUME NEW s \in {"cancelled", "closed"}, Stop(s) PROVE Order' /\ BatchTimed' /\ ClosedClean'
  BY <1>0, <1>3 DEF Stop, wvars
<1>4. CASE Walk
  BY <1>0, <1>4 DEF Walk, AddDir, ListDir
<1>5. CASE WalkFails
  BY <1>0, <1>5 DEF WalkFails
<1>6. CASE WalkDone
  BY <1>0, <1>6 DEF WalkDone
<1>7. CASE Select
  BY <1>0, <1>7 DEF Select, Receive, ReceiveError, TakeTick, StopSeen, Wrap, TypeOK
<1>8. CASE ReadAny
  BY <1>0, <1>8 DEF ReadAny, Read
<1>9. CASE Update
  BY <1>0, <1>9 DEF Update
<1>10. CASE Applied
  BY <1>0, <1>10 DEF Applied
<1>11. CASE Reset
  BY <1>0, <1>11 DEF Reset
<1>12. CASE UNCHANGED vars
  BY <1>0, <1>12 DEF vars, wvars
<1>13. QED
  BY <1>1, <1>2, <1>3, <1>4, <1>5, <1>6, <1>7, <1>8, <1>9, <1>10, <1>11, <1>12, Changing
  DEF Next, Ended

-----------------------------------------------------------------------------
(* Names of a key.                                                         *)
LEMMA NamesOfFacts ==
  /\ \A k \in Keys : NamesOf(k) \subseteq Names /\ Overflow \notin NamesOf(k)
  /\ \A k, j \in Keys : \A f : <<k, f>> \in NamesOf(j) => j = k
  /\ \A k \in Keys : <<k, "plain">> \in NamesOf(k) /\ <<k, "lock">> \in NamesOf(k)
  /\ \A k \in Keys : <<k, Nothing>> \notin NamesOf(k)
BY DirAssumption DEF NamesOf, Names, Forms, Nothing

(* A step that neither changes a file nor reads one: what is pending stays *)
(* pending, at most in another place.                                      *)
Quiet ==
  /\ UNCHANGED <<file, Seen, missed>>
  /\ Watching' => Watching
  /\ \A k \in Keys : Pending(k)' <=> Pending(k)

QuietStep ==
  \/ Tick \/ \E s \in {"cancelled", "closed"} : Stop(s)
  \/ \E d \in Dirs : AddDir(d)
  \/ WalkDone \/ Select \/ Update \/ Applied \/ UNCHANGED vars

LEMMA QuietSteps == IInv /\ QuietStep => Quiet
<1> SUFFICES ASSUME IInv, QuietStep PROVE Quiet
  OBVIOUS
<1>0. TypeOK /\ Order /\ QueueOK(queue)
  BY DEF IInv
<1> HIDE DEF IInv
<1>n. \A k \in Keys : Overflow \notin NamesOf(k)
  BY NamesOfFacts
<1>w. ASSUME todo' = todo \cup ReadFrom(batch), batch' = {}, UNCHANGED walk,
             \A n \in Names : Has(queue', n) <=> Has(queue, n)
      PROVE  \A k \in Keys : Pending(k)' <=> Pending(k)
  <2> SUFFICES ASSUME NEW k \in Keys PROVE Pending(k)' <=> Pending(k)
    OBVIOUS
  <2>1. k \in ReadFrom(batch) <=> \E n \in NamesOf(k) : n \in batch
    BY DEF ReadFrom
  <2>2. \A n \in NamesOf(k) : Has(queue', n) <=> Has(queue, n)
    BY <1>w, NamesOfFacts
  <2>3. QED BY <1>w, <2>1, <2>2 DEF Pending
<1>1. CASE Tick
  BY <1>1 DEF Tick, Quiet, Seen, Watching, Pending
<1>2. ASSUME NEW s \in {"cancelled", "closed"}, Stop(s) PROVE Quiet
  BY <1>2 DEF Stop, Quiet, Seen, Watching, Pending, wvars
<1>3. ASSUME NEW d \in Dirs, AddDir(d) PROVE Quiet
  <2>1. \A k \in Keys : walk'[DirOf[k]] # "listed" <=> walk[DirOf[k]] # "listed"
    BY <1>0, <1>3, DirAssumption DEF AddDir, TypeOK
  <2>2. QED BY <1>3, <2>1 DEF AddDir, Quiet, Seen, Watching, Pending
<1>4. CASE WalkDone
  <2>1. todo = {}
    BY <1>0, <1>4 DEF WalkDone, Order, Applying
  <2>2. QED BY <1>4, <1>w, <2>1 DEF WalkDone, Quiet, Seen, Watching
<1>5. CASE Receive
  <2>1. \A n : Has(queue, n) <=> n = Head(queue) \/ Has(queue', n)
    BY <1>0, <1>5, TailFacts DEF Receive
  <2>2. \A k \in Keys : Pending(k)' <=> Pending(k)
    BY <1>5, <2>1 DEF Receive, Pending
  <2>3. QED BY <1>5, <2>2 DEF Receive, Quiet, Seen, Watching
<1>6. CASE ReceiveError
  <2>1. \A n \in Names : Has(queue', n) <=> Has(queue, n)
    BY <1>0, <1>6, TailFacts, DirAssumption DEF ReceiveError
  <2>2. todo = {}
    BY <1>0, <1>6 DEF ReceiveError, Order, Applying
  <2>3. QED BY <1>6, <1>w, <2>1, <2>2 DEF ReceiveError, Wrap, Quiet, Seen, Watching
<1>7. CASE TakeTick \/ StopSeen
  <2>1. todo = {}
    BY <1>0, <1>7 DEF TakeTick, StopSeen, Order, Applying
  <2>2. QED BY <1>7, <1>w, <2>1 DEF TakeTick, StopSeen, Wrap, Quiet, Seen, Watching
<1>8. CASE Update
  <2>1. Seen' = Seen
    BY <1>0, <1>8 DEF Update, Seen
  <2>2. QED BY <1>8, <2>1 DEF Update, Quiet, Watching, Pending
<1>9. CASE Applied
  BY <1>9 DEF Applied, Applying, Quiet, Seen, Watching, Pending
<1>10. CASE UNCHANGED vars
  BY <1>10 DEF vars, wvars, Quiet, Seen, Watching, Pending
<1>11. QED
  BY <1>1, <1>2, <1>3, <1>4, <1>5, <1>6, <1>7, <1>8, <1>9, <1>10 DEF QuietStep, Select

LEMMA QuietCurrent == Current /\ Quiet => Current'
BY DEF Current, Quiet

(* A change leaves its key pending, or missed; other keys are as before.   *)
ChangeOf(k, c) ==
  /\ file' = [file EXCEPT ![k] = c]
  /\ Seen' = Seen /\ Phase' = Phase /\ (Watching' <=> Watching)
  /\ \A j \in Keys \ {k} : (Pending(j)' <=> Pending(j)) /\ (j \in missed' <=> j \in missed)
  /\ Pending(k) \/ k \in missed => Pending(k)' \/ k \in missed'
  /\ Watching => Pending(k)' \/ k \in missed'

LEMMA ChangeFacts ==
  ASSUME IInv, NEW k \in Keys, NEW c \in Contents, NEW f \in {"plain", "lock"},
         NEW g \in Forms \cup {Nothing}, Change(k, c, f, g)
  PROVE  ChangeOf(k, c)
<1>0. TypeOK
  BY DEF IInv
<1> HIDE DEF IInv
<1> USE NamesOfFacts DEF Change
<1>1. UNCHANGED <<walk, batch, todo, at, got, value, pc, stop>>
  OBVIOUS
<1>2. /\ \A n : Has(queue, n) => Has(queue', n)
      /\ \A n : Has(queue', n) => Has(queue, n) \/ n \in {<<k, f>>, <<k, g>>, Overflow}
      /\ Watched(k) /\ ~Full(queue) => Has(queue', <<k, f>>)
  <2>1. f \in Forms
    BY DEF Forms
  <2>2. /\ \A n : Has(queue, n) => Has(Reported(k, f, g), n)
        /\ \A n : Has(Reported(k, f, g), n) => Has(queue, n) \/ n \in {<<k, f>>, <<k, g>>, Overflow}
        /\ ~Full(queue) => Has(Reported(k, f, g), <<k, f>>)
    BY <2>1, ReportedFacts
  <2>3. queue' = IF Watched(k) THEN Reported(k, f, g) ELSE queue
    OBVIOUS
  <2>4. QED BY <2>2, <2>3
<1>3. ASSUME NEW j \in Keys \ {k} PROVE (Pending(j)' <=> Pending(j)) /\ (j \in missed' <=> j \in missed)
  <2>1. \A n \in NamesOf(j) : Has(queue', n) <=> Has(queue, n)
    BY <1>2, <1>3
  <2>2. QED BY <1>1, <2>1 DEF Pending
<1>4. Pending(k) => Pending(k)'
  BY <1>1, <1>2 DEF Pending
<1>5. missed \subseteq missed'
  OBVIOUS
<1>6. Watching => Pending(k)' \/ k \in missed'
  <2>1. CASE Watching /\ ~Watched(k)
    BY <1>1, <2>1 DEF Watched, Pending
  <2>2. CASE Watched(k) /\ Full(queue)
    BY <2>2
  <2>3. CASE Watched(k) /\ ~Full(queue)
    <3>1. <<k, f>> \in NamesOf(k)
      OBVIOUS
    <3>2. QED BY <1>2, <2>3, <3>1 DEF Pending
  <2>4. QED BY <2>1, <2>2, <2>3 DEF Watched
<1>7. Seen' = Seen /\ Phase' = Phase /\ (Watching' <=> Watching)
  BY <1>1 DEF Seen, Phase, Watching
<1>8. QED BY <1>3, <1>4, <1>5, <1>6, <1>7 DEF ChangeOf

LEMMA ChangeCurrent ==
  ASSUME IInv, NEW k \in Keys, NEW c \in Contents, ChangeOf(k, c) PROVE Current'
<1>1. Current /\ file \in [Keys -> Contents]
  BY DEF IInv, TypeOK
<1>2. QED BY <1>1 DEF ChangeOf, Current

(* Listing a directory: files with contents are pending, a blank one needs *)
(* no reading because nothing was read before.                             *)
ListOf ==
  /\ UNCHANGED <<file, Seen, missed, Phase>>
  /\ Watching' => Watching
  /\ \A k \in Keys : Pending(k)' => Pending(k)
  /\ \A k \in Keys : Pending(k) /\ ~Pending(k)' => Seen[k] \in Meanings(file[k], Seen[k])

LEMMA ListFacts ==
  ASSUME IInv, NEW d \in Dirs, NEW S \in SUBSET {k \in Keys : DirOf[k] = d}, ListDir(d, S)
  PROVE  ListOf
<1>0. TypeOK /\ Order
  BY DEF IInv
<1> HIDE DEF IInv
<1>1. at = NoKey /\ value = [k \in Keys |-> Default] /\ pc = "walk" /\ walk[d] = "added"
  BY <1>0 DEF ListDir, Order, Applying
<1>2. UNCHANGED <<file, Seen, missed, Phase, queue, todo>> /\ (Watching' => Watching)
  BY DEF ListDir, Seen, Phase, Watching
<1>3. ASSUME NEW k \in Keys, DirOf[k] # d PROVE Pending(k)' <=> Pending(k)
  <2>1. walk'[DirOf[k]] = walk[DirOf[k]]
    BY <1>0, <1>3, DirAssumption DEF ListDir, TypeOK
  <2>2. \A n \in NamesOf(k) : n \in batch' <=> n \in batch
    <3>1. \A n \in NamesOf(k) : n \notin {<<j, "plain">> : j \in S}
      BY <1>3, NamesOfFacts
    <3>2. QED BY <3>1 DEF ListDir
  <2>3. QED BY <1>2, <2>1, <2>2 DEF Pending
<1>4. ASSUME NEW k \in Keys, DirOf[k] = d
      PROVE  Pending(k) /\ (~Pending(k)' => Seen[k] \in Meanings(file[k], Seen[k]))
  <2>1. Pending(k)
    BY <1>1, <1>4 DEF Pending
  <2>2. CASE file[k] # Blank
    <3>1. <<k, "plain">> \in batch' /\ <<k, "plain">> \in NamesOf(k)
      BY <1>4, <2>2, NamesOfFacts DEF ListDir
    <3>2. Pending(k)'
      BY <3>1 DEF Pending
    <3>3. QED BY <2>1, <3>2
  <2>3. CASE file[k] = Blank
    BY <1>1, <2>1, <2>3 DEF Seen, Meanings
  <2>4. QED BY <2>2, <2>3
<1>5. QED BY <1>2, <1>3, <1>4 DEF ListOf

LEMMA ListCurrent == IInv /\ ListOf => Current'
BY DEF IInv, Current, ListOf

(* Reading a key makes it right, and changes nothing of the others.        *)
ReadOf(k) ==
  /\ UNCHANGED <<file, Phase>> /\ Phase # "off"
  /\ Watching' => Watching
  /\ \E v \in Meanings(file[k], Seen[k]) : Seen' = [Seen EXCEPT ![k] = v]
  /\ \A j \in Keys \ {k} : (Pending(j)' <=> Pending(j)) /\ (j \in missed' <=> j \in missed)
  /\ Pending(k)' \/ k \in missed' => Pending(k) \/ k \in missed
  /\ \A v \in {Seen'[k]} : v \in Meanings(file[k], v)

LEMMA ReadFacts == ASSUME IInv, NEW k \in Keys, Read(k) PROVE ReadOf(k)
<1>0. TypeOK /\ at = NoKey
  BY DEF IInv, Read
<1> HIDE DEF IInv
<1>1. UNCHANGED <<file, Phase>> /\ Phase # "off" /\ (Watching' => Watching)
  BY DEF Read, Applying, Phase, Watching
<1>2. Seen = value /\ Seen' = [value EXCEPT ![k] = got'] /\ got' \in Meanings(file[k], value[k])
  BY <1>0, DirAssumption DEF Read, Seen
<1>3. \A j \in Keys \ {k} : (Pending(j)' <=> Pending(j)) /\ (j \in missed' <=> j \in missed)
  BY DEF Read, Pending
<1>4. Pending(k)' \/ k \in missed' => Pending(k) \/ k \in missed
  BY DEF Read, Pending
<1>5. Seen'[k] = got'
  BY <1>0, <1>2 DEF TypeOK
<1>6. got' \in Meanings(file[k], got')
  BY <1>2 DEF Meanings
<1>7. QED BY <1>1, <1>2, <1>3, <1>4, <1>5, <1>6 DEF ReadOf

LEMMA ReadCurrent == ASSUME IInv, NEW k \in Keys, ReadOf(k) PROVE Current'
<1>1. Current /\ TypeOK
  BY DEF IInv
<1>2. Seen \in [Keys -> Values]
  BY <1>1 DEF TypeOK, Seen
<1>3. \A j \in Keys \ {k} : Seen'[j] = Seen[j]
  BY <1>2 DEF ReadOf
<1>4. QED BY <1>1, <1>3 DEF Current, ReadOf

LEMMA NextCurrent == IInv /\ [Next]_vars => Current'
<1> SUFFICES ASSUME IInv, [Next]_vars PROVE Current'
  OBVIOUS
<1>1. CASE FileChanges
  BY <1>1, ChangeFacts, ChangeCurrent DEF FileChanges
<1>2. CASE QuietStep
  BY <1>2, QuietSteps, QuietCurrent DEF IInv
<1>3. ASSUME NEW d \in Dirs, NEW S \in SUBSET {k \in Keys : DirOf[k] = d}, ListDir(d, S)
      PROVE  Current'
  BY <1>3, ListFacts, ListCurrent
<1>4. CASE ReadAny
  BY <1>4, ReadFacts, ReadCurrent DEF ReadAny
<1>5. CASE WalkFails \/ Reset
  BY <1>5 DEF WalkFails, Reset, Current, Watching
<1>6. QED
  BY <1>1, <1>2, <1>3, <1>4, <1>5, Changing DEF Next, Walk, QuietStep, Ended

LEMMA NextIInv == IInv /\ [Next]_vars => IInv'
BY NextTypes, NextOrder, NextCurrent DEF IInv

LEMMA Inductive == Spec => []IInv
BY InitIInv, NextIInv, PTL DEF Spec

(* Every variable keeps its type; in particular the kernel's queue is no   *)
(* longer than its limit and one overflow event (watch.go:174-212).        *)
THEOREM TypeCorrect == Spec => []TypeOK
<1>1. IInv => TypeOK
  BY DEF IInv
<1>2. QED BY <1>1, Inductive, PTL

(* No change of a watched file is overlooked, whatever the order of walk,  *)
(* events, ticks and changes, unless the kernel lost every event of it     *)
(* (watch.go:95-212, spec.go:205-213).                                     *)
THEOREM NothingOverlooked == Spec => []Current
<1>1. IInv => Current
  BY DEF IInv
<1>2. QED BY <1>1, Inductive, PTL

(* The ticker runs whenever names wait to be applied (watch.go:206-208).   *)
THEOREM NothingForgotten == Spec => []BatchTimed
<1>1. IInv => BatchTimed
  BY DEF IInv
<1>2. QED BY <1>1, Inductive, PTL

(* After the watch nothing of it is left in the values, and nothing comes  *)
(* after the reset (watch.go:166-169).                                     *)
THEOREM NothingLeft == Spec => []ClosedClean
<1>1. IInv => ClosedClean
  BY DEF IInv
<1>2. QED BY <1>1, Inductive, PTL

-----------------------------------------------------------------------------
(* The end of a batch.                                                     *)

(* A batch once begun is not added to, whatever changes and whatever is    *)
(* reported meanwhile: each of its keys is read and assigned, and then the *)
(* goroutine looks at its channels again or, after the last batch, resets  *)
(* the values and ends.                                                    *)
Worker == ReadAny \/ Update \/ Applied \/ Reset

Stage == [walk |-> 0, failed |-> 0, first |-> 1, apply |-> 1, select |-> 0, drain |-> 2,
          reset |-> 1, closed |-> 0]
BatchLeft == 2 * Cardinality(todo) + (IF at = NoKey THEN 0 ELSE 1) + Stage[pc]

BatchGoesOn ==
  [][Applying \/ pc = "reset" =>
       IF Worker THEN BatchLeft' < BatchLeft ELSE BatchLeft' = BatchLeft]_vars

LEMMA Stages ==
  /\ Stage["walk"] = 0 /\ Stage["failed"] = 0 /\ Stage["first"] = 1 /\ Stage["apply"] = 1
  /\ Stage["select"] = 0 /\ Stage["drain"] = 2 /\ Stage["reset"] = 1 /\ Stage["closed"] = 0
BY DEF Stage

LEMMA BatchIsFinite ==
  ASSUME IsFiniteSet(Keys), TypeOK
  PROVE  IsFiniteSet(todo) /\ Cardinality(todo) \in Nat /\ BatchLeft \in Nat
<1>1. IsFiniteSet(todo) /\ Cardinality(todo) \in Nat
  BY FS_Subset, FS_CardinalityType DEF TypeOK
<1>2. QED BY <1>1, Stages DEF BatchLeft, TypeOK

LEMMA WorkerGoesOn ==
  ASSUME IsFiniteSet(Keys), IInv, Applying \/ pc = "reset", Worker PROVE BatchLeft' < BatchLeft
<1>0. TypeOK /\ Order
  BY DEF IInv
<1>1. IsFiniteSet(todo) /\ Cardinality(todo) \in Nat
  BY <1>0, BatchIsFinite
<1>2. ASSUME NEW k \in Keys, Read(k) PROVE BatchLeft' < BatchLeft
  <2>1. k \in todo /\ todo' = todo \ {k} /\ at = NoKey /\ at' = k /\ k # NoKey /\ pc' = pc
    BY <1>2, DirAssumption DEF Read
  <2>2. Cardinality(todo') = Cardinality(todo) - 1
    BY <1>1, <2>1, FS_RemoveElement
  <2>3. BatchLeft' = 2 * (Cardinality(todo) - 1) + 1 + Stage[pc]
    BY <2>1, <2>2 DEF BatchLeft
  <2>4. BatchLeft = 2 * Cardinality(todo) + Stage[pc] /\ Stage[pc] \in Nat
    BY <1>0, <1>1, <2>1, Stages DEF BatchLeft, TypeOK
  <2>5. QED BY <1>1, <2>3, <2>4
<1>3. CASE Update
  <2>1. at # NoKey /\ at' = NoKey /\ todo' = todo /\ pc' = pc
    BY <1>3 DEF Update
  <2>2. BatchLeft = BatchLeft' + 1 /\ BatchLeft' = 2 * Cardinality(todo) + Stage[pc]
        /\ Stage[pc] \in Nat
    BY <1>0, <1>1, <2>1, Stages DEF BatchLeft, TypeOK
  <2>3. QED BY <1>1, <2>2
<1>4. CASE Applied \/ Reset
  <2>1. todo' = todo /\ at' = at
    BY <1>4 DEF Applied, Reset
  <2>2. Stage[pc] = Stage[pc'] + 1 /\ Stage[pc'] \in Nat
    BY <1>4, Stages DEF Applied, Reset, Applying
  <2>3. BatchLeft' = BatchLeft - 1 /\ BatchLeft \in Nat
    BY <1>0, <1>1, <2>1, <2>2, BatchIsFinite DEF BatchLeft
  <2>4. QED BY <2>3
<1>5. QED BY <1>2, <1>3, <1>4 DEF Worker, ReadAny

LEMMA OthersLeaveBatch ==
  ASSUME IInv, Applying \/ pc = "reset", Next, ~Worker PROVE BatchLeft' = BatchLeft
<1>1. UNCHANGED <<todo, at, pc>>
  <2>1. CASE FileChanges \/ Tick
    BY <2>1 DEF FileChanges, Change, Tick
  <2>2. ASSUME NEW s \in {"cancelled", "closed"}, Stop(s) PROVE UNCHANGED <<todo, at, pc>>
    BY <2>2 DEF Stop, wvars
  <2>3. ~Walk /\ ~WalkFails /\ ~WalkDone /\ ~Select /\ ~Ended
    BY DEF Applying, Walk, AddDir, ListDir, WalkFails, WalkDone, Select, Receive, ReceiveError,
           TakeTick, StopSeen, Ended
  <2>4. QED BY <2>1, <2>2, <2>3, Changing DEF Next, Worker
<1>2. QED BY <1>1 DEF BatchLeft

(* Applying a batch, and winding up, takes at most BatchLeft steps of the  *)
(* goroutine, so a writer that never stops cannot keep it from its         *)
(* channels, nor the cancel function from returning: what lies behind      *)
(* Followed and StopEnds, for any number of keys (watch.go:145-218).       *)
THEOREM BatchesEnd ==
  ASSUME IsFiniteSet(Keys) PROVE Spec => BatchGoesOn /\ [](BatchLeft \in Nat)
<1>1. IInv /\ [Next]_vars
        => [Applying \/ pc = "reset" =>
              IF Worker THEN BatchLeft' < BatchLeft ELSE BatchLeft' = BatchLeft]_vars
  BY WorkerGoesOn, OthersLeaveBatch
<1>2. IInv => BatchLeft \in Nat
  BY BatchIsFinite DEF IInv
<1>3. QED BY <1>1, <1>2, Inductive, PTL DEF Spec, BatchGoesOn

-----------------------------------------------------------------------------
(* The refinement. Mirror reads files the way DirWatch does.               *)
LEMMA SameFiles ==
  M!Contents = Contents /\ \A c, v : M!Meanings(c, v) = Meanings(c, v)
BY DEF M!Contents, Contents, M!Meanings, Meanings, M!Blank, Blank, M!Garbled, Garbled

LEMMA InitMirror == Init => M!Init
<1> SUFFICES ASSUME Init PROVE M!Init
  OBVIOUS
<1>1. Seen = [k \in Keys |-> Default] /\ Phase = "on"
  BY DEF Init, Seen, Phase
<1>2. \A k \in Keys : Pending(k)
  BY DirAssumption DEF Init, Pending
<1>3. Stale = Keys
  BY <1>1, <1>2 DEF Stale, Init
<1>4. QED BY <1>1, <1>3, SameFiles DEF Init, M!Init

LEMMA NextMirror == IInv /\ IInv' /\ [Next]_vars => [M!Next]_(M!vars)
<1> SUFFICES ASSUME IInv, IInv', [Next]_vars PROVE [M!Next]_(M!vars)
  OBVIOUS
<1>0. TypeOK /\ Order /\ Current /\ Current' /\ missed \subseteq Keys /\ missed' \subseteq Keys
  BY DEF IInv, TypeOK
<1> HIDE DEF IInv
<1>w. Phase = "on" => Watching
  BY DEF Phase, Watching
<1>1. ASSUME NEW k \in Keys, NEW c \in Contents, ChangeOf(k, c) PROVE M!Next
  <2>1. Stale' = Stale \cup {k}
    BY <1>0, <1>1, <1>w DEF ChangeOf, Stale
  <2>2. M!Change(k, c)
    BY <1>1, <2>1 DEF ChangeOf, M!Change
  <2>3. QED BY <2>2, SameFiles DEF M!Next
<1>2. ASSUME NEW k \in Keys, ReadOf(k) PROVE M!Next
  <2>1. Stale' \in {Stale, Stale \ {k}}
    BY <1>0, <1>2 DEF ReadOf, Stale
  <2>2. M!Refresh(k)
    BY <1>2, <2>1, SameFiles DEF ReadOf, M!Refresh
  <2>3. QED BY <2>2 DEF M!Next
<1>3. CASE ListOf
  <2> DEFINE R == Stale \ Stale'
  <2>1. Stale' = Stale \ R
    BY <1>3 DEF ListOf, Stale
  <2>2. R \in SUBSET Keys /\ \A k \in R : Seen[k] \in Meanings(file[k], Seen[k])
    BY <1>0, <1>3 DEF ListOf, Stale
  <2>3. M!Confirm(R)
    BY <1>3, <2>1, <2>2, SameFiles DEF ListOf, M!Confirm
  <2>4. QED BY <2>2, <2>3 DEF M!Next
<1>4. CASE QuietStep
  <2>1. Quiet
    BY <1>4, QuietSteps
  <2>2. Phase' = Phase \/ (Phase = "on" /\ Phase' = "ending")
    BY <1>0, <1>4 DEF QuietStep, Tick, Stop, AddDir, WalkDone, Select, Receive, ReceiveError, TakeTick,
       StopSeen, Wrap, Update, Applied, Applying, vars, wvars, Phase, TypeOK, Order
  <2>3. CASE Phase' = Phase
    BY <2>1, <2>3 DEF Quiet, Stale, M!vars
  <2>4. CASE Phase = "on" /\ Phase' = "ending"
    <3>1. Stale' = Keys
      BY <2>4 DEF Stale
    <3>2. QED BY <2>1, <2>4, <3>1 DEF Quiet, M!End, M!Next
  <2>5. QED BY <2>2, <2>3, <2>4
<1>5. CASE WalkFails \/ Reset
  <2>1. at = NoKey /\ at' = NoKey
    BY <1>0, <1>5 DEF WalkFails, Reset, Order, Applying
  <2>2. Seen' = [k \in Keys |-> Default] /\ UNCHANGED file
    BY <1>0, <1>5, <2>1 DEF WalkFails, Reset, Order, Seen
  <2>3. Phase # "off" /\ Phase' = "off"
    BY <1>5 DEF WalkFails, Reset, Phase
  <2>4. Stale' = Keys
    BY <2>3 DEF Stale
  <2>5. QED BY <2>2, <2>3, <2>4 DEF M!Reset, M!Next
<1>6. QED
  <2>1. CASE FileChanges
    BY <1>1, <2>1, ChangeFacts DEF FileChanges
  <2>2. CASE ReadAny
    BY <1>2, <2>2, ReadFacts DEF ReadAny
  <2>3. ASSUME NEW d \in Dirs, NEW S \in SUBSET {k \in Keys : DirOf[k] = d}, ListDir(d, S)
        PROVE  [M!Next]_(M!vars)
    BY <1>3, <2>3, ListFacts
  <2>4. QED
    BY <1>4, <1>5, <2>1, <2>2, <2>3, Changing DEF Next, Walk, QuietStep, Ended

(* A watched directory is mirrored: values only ever become what their     *)
(* files say, what disagrees is known to be stale, and the end resets them *)
(* (watch.go:56-221, spec.go:150-220, options/lobby.go:69-207).            *)
THEOREM Mirrors == Spec => MirrorSpec
<1>1. QED BY InitMirror, NextMirror, Inductive, PTL DEF Spec, MirrorSpec, M!Spec
=============================================================================
