---------------------------- MODULE PolicyProofs ----------------------------
(***************************************************************************)
(* Theorems about modules Players and LobbyPolicy, for rooms of any size,  *)
(* any options and any ages.                                               *)
(***************************************************************************)
EXTENDS LobbyPolicy, FiniteSetTheorems, WellFoundedInduction, TLAPS

-----------------------------------------------------------------------------
(* The registry                                                            *)

(* A set of numbers that is not empty has a least one.                     *)
LEMMA LeastExists ==
  ASSUME NEW S \in SUBSET Nat, S # {}
  PROVE  \E p \in S : \A q \in S : p <= q
<1> DEFINE Less == {pair \in Nat \X Nat : pair[1] < pair[2]}
<1>1. IsWellFoundedOn(Less, Nat)
  BY NatLessThanWellFounded, Zenon DEF OpToRel
<1>2. PICK p \in S : \A q \in S : <<q, p>> \notin Less
  <2> HIDE DEF Less
  <2>1. QED BY <1>1, WFMin
<1>3. ASSUME NEW q \in S PROVE p <= q
  <2>1. ~(q < p)
    <3>1. SUFFICES ASSUME q < p PROVE <<q, p>> \in Less
      BY <1>2
    <3>2. <<q, p>> \in Nat \X Nat /\ <<q, p>>[1] < <<q, p>>[2]
      BY <3>1
    <3>3. QED BY <3>2
  <2>2. QED BY <2>1
<1>4. QED BY <1>3

(* Among the players who are left there is one with the lowest id.         *)
LEMMA HeirIsLeft ==
  ASSUME NEW joins \in SUBSET Humans, joins # {}
  PROVE  Heir(joins) \in joins
<1>1. \E p \in joins : \A q \in joins : p <= q
  BY PlayersAssumption, LeastExists
<1>2. QED BY <1>1 DEF Heir

(* Add and Remove keep a registry a registry with its admin inside, and    *)
(* nobody displaces an admin who stays.                                    *)
AdminIn(r) == IF r.joins = {} THEN r.admin = NoOne ELSE r.admin \in r.joins

LEMMA AddKeeps ==
  ASSUME NEW r \in Registry, AdminIn(r), NEW id \in Ids
  PROVE  /\ Add(r, id) \in Registry
         /\ AdminIn(Add(r, id))
         /\ Add(r, id).admin # r.admin => r.admin \notin Add(r, id).joins
BY PlayersAssumption DEF Registry, Ids, Add, AdminIn, NoOne

LEMMA RemoveKeeps ==
  ASSUME NEW r \in Registry, AdminIn(r), NEW id \in Ids
  PROVE  /\ Remove(r, id) \in Registry
         /\ AdminIn(Remove(r, id))
         /\ Remove(r, id).admin # r.admin => r.admin \notin Remove(r, id).joins
<1>1. CASE id \in r.bots
  BY <1>1 DEF Registry, Remove, AdminIn
<1>2. CASE id \notin r.bots /\ id \in r.joins
  <2>1. r.joins \ {id} # {} => Heir(r.joins \ {id}) \in r.joins \ {id}
    BY HeirIsLeft DEF Registry
  <2>2. r.joins \ {id} = {} => Heir(r.joins \ {id}) = NoOne
    BY DEF Heir
  <2>3. QED BY <1>2, <2>1, <2>2 DEF Registry, Remove, AdminIn
<1>3. CASE id \notin r.bots /\ id \notin r.joins
  BY <1>3 DEF Remove
<1>4. QED BY <1>1, <1>2, <1>3

(* How an operation changes the number of players.                         *)
LEMMA CountType ==
  ASSUME NEW r \in Registry
  PROVE  /\ IsFiniteSet(r.joins)
         /\ Count(r) \in 0..Cardinality(Humans)
         /\ Count(r) = 0 <=> r.joins = {}
<1>1. r.joins \in SUBSET Humans
  BY DEF Registry
<1>2. IsFiniteSet(r.joins) /\ Cardinality(r.joins) <= Cardinality(Humans)
  BY <1>1, PlayersAssumption, FS_Subset
<1>3. Cardinality(r.joins) \in Nat /\ Cardinality(Humans) \in Nat
  BY <1>2, PlayersAssumption, FS_CardinalityType
<1>4. Cardinality(r.joins) = 0 <=> r.joins = {}
  BY <1>2, FS_EmptySet
<1>5. QED BY <1>2, <1>3, <1>4 DEF Count

LEMMA AddCounts ==
  ASSUME NEW r \in Registry, NEW id \in Ids
  PROVE  IF id \in Humans /\ id \notin r.joins
         THEN Count(Add(r, id)) = Count(r) + 1
         ELSE Count(Add(r, id)) = Count(r)
<1>1. IsFiniteSet(r.joins)
  BY CountType
<1>2. CASE id \in Humans
  <2>1. Add(r, id).joins = r.joins \cup {id}
    BY <1>2, PlayersAssumption DEF Add, Registry
  <2>2. QED BY <1>1, <1>2, <2>1, FS_AddElement DEF Count
<1>3. CASE id \notin Humans
  BY <1>3 DEF Add, Registry, Count
<1>4. QED BY <1>2, <1>3

LEMMA RemoveCounts ==
  ASSUME NEW r \in Registry, NEW id \in Ids
  PROVE  IF id \in r.joins
         THEN Count(Remove(r, id)) = Count(r) - 1
         ELSE Count(Remove(r, id)) = Count(r)
<1>1. IsFiniteSet(r.joins)
  BY CountType
<1>2. CASE id \in r.joins
  <2>1. id \notin r.bots
    BY <1>2, PlayersAssumption DEF Registry
  <2>2. Remove(r, id).joins = r.joins \ {id}
    BY <1>2, <2>1 DEF Remove, Registry
  <2>3. QED BY <1>1, <1>2, <2>2, FS_RemoveElement DEF Count
<1>3. CASE id \notin r.joins
  BY <1>3 DEF Remove, Registry, Count
<1>4. QED BY <1>2, <1>3

-----------------------------------------------------------------------------
(* The inductive invariant                                                 *)

(* The history of the present look at the lobby is true now.               *)
HeldInv == /\ held.present => reg.joins # {}
           /\ held.playing => match

TimedOut == {"timeout", "admintimeout"}

(* What was there all the time was there when the watcher looked; a look   *)
(* that began with the lobby kept up finds nothing older than now.         *)
LookInv ==
  /\ watch.pc = "judge" /\ held.present => watch.players
  /\ watch.pc = "cancel" /\ held.present => watch.force \/ watch.reason = "admintimeout"
  /\ watch.pc = "cancel" /\ held.playing => watch.force /\ watch.reason = "downed"
  /\ watch.pc \in {"sample", "judge"} /\ held.kept => watch.since = 0
  /\ watch.pc = "cancel" /\ held.kept => watch.reason \notin TimedOut

(* StatsTruthful, and in the middle of a line what is still true of it:    *)
(* only the cases the rest of the line deals with are open.                *)
StatInv ==
  /\ "match" \in stats <=> match
  /\ scan.pc # "left" \/ Count(reg) # 0 => shown = Count(reg)
  /\ \/ scan.pc = "line"
     \/ scan.pc = "joined" /\ Count(reg) # Full
     \/ scan.pc = "left" /\ Count(reg) # Full - 1
     => ("full" \in stats <=> Count(reg) >= Full)
  /\ scan.pc # "joined" \/ Count(reg) # 1 => ("idle" \in stats => reg.joins = {})

IInv == TypeOK /\ AdminInside /\ HeldInv /\ LookInv /\ StatInv

LEMMA AdminInsideIs == AdminInside <=> AdminIn(reg)
BY DEF AdminInside, AdminIn

(* Nobody but the scanner's two registry operations changes the registry.  *)
LEMMA RegistryChanges ==
  ASSUME Next, ~(\E id \in Ids : Registered(id) \/ Unregistered(id))
  PROVE  UNCHANGED reg
BY DEF Next, Scanner, AfterRegistered, AfterUnregistered, Attempt, Populated,
       SettingsChanged, MatchSeen, Uploaded, Disconnected, Watcher, Tick, Sample, Judge,
       WatchCancels, WatchEnds, SpecChanges, scanVars

(* Whatever the spec holds, what it asks for is one of three reasons.      *)
LEMMA SpecReasonType ==
  ASSUME NEW idle, NEW grace
  PROVE  SpecReason(idle, grace) \in SpecReasons \cup {"nil"}
<1>1. CASE Heeded(idle, grace) = {}
  BY <1>1 DEF SpecReason
<1>2. CASE Heeded(idle, grace) # {}
  <2> DEFINE first == CHOOSE i \in Heeded(idle, grace) :
                        \A j \in Heeded(idle, grace) : i <= j
  <2>1. first \in 1..6
    <3>1. Heeded(idle, grace) \subseteq 1..6
      BY DEF Heeded, Ranking
    <3>2. \E i \in Heeded(idle, grace) : \A j \in Heeded(idle, grace) : i <= j
      BY <1>2, <3>1, LeastExists
    <3>3. QED BY <3>1, <3>2
  <2>2. SpecReason(idle, grace) = Asked[first]
    BY <1>2 DEF SpecReason
  <2>3. \A i \in 1..6 : Asked[i] \in SpecReasons
    BY DEF Asked, SpecReasons
  <2> HIDE DEF first
  <2>4. QED BY <2>1, <2>2, <2>3
<1>3. QED BY <1>1, <1>2

LEMMA NextTypeOK == TypeOK /\ AdminInside /\ [Next]_vars => TypeOK'
<1> SUFFICES ASSUME TypeOK, AdminInside, [Next]_vars PROVE TypeOK'
  OBVIOUS
<1>a. AdminIn(reg)
  BY AdminInsideIs
<1> USE PlayersAssumption, OptionsAssumption
    DEF TypeOK, scanVars, watchVars
<1>1. RunType'
  <2> USE DEF RunType
  <2>1. CASE Scanner
    BY <2>1 DEF Scanner, Registered, Unregistered, AfterRegistered, AfterUnregistered,
                Attempt, Populated, SettingsChanged, MatchSeen, Uploaded, Disconnected
  <2>2. CASE Watcher \/ UNCHANGED vars
    BY <2>2 DEF Watcher, Tick, Sample, Judge, WatchCancels, WatchEnds, vars
  <2>3. ASSUME NEW kind \in SpecKinds, SpecChanges(kind) PROVE RunType'
    BY <2>3 DEF SpecChanges
  <2>4. QED BY <2>1, <2>2, <2>3 DEF Next
<1>2. RoomType'
  <2> USE DEF RoomType, Between, Line, Collect, Uncollected
  <2>1. ASSUME NEW id \in Ids, Registered(id) PROVE RoomType'
    BY <1>a, <2>1, AddKeeps DEF Registered, CanAdd
  <2>2. ASSUME NEW id \in Ids, Unregistered(id) PROVE RoomType'
    BY <1>a, <2>2, RemoveKeeps DEF Unregistered, CanRemove, AdminLeaves
  <2>3. CASE AfterRegistered \/ AfterUnregistered
    <3>1. UNCHANGED <<reg, changed>> /\ match' \in BOOLEAN /\ scan' = Between
      BY <2>3 DEF AfterRegistered, AfterUnregistered
    <3>2. QED BY <3>1
  <2>4. CASE Attempt \/ Populated \/ SettingsChanged \/ MatchSeen \/ Uploaded \/ Disconnected
    BY <2>4 DEF Attempt, Populated, SettingsChanged, MatchSeen, Uploaded, Disconnected
  <2>5. CASE Watcher \/ \E kind \in SpecKinds : SpecChanges(kind)
    BY <2>5 DEF Watcher, Tick, Sample, Judge, WatchCancels, WatchEnds, SpecChanges
  <2>6. CASE UNCHANGED vars
    BY <2>6 DEF vars
  <2>7. QED BY <2>1, <2>2, <2>3, <2>4, <2>5, <2>6 DEF Next, Scanner
<1>3. ClockType'
  <2> USE DEF ClockType, Collect, Uncollected
  <2>1. CASE Scanner
    BY <2>1 DEF Scanner, Registered, Unregistered, AfterRegistered, AfterUnregistered,
                Attempt, Populated, SettingsChanged, MatchSeen, Uploaded, Disconnected
  <2>2. CASE Watcher
    BY <2>2 DEF Watcher, Tick, Sample, Judge, WatchCancels, WatchEnds, Keep, Older
  <2>3. CASE UNCHANGED vars \/ \E kind \in SpecKinds : SpecChanges(kind)
    BY <2>3 DEF vars, SpecChanges
  <2>4. QED BY <2>1, <2>2, <2>3 DEF Next
<1>4. StatType'
  <2> USE DEF StatType
  <2>1. ASSUME NEW id \in Ids, Registered(id) \/ Unregistered(id) PROVE StatType'
    <3>1. Count(reg') \in 0..Cardinality(Humans)
      BY <1>2, CountType DEF RoomType
    <3>2. QED BY <2>1, <3>1 DEF Registered, Unregistered
  <2>2. CASE AfterRegistered \/ AfterUnregistered
    <3>1. 0 \in 0..Cardinality(Humans)
      BY FS_CardinalityType
    <3>2. QED
      BY <2>2, <3>1 DEF AfterRegistered, AfterUnregistered, WithoutMatch
  <2>3. CASE Attempt \/ Populated \/ SettingsChanged \/ MatchSeen \/ Uploaded \/ Disconnected
    BY <2>3 DEF Attempt, Populated, SettingsChanged, MatchSeen, Uploaded, Disconnected,
                WithoutMatch
  <2>4. CASE Watcher \/ UNCHANGED vars \/ \E kind \in SpecKinds : SpecChanges(kind)
    BY <2>4 DEF Watcher, Tick, Sample, Judge, WatchCancels, WatchEnds, SpecChanges, vars
  <2>5. QED BY <2>1, <2>2, <2>3, <2>4 DEF Next, Scanner
<1>5. ReasonType'
  <2> USE DEF ReasonType, Cancel, WatchReasons, ScanReasons, SpecReasons
  <2>1. CASE Scanner
    <3>1. SpecReason(0, 0) \in SpecReasons \cup {"nil"}
      BY SpecReasonType
    <3>2. QED
      BY <2>1, <3>1
         DEF Scanner, Registered, Unregistered, AfterRegistered, AfterUnregistered,
             Attempt, Populated, SettingsChanged, MatchSeen, Uploaded, Disconnected
  <2>2. CASE Watcher \/ UNCHANGED vars \/ \E kind \in SpecKinds : SpecChanges(kind)
    BY <2>2 DEF Watcher, Tick, Sample, Judge, WatchCancels, WatchEnds, SpecChanges, vars,
                LookType
  <2>3. QED BY <2>1, <2>2 DEF Next
<1>6. LookType'
  <2> DEFINE Look == [pc : {"wait", "sample", "judge", "cancel", "off"}, since : 0..MaxAge,
                      players : BOOLEAN, force : BOOLEAN, reason : WatchReasons \cup {"nil"}]
             Past == [present : BOOLEAN, playing : BOOLEAN, kept : BOOLEAN]
  <2>a. watch \in Look /\ held \in Past
    BY DEF LookType
  <2>b. Unseen \in Past /\ Waiting \in Look /\ [Waiting EXCEPT !.pc = "off"] \in Look
    <3>1. Unseen \in Past
      BY Zenon DEF Unseen
    <3>2. Waiting \in Look
      BY DEF Waiting
    <3>3. [Waiting EXCEPT !.pc = "off"] \in Look
      BY <3>2
    <3>4. QED BY <3>1, <3>2, <3>3
  <2>c. SUFFICES watch' \in Look /\ held' \in Past
    BY DEF LookType
  <2> HIDE DEF Past
  <2>p. \A a, b, c \in BOOLEAN : [present |-> a, playing |-> b, kept |-> c] \in Past
    BY Zenon DEF Past
  <2>d. ASSUME Observe PROVE held' \in Past
    <3>1. held.kept \in BOOLEAN
      BY <2>a DEF Past
    <3>2. (held.present /\ reg'.joins # {}) \in BOOLEAN /\ (held.playing /\ match') \in BOOLEAN
      OBVIOUS
    <3>3. QED BY <2>d, <2>p, <3>1, <3>2, Zenon DEF Observe
  <2>1. CASE Scanner \/ UNCHANGED vars \/ \E kind \in SpecKinds : SpecChanges(kind)
    <3> HIDE DEF Look
    <3>1. UNCHANGED watch /\ (Observe \/ UNCHANGED held)
      BY <2>1
         DEF Scanner, Registered, Unregistered, AfterRegistered, AfterUnregistered, Attempt,
             Populated, SettingsChanged, MatchSeen, Uploaded, Disconnected, SpecChanges, vars
    <3>2. QED BY <2>a, <2>d, <3>1
  <2>2. CASE Tick
    <3>1. age' \in 0..MaxAge /\ keep' \in 0..MaxAge
      BY <1>3 DEF ClockType
    <3>2. Younger(age', keep') \in 0..MaxAge
      BY <3>1 DEF Younger
    <3>3. [Waiting EXCEPT !.pc = "sample", !.since = Younger(age', keep')] \in Look
      BY <3>2 DEF Waiting
    <3>4. held' \in Past
      <4>1. (reg.joins # {}) \in BOOLEAN /\ match \in BOOLEAN /\ ("up" \in spec) \in BOOLEAN
        BY DEF TypeOK, RoomType
      <4>2. QED BY <2>2, <2>p, <4>1, Zenon DEF Tick
    <3>5. QED BY <2>2, <3>3, <3>4 DEF Tick
  <2>3. CASE Sample
    <3>1. watch' \in Look
      BY <2>a, <2>3 DEF Sample, WatchReasons, SpecReasons
    <3>2. QED BY <2>a, <2>3, <3>1 DEF Sample
  <2>4. CASE Judge
    <3>1. Due \in WatchReasons \cup {"nil"}
      BY SpecReasonType DEF Due, Obeyed, Overdue, WatchReasons, SpecReasons
    <3>2. Insists \in BOOLEAN
      BY DEF Insists
    <3>3. [watch EXCEPT !.pc = "cancel", !.force = Insists, !.reason = Due] \in Look
      BY <2>a, <3>1, <3>2
    <3> HIDE DEF Look
    <3>4. CASE Due = "nil"
      BY <2>b, <2>4, <3>4 DEF Judge
    <3>5. CASE Due # "nil"
      <4>1. /\ watch' = [watch EXCEPT !.pc = "cancel", !.force = Insists, !.reason = Due]
            /\ held' = held
        BY <2>4, <3>5, Zenon DEF Judge
      <4>2. QED BY <2>a, <3>3, <4>1, Zenon
    <3>6. QED BY <3>4, <3>5
  <2>5. CASE WatchCancels \/ WatchEnds
    <3> HIDE DEF Look
    <3>1. QED BY <2>a, <2>b, <2>5 DEF WatchCancels, WatchEnds
  <2>6. QED BY <2>1, <2>2, <2>3, <2>4, <2>5 DEF Next, Watcher
<1>7. QED BY <1>1, <1>2, <1>3, <1>4, <1>5, <1>6

(* What the watcher remembers of its look stays true of the lobby.         *)
LEMMA NextHeldInv == TypeOK /\ HeldInv /\ [Next]_vars => HeldInv'
<1> SUFFICES ASSUME TypeOK, HeldInv, [Next]_vars PROVE HeldInv'
  OBVIOUS
<1> USE DEF HeldInv
<1>1. CASE Observe
  BY <1>1 DEF Observe
<1>2. CASE UNCHANGED <<held, reg, match>>
  BY <1>2
<1>3. CASE Tick
  BY <1>3 DEF Tick
<1>4. CASE held' = Unseen
  BY <1>4 DEF Unseen
<1>5. CASE Scanner \/ UNCHANGED vars \/ \E kind \in SpecKinds : SpecChanges(kind)
  BY <1>1, <1>2, <1>5
     DEF Scanner, Registered, Unregistered, AfterRegistered, AfterUnregistered, Attempt,
         Populated, SettingsChanged, MatchSeen, Uploaded, Disconnected, SpecChanges, vars,
         scanVars
<1>6. CASE Sample \/ Judge \/ WatchCancels \/ WatchEnds
  BY <1>2, <1>4, <1>6 DEF Sample, Judge, WatchCancels, WatchEnds, scanVars
<1>7. QED BY <1>3, <1>5, <1>6 DEF Next, Watcher

(* What the spec asks for is no timeout.                                   *)
LEMMA AskedInTime == \A idle, grace : SpecReason(idle, grace) \notin TimedOut
BY SpecReasonType DEF SpecReasons, TimedOut

(* The verdict takes account of what was there all the time: with players  *)
(* it is forced or their own timeout, with a match there is none; kept up, *)
(* no timeout has passed.                                                  *)
LEMMA NextLookInv == TypeOK /\ HeldInv /\ LookInv /\ [Next]_vars => LookInv'
<1> SUFFICES ASSUME TypeOK, HeldInv, LookInv, [Next]_vars PROVE LookInv'
  OBVIOUS
<1>1. CASE Scanner \/ UNCHANGED vars \/ \E kind \in SpecKinds : SpecChanges(kind)
  <2>1. UNCHANGED watch
    BY <1>1
       DEF Scanner, Registered, Unregistered, AfterRegistered, AfterUnregistered, Attempt,
           Populated, SettingsChanged, MatchSeen, Uploaded, Disconnected, SpecChanges, vars,
           watchVars
  <2>2. Observe \/ UNCHANGED held
    BY <1>1
       DEF Scanner, Registered, Unregistered, AfterRegistered, AfterUnregistered, Attempt,
           Populated, SettingsChanged, MatchSeen, Uploaded, Disconnected, SpecChanges, vars
  <2>3. /\ (held'.present => held.present) /\ (held'.playing => held.playing)
        /\ held'.kept = held.kept
    <3>1. CASE Observe
      BY <3>1 DEF Observe
    <3>2. CASE UNCHANGED held
      BY <3>2
    <3>3. QED BY <2>2, <3>1, <3>2
  <2>4. QED BY <2>1, <2>3 DEF LookInv
<1>2. CASE Tick
  <2>1. watch'.pc = "sample" /\ watch'.since = Younger(age', keep')
    BY <1>2 DEF Tick, Waiting
  <2>2. held'.kept => "up" \in spec
    BY <1>2 DEF Tick
  <2>3. "up" \in spec => Younger(age', keep') = 0
    <3>1. "up" \in spec => age' \in Nat /\ keep' = 0
      BY <1>2, OptionsAssumption DEF Tick, Keep, Older, TypeOK, ClockType
    <3>2. QED BY <3>1 DEF Younger
  <2>4. QED BY <2>1, <2>2, <2>3 DEF LookInv
<1>3. CASE Sample
  <2>1. UNCHANGED held /\ watch \in [pc : {"wait", "sample", "judge", "cancel", "off"},
                                     since : 0..MaxAge, players : BOOLEAN, force : BOOLEAN,
                                     reason : WatchReasons \cup {"nil"}]
    BY <1>3 DEF Sample, TypeOK, LookType
  <2>2. CASE ForcedDown
    <3>1. watch'.pc = "cancel" /\ watch'.force /\ watch'.reason = "downed"
      BY <1>3, <2>1, <2>2 DEF Sample
    <3>2. QED BY <3>1 DEF LookInv, TimedOut
  <2>3. CASE ~ForcedDown
    <3>1. watch.pc = "sample" /\ watch'.pc = "judge" /\ watch'.players = (reg.joins # {})
          /\ watch'.since = watch.since
      BY <1>3, <2>1, <2>3 DEF Sample
    <3>2. QED BY <2>1, <3>1 DEF LookInv, HeldInv
  <2>4. QED BY <2>2, <2>3
<1>4. CASE Judge
  <2>1. CASE Due = "nil"
    <3>1. watch'.pc = "wait"
      BY <1>4, <2>1 DEF Judge, Waiting
    <3>2. QED BY <3>1 DEF LookInv
  <2>2. CASE Due # "nil"
    <3>1. watch'.pc = "cancel" /\ watch'.force = Insists /\ watch'.reason = Due
      <4>1. watch \in [pc : {"wait", "sample", "judge", "cancel", "off"},
                       since : 0..MaxAge, players : BOOLEAN, force : BOOLEAN,
                       reason : WatchReasons \cup {"nil"}]
        BY DEF TypeOK, LookType
      <4>2. watch' = [watch EXCEPT !.pc = "cancel", !.force = Insists, !.reason = Due]
        BY <1>4, <2>2, Zenon DEF Judge
      <4>3. QED BY <4>1, <4>2
    <3>2. UNCHANGED held /\ watch.pc = "judge"
      BY <1>4, <2>2, Zenon DEF Judge
    <3>3. ~held.playing
      BY <2>2 DEF Due, HeldInv
    <3>4. ASSUME held.present PROVE Insists \/ Due = "admintimeout"
      <4>1. watch.players
        BY <3>2, <3>4 DEF LookInv
      <4>2. QED BY <2>2, <4>1 DEF Due, Obeyed, Overdue
    <3>5. ASSUME held.kept PROVE Due \notin TimedOut
      <4>1. watch.since = 0
        BY <3>2, <3>5 DEF LookInv
      <4>2. ~Passed(opts.timeout) /\ ~Passed(opts.admintimeout)
        BY <4>1, OptionsAssumption DEF Passed, TypeOK, RunType
      <4>3. QED BY <4>2, AskedInTime DEF Due, Obeyed, Overdue, TimedOut
    <3>6. QED BY <3>1, <3>2, <3>3, <3>4, <3>5 DEF LookInv
  <2>3. QED BY <2>1, <2>2
<1>5. CASE WatchCancels \/ WatchEnds
  <2>1. watch'.pc = "off"
    BY <1>5 DEF WatchCancels, WatchEnds, Waiting
  <2>2. QED BY <2>1 DEF LookInv
<1>6. QED BY <1>1, <1>2, <1>3, <1>4, <1>5 DEF Next, Watcher

(* The rest of a line closes the case its first step opened.               *)
LEMMA NextStatInv == TypeOK /\ StatInv /\ [Next]_vars => StatInv'
<1> SUFFICES ASSUME TypeOK, StatInv, [Next]_vars PROVE StatInv'
  OBVIOUS
<1>a. reg \in Registry /\ Count(reg) \in Nat /\ (Count(reg) = 0 <=> reg.joins = {})
  BY CountType DEF TypeOK, RoomType
<1> USE OptionsAssumption DEF StatInv
<1>1. ASSUME NEW id \in Ids, Registered(id) PROVE StatInv'
  <2>1. scan.pc = "line" /\ scan'.pc = "joined" /\ UNCHANGED <<match, stats>>
    BY <1>1 DEF Registered, Line, Between
  <2>2. /\ reg' = Add(reg, id)
        /\ shown' = IF id \in Humans THEN Count(reg') ELSE shown
    BY <1>1 DEF Registered
  <2>3. Count(reg') \in {Count(reg), Count(reg) + 1}
    BY <1>a, <2>2, AddCounts
  <2>4. id \notin Humans => Count(reg') = Count(reg)
    BY <1>a, <2>2, AddCounts
  <2>5. shown' = Count(reg')
    BY <2>1, <2>2, <2>4
  <2>6. Count(reg') # Full => ("full" \in stats' <=> Count(reg') >= Full)
    BY <1>a, <2>1, <2>3
  <2>7. Count(reg') # 1 /\ "idle" \in stats' => Count(reg') = 0
    BY <1>a, <2>1, <2>3
  <2>8. reg' \in Registry
    BY <1>a, <2>2, PlayersAssumption DEF Add, Registry, Ids, NoOne
  <2>9. Count(reg') = 0 <=> reg'.joins = {}
    BY <2>8, CountType
  <2>10. QED BY <2>1, <2>5, <2>6, <2>7, <2>9
<1>2. ASSUME NEW id \in Ids, Unregistered(id) PROVE StatInv'
  <2>1. scan.pc = "line" /\ scan'.pc = "left" /\ UNCHANGED <<match, stats>>
    BY <1>2 DEF Unregistered, Line, Between
  <2>2. /\ reg' = Remove(reg, id)
        /\ shown' = IF id \in reg.joins /\ Count(reg') # 0 THEN Count(reg') ELSE shown
    BY <1>2 DEF Unregistered
  <2>3. Count(reg') = IF id \in reg.joins THEN Count(reg) - 1 ELSE Count(reg)
    BY <1>a, <2>2, RemoveCounts
  <2>4. id \in reg.joins => Count(reg) # 0
    BY <1>a
  <2>5. Count(reg') # 0 => shown' = Count(reg')
    BY <2>1, <2>2, <2>3
  <2>6. Count(reg') # Full - 1 => ("full" \in stats' <=> Count(reg') >= Full)
    BY <1>a, <2>1, <2>3, <2>4
  <2>7. "idle" \in stats' => reg'.joins = {}
    BY <1>a, <2>1, <2>2, <2>4 DEF Remove
  <2>8. QED BY <2>1, <2>5, <2>6, <2>7
<1>3. CASE AfterRegistered
  <2>1. scan.pc = "joined" /\ scan'.pc = "line" /\ UNCHANGED <<reg, shown>>
    BY <1>3 DEF AfterRegistered, Between
  <2>2. CASE Count(reg) = 1
    <3>1. match' = FALSE /\ stats' = WithoutMatch(stats) \ {"idle"}
      BY <1>3, <2>2 DEF AfterRegistered, Collect
    <3>2. QED BY <1>a, <2>1, <2>2, <3>1 DEF WithoutMatch
  <2>3. CASE Count(reg) # 1
    <3>1. /\ UNCHANGED match
          /\ stats' = IF Count(reg) = Full THEN stats \cup {"full"} ELSE stats
      BY <1>3, <2>3 DEF AfterRegistered, Uncollected
    <3>2. QED BY <1>a, <2>1, <2>3, <3>1
  <2>4. QED BY <2>2, <2>3
<1>4. CASE AfterUnregistered
  <2>1. scan.pc = "left" /\ scan'.pc = "line" /\ UNCHANGED reg
    BY <1>4 DEF AfterUnregistered, Between
  <2>2. CASE Count(reg) = 0
    <3>1. /\ match' = FALSE /\ shown' = 0
          /\ stats' \in {WithoutMatch(stats), WithoutMatch(stats) \cup {"idle"}}
      BY <1>4, <2>2 DEF AfterUnregistered, Collect
    <3>2. QED BY <1>a, <2>1, <2>2, <3>1 DEF WithoutMatch
  <2>3. CASE Count(reg) # 0
    <3>1. /\ UNCHANGED <<match, shown>> \/ (match = FALSE /\ match' = FALSE /\ shown' = shown)
          /\ stats' = IF Count(reg) = Full - 1 THEN stats \ {"full"} ELSE stats
      BY <1>4, <2>3 DEF AfterUnregistered, Collect, Uncollected
    <3>2. QED BY <1>a, <2>1, <2>3, <3>1
  <2>4. QED BY <2>2, <2>3
<1>5. CASE Attempt \/ Populated \/ SettingsChanged \/ Disconnected
  BY <1>5 DEF Attempt, Populated, SettingsChanged, Disconnected, Line, Between, scanVars
<1>6. CASE MatchSeen \/ Uploaded
  BY <1>6 DEF MatchSeen, Uploaded, Line, Between, Collect, WithoutMatch
<1>7. CASE Watcher \/ UNCHANGED vars \/ \E kind \in SpecKinds : SpecChanges(kind)
  <2>1. UNCHANGED <<reg, match, stats, shown, scan>>
    BY <1>7 DEF Watcher, Tick, Sample, Judge, WatchCancels, WatchEnds, SpecChanges, vars,
                scanVars
  <2>2. QED BY <2>1
<1>8. QED BY <1>1, <1>2, <1>3, <1>4, <1>5, <1>6, <1>7 DEF Next, Scanner

(* The registry's lemmas, as facts about the steps of the lobby.           *)
LEMMA NextAdmin ==
  TypeOK /\ AdminInside /\ [Next]_vars =>
    AdminInside' /\ (reg'.admin # reg.admin => reg.admin \notin reg'.joins)
<1> SUFFICES ASSUME TypeOK, AdminInside, [Next]_vars
             PROVE  /\ AdminInside'
                    /\ reg'.admin # reg.admin => reg.admin \notin reg'.joins
  OBVIOUS
<1>1. reg \in Registry /\ AdminIn(reg)
  BY AdminInsideIs DEF TypeOK, RoomType
<1>2. SUFFICES /\ AdminIn(reg')
               /\ reg'.admin # reg.admin => reg.admin \notin reg'.joins
  BY DEF AdminInside, AdminIn
<1>3. ASSUME NEW id \in Ids, reg' = Add(reg, id)
      PROVE  /\ AdminIn(reg')
             /\ reg'.admin # reg.admin => reg.admin \notin reg'.joins
  BY <1>1, <1>3, AddKeeps
<1>4. ASSUME NEW id \in Ids, reg' = Remove(reg, id)
      PROVE  /\ AdminIn(reg')
             /\ reg'.admin # reg.admin => reg.admin \notin reg'.joins
  BY <1>1, <1>4, RemoveKeeps
<1>5. CASE UNCHANGED reg
  BY <1>1, <1>5
<1>6. (\E id \in Ids : Registered(id) \/ Unregistered(id)) \/ UNCHANGED reg
  BY RegistryChanges DEF vars, scanVars
<1>7. QED BY <1>3, <1>4, <1>5, <1>6 DEF Registered, Unregistered

LEMMA InitIInv == Init => IInv
<1> SUFFICES ASSUME Init PROVE IInv
  OBVIOUS
<1> USE PlayersAssumption, OptionsAssumption DEF Init
<1>1. reg \in Registry /\ reg.joins = {} /\ reg.admin = NoOne
  BY DEF Nobody, Registry
<1>2. Count(reg) = 0
  BY <1>1, FS_EmptySet DEF Count
<1>3. RunType /\ RoomType /\ ClockType /\ ReasonType
  <2>1. scan \in [pc : {"line", "joined", "left"}, bug : BOOLEAN, admin : BOOLEAN]
    BY Zenon DEF Between
  <2>2. RoomType
    BY <1>1, <2>1 DEF RoomType
  <2>3. QED BY <2>2 DEF RunType, ClockType, ReasonType
<1>4. StatType
  BY FS_CardinalityType DEF StatType
<1>5. LookType
  <2>1. Waiting \in [pc : {"wait", "sample", "judge", "cancel", "off"}, since : 0..MaxAge,
                     players : BOOLEAN, force : BOOLEAN, reason : WatchReasons \cup {"nil"}]
    BY DEF Waiting
  <2>2. watch \in [pc : {"wait", "sample", "judge", "cancel", "off"}, since : 0..MaxAge,
                   players : BOOLEAN, force : BOOLEAN, reason : WatchReasons \cup {"nil"}]
    BY <2>1
  <2>3. held \in [present : BOOLEAN, playing : BOOLEAN, kept : BOOLEAN]
    BY Zenon DEF Unseen
  <2>4. QED BY <2>2, <2>3 DEF LookType
<1>6. AdminInside
  BY <1>1 DEF AdminInside
<1>7. HeldInv
  BY DEF HeldInv, Unseen
<1>8. LookInv
  BY DEF LookInv, Waiting
<1>9. StatInv
  BY <1>2 DEF StatInv, Between
<1>10. QED BY <1>3, <1>4, <1>5, <1>6, <1>7, <1>8, <1>9 DEF IInv, TypeOK

LEMMA NextIInv == IInv /\ [Next]_vars => IInv'
BY NextTypeOK, NextAdmin, NextHeldInv, NextLookInv, NextStatInv DEF IInv

LEMMA Inductive == Spec => []IInv
BY InitIInv, NextIInv, PTL DEF Spec

-----------------------------------------------------------------------------
(* The theorems                                                            *)

(* Every variable of the policy keeps its type: the registry stays one of  *)
(* known players, the ages within their bound, the reason one the code     *)
(* gives (scan.go, watch.go).                                              *)
THEOREM TypeCorrect == Spec => []TypeOK
<1>1. IInv => TypeOK
  BY DEF IInv
<1>2. QED BY <1>1, Inductive, PTL

(* A room with players has one of them as its admin, an empty one has none *)
(* (players.go:21-64).                                                     *)
THEOREM AdminIsInside == Spec => []AdminInside
<1>1. IInv => AdminInside
  BY DEF IInv
<1>2. QED BY <1>1, Inductive, PTL

(* Nobody becomes admin in the place of one who is still there             *)
(* (players.go:21-64).                                                     *)
THEOREM AdminKeepsPlace == Spec => AdminStays
<1>1. IInv /\ [Next]_vars => [reg'.admin # reg.admin => reg.admin \notin reg'.joins]_vars
  BY NextAdmin DEF IInv
<1>2. QED BY <1>1, Inductive, PTL DEF Spec, AdminStays

(* Between two lines of output the advertised stats agree with the room,   *)
(* for any number of players that counts as full (scan.go:158-251).        *)
THEOREM StatsAgree == Spec => []StatsTruthful
<1>1. IInv => StatsTruthful
  BY DEF IInv, StatInv, StatsTruthful, Between
<1>2. QED BY <1>1, Inductive, PTL

(* The watcher ends no lobby with players all through its look, unless it  *)
(* is forced to or their own timeout has passed (watch.go:64-71).          *)
THEOREM PlayersAreSafe == Spec => PlayersNotKicked
<1>1. IInv => (WatcherActs /\ held.present => watch.force \/ watch.reason = "admintimeout")
  BY DEF IInv, LookInv, WatcherActs
<1>2. QED BY <1>1, Inductive, PTL DEF Spec, PlayersNotKicked

(* The watcher ends no lobby with a match on all through its look, unless  *)
(* it is forced down (watch.go:55-62).                                     *)
THEOREM MatchesAreSafe == Spec => MatchNotBroken
<1>1. IInv => (WatcherActs /\ held.playing => watch.force /\ watch.reason = "downed")
  BY DEF IInv, LookInv, WatcherActs
<1>2. QED BY <1>1, Inductive, PTL DEF Spec, MatchNotBroken

(* A look that began with the lobby kept up does not time it out, for any  *)
(* timeouts and however the spec changes meanwhile (watch.go:46-73).       *)
THEOREM KeptUpStays == Spec => KeptUp
<1>1. IInv => (WatcherActs /\ held.kept => watch.reason \notin {"timeout", "admintimeout"})
  BY DEF IInv, LookInv, WatcherActs, TimedOut
<1>2. QED BY <1>1, Inductive, PTL DEF Spec, KeptUp
-----------------------------------------------------------------------------
(* The end of a lobby that is not wanted.                                  *)

(* A watcher is off once there is a reason, and only then.                 *)
OffForReason == Watching /\ watch.pc = "off" => reason # "nil"

(* While a forced down is in force, match or no match, a look either ends  *)
(* the lobby or was past the place where it is looked for; then the next   *)
(* one does.                                                               *)
ForcedLeft == [judge |-> 4, wait |-> 3, sample |-> 2, cancel |-> 1, off |-> 0]
ForcedDownGoes ==
  [][ForcedDown => IF Watcher THEN ForcedLeft[watch'.pc] < ForcedLeft[watch.pc]
                   ELSE ForcedLeft[watch'.pc] = ForcedLeft[watch.pc]]_vars

(* A room without players (p: with players) and without a match that       *)
(* nothing keeps up, and the timeout for it.                               *)
Idling(p) == (p <=> reg.joins # {}) /\ ~match /\ age > 0 /\ "up" \notin spec
Limit(p) == IF p THEN opts.admintimeout ELSE opts.timeout

(* How many steps the watcher can take before the timeout ends the lobby:  *)
(* a look that goes by the right clocks and finds the room as it is ends   *)
(* it; one that began too early, or counted before the room changed, is    *)
(* followed by another, whose clocks are older.                            *)
Ripe(p) ==
  /\ watch.pc \in {"sample", "judge"} /\ Limit(p) < watch.since
  /\ watch.pc = "judge" => (p <=> watch.players)
RipeLeft == [sample |-> 3, judge |-> 2]
Pace == [sample |-> 6, judge |-> 5, wait |-> 4]
LooksLeft(p) ==
  IF watch.pc = "off" THEN 0
  ELSE IF watch.pc = "cancel" THEN 1
  ELSE IF Ripe(p) THEN RipeLeft[watch.pc]
  ELSE 4 * ((MaxAge - age) + (MaxAge - keep)) + Pace[watch.pc]

IdlingGoes ==
  [][\A p \in BOOLEAN : Idling(p) /\ Idling(p)' /\ 0 < Limit(p) /\ Limit(p) < MaxAge =>
       IF Watcher THEN LooksLeft(p)' < LooksLeft(p) ELSE LooksLeft(p)' = LooksLeft(p)]_vars

LEMMA Ranks ==
  /\ ForcedLeft["judge"] = 4 /\ ForcedLeft["wait"] = 3 /\ ForcedLeft["sample"] = 2
  /\ ForcedLeft["cancel"] = 1 /\ ForcedLeft["off"] = 0
  /\ RipeLeft["sample"] = 3 /\ RipeLeft["judge"] = 2
  /\ Pace["sample"] = 6 /\ Pace["judge"] = 5 /\ Pace["wait"] = 4
BY DEF ForcedLeft, RipeLeft, Pace

LEMMA LookParts ==
  ASSUME TypeOK
  PROVE  /\ watch.pc \in {"wait", "sample", "judge", "cancel", "off"}
         /\ watch.since \in 0..MaxAge /\ watch.players \in BOOLEAN
         /\ age \in 0..MaxAge /\ keep \in 0..MaxAge /\ MaxAge \in Nat
         /\ opts.timeout \in Nat /\ opts.admintimeout \in Nat
BY OptionsAssumption DEF TypeOK, LookType, ClockType, RunType

(* What each step of the watcher does to its look.                         *)
LEMMA LookMoves ==
  ASSUME TypeOK
  PROVE  /\ Tick => /\ watch.pc = "wait" /\ watch'.pc = "sample"
                    /\ watch'.since = Younger(age', keep')
         /\ Sample => /\ watch.pc = "sample" /\ watch'.since = watch.since
                      /\ IF ForcedDown THEN watch'.pc = "cancel"
                         ELSE watch'.pc = "judge" /\ watch'.players = (reg.joins # {})
         /\ Judge => /\ watch.pc = "judge"
                     /\ IF Due = "nil" THEN watch'.pc = "wait"
                        ELSE watch'.pc = "cancel" /\ watch'.reason = Due
         /\ WatchCancels => watch.pc = "cancel" /\ watch'.pc = "off"
         /\ WatchEnds => watch.pc = "wait" /\ watch'.pc = "off"
<1> DEFINE Look == [pc : {"wait", "sample", "judge", "cancel", "off"}, since : 0..MaxAge,
                    players : BOOLEAN, force : BOOLEAN, reason : WatchReasons \cup {"nil"}]
<1>a. watch \in Look
  BY DEF TypeOK, LookType
<1>1. ASSUME Tick
      PROVE  watch.pc = "wait" /\ watch'.pc = "sample" /\ watch'.since = Younger(age', keep')
  BY <1>1 DEF Tick, Waiting
<1>2. ASSUME Sample
      PROVE  /\ watch.pc = "sample" /\ watch'.since = watch.since
             /\ IF ForcedDown THEN watch'.pc = "cancel"
                ELSE watch'.pc = "judge" /\ watch'.players = (reg.joins # {})
  BY <1>a, <1>2 DEF Sample
<1>3. ASSUME Judge
      PROVE  /\ watch.pc = "judge"
             /\ IF Due = "nil" THEN watch'.pc = "wait"
                ELSE watch'.pc = "cancel" /\ watch'.reason = Due
  <2>1. CASE Due = "nil"
    <3>1. watch.pc = "judge" /\ watch' = Waiting
      BY <1>3, <2>1, Zenon DEF Judge
    <3>2. QED BY <2>1, <3>1 DEF Waiting
  <2>2. CASE Due # "nil"
    <3>1. watch.pc = "judge"
          /\ watch' = [watch EXCEPT !.pc = "cancel", !.force = Insists, !.reason = Due]
      BY <1>3, <2>2, Zenon DEF Judge
    <3>2. QED BY <1>a, <2>2, <3>1
  <2>3. QED BY <2>1, <2>2
<1>4. ASSUME WatchCancels PROVE watch.pc = "cancel" /\ watch'.pc = "off"
  BY <1>4 DEF WatchCancels, Waiting
<1>5. ASSUME WatchEnds PROVE watch.pc = "wait" /\ watch'.pc = "off"
  BY <1>5 DEF WatchEnds, Waiting
<1>6. QED BY <1>1, <1>2, <1>3, <1>4, <1>5

(* Only the watcher's steps change its look, or what it keeps.             *)
LEMMA OthersLeaveLook ==
  ASSUME [Next]_vars, ~Watcher PROVE UNCHANGED <<watch, keep, opts>>
BY DEF Next, Scanner, Registered, Unregistered, AfterRegistered, AfterUnregistered, Attempt,
       Populated, SettingsChanged, MatchSeen, Uploaded, Disconnected, SpecChanges, watchVars,
       vars

OffInv == OffForReason /\ (watch.pc = "cancel" => watch.reason # "nil")

LEMMA NextOff == TypeOK /\ OffInv /\ [Next]_vars => OffInv'
<1> SUFFICES ASSUME TypeOK, OffInv, [Next]_vars PROVE OffInv'
  OBVIOUS
<1> USE DEF OffInv, OffForReason
<1>1. opts' = opts
  BY DEF Next, Scanner, Registered, Unregistered, AfterRegistered, AfterUnregistered, Attempt,
         Populated, SettingsChanged, MatchSeen, Uploaded, Disconnected, SpecChanges, vars,
         Watcher, Tick, Sample, Judge, WatchCancels, WatchEnds
<1>2. CASE Watcher
  <2>1. CASE Tick \/ WatchEnds
    BY <1>1, <2>1, LookMoves DEF WatchEnds, Watching
  <2>2. CASE Sample
    <3>1. CASE ForcedDown
      <4>1. watch' = [watch EXCEPT !.pc = "cancel", !.players = (reg.joins # {}),
                                   !.force = TRUE, !.reason = "downed"]
        BY <2>2, <3>1 DEF Sample
      <4>2. watch'.pc = "cancel" /\ watch'.reason = "downed"
        BY <4>1 DEF TypeOK, LookType
      <4>3. QED BY <4>2
    <3>2. CASE ~ForcedDown
      BY <2>2, <3>2, LookMoves
    <3>3. QED BY <3>1, <3>2
  <2>3. CASE Judge
    BY <2>3, LookMoves
  <2>4. CASE WatchCancels
    BY <2>4, LookMoves DEF WatchCancels, Cancel
  <2>5. QED BY <1>2, <2>1, <2>2, <2>3, <2>4 DEF Watcher
<1>3. CASE ~Watcher
  <2>1. watch' = watch
    BY <1>3, OthersLeaveLook
  <2>2. reason # "nil" => reason' # "nil"
    BY <1>3 DEF Next, Scanner, Registered, Unregistered, AfterRegistered, AfterUnregistered,
                Attempt, Populated, SettingsChanged, MatchSeen, Uploaded, Disconnected,
                SpecChanges, Cancel, vars
  <2>3. QED BY <1>1, <2>1, <2>2 DEF Watching
<1>4. QED BY <1>2, <1>3

(* A watcher that has ended leaves a lobby that ends (watch.go:25-35, 79). *)
THEOREM OffMeansOver == Spec => []OffForReason
<1>1. Init => OffInv
  BY DEF Init, OffInv, OffForReason, Watching, Waiting
<1>2. IInv => TypeOK
  BY DEF IInv
<1>3. OffInv => OffForReason
  BY DEF OffInv
<1>4. QED BY <1>1, <1>2, <1>3, NextOff, Inductive, PTL DEF Spec

(* With OffMeansOver: a forced down in force ends the lobby within four    *)
(* steps of the watcher, match or no match; what lies behind               *)
(* ForcedDownEnds (watch.go:55).                                           *)
THEOREM ForcedDownIsObeyed == Spec => ForcedDownGoes
<1>1. TypeOK /\ [Next]_vars
        => [ForcedDown => IF Watcher THEN ForcedLeft[watch'.pc] < ForcedLeft[watch.pc]
                          ELSE ForcedLeft[watch'.pc] = ForcedLeft[watch.pc]]_vars
  <2> SUFFICES ASSUME TypeOK, [Next]_vars, ForcedDown
               PROVE  IF Watcher THEN ForcedLeft[watch'.pc] < ForcedLeft[watch.pc]
                      ELSE ForcedLeft[watch'.pc] = ForcedLeft[watch.pc]
    OBVIOUS
  <2>1. CASE ~Watcher
    BY <2>1, OthersLeaveLook
  <2>2. CASE Watcher
    <3>1. \/ watch.pc = "wait" /\ watch'.pc \in {"sample", "off"}
          \/ watch.pc = "sample" /\ watch'.pc = "cancel"
          \/ watch.pc = "judge" /\ watch'.pc \in {"wait", "cancel"}
          \/ watch.pc = "cancel" /\ watch'.pc = "off"
      BY <2>2, LookMoves DEF Watcher
    <3>2. ForcedLeft[watch'.pc] < ForcedLeft[watch.pc]
      BY <3>1, Ranks
    <3>3. QED BY <2>2, <3>2
  <2>3. QED BY <2>1, <2>2
<1>2. IInv => TypeOK
  BY DEF IInv
<1>3. QED BY <1>1, <1>2, Inductive, PTL DEF Spec, ForcedDownGoes

-----------------------------------------------------------------------------
(* The timeouts.                                                           *)

LEMMA LooksType == TypeOK => \A p \in BOOLEAN : LooksLeft(p) \in Nat
BY LookParts, Ranks DEF LooksLeft, Ripe

LEMMA OldGetOlder ==
  ASSUME NEW a \in 0..MaxAge, MaxAge \in Nat
  PROVE  Older(a) \in 0..MaxAge /\ a <= Older(a) /\ (Older(a) = a => a = MaxAge)
BY DEF Older

(* A tick makes the clocks older, unless they are as old as can be told.   *)
LEMMA TickGoes ==
  ASSUME TypeOK, NEW p \in BOOLEAN, Idling(p), Limit(p) < MaxAge, Tick
  PROVE  LooksLeft(p)' < LooksLeft(p)
<1> DEFINE a == Older(age)
           b == Older(keep)
           left == LooksLeft(p)'
<1>1. age' = a /\ keep' = b /\ opts' = opts
  BY DEF Tick, Idling, Keep
<1>2. /\ age \in 0..MaxAge /\ keep \in 0..MaxAge /\ MaxAge \in Nat /\ Limit(p) \in Nat
      /\ a \in 0..MaxAge /\ age <= a /\ (a = age => age = MaxAge)
      /\ b \in 0..MaxAge /\ keep <= b /\ (b = keep => keep = MaxAge)
  BY LookParts, OldGetOlder DEF Limit
<1>3. LooksLeft(p) = 4 * ((MaxAge - age) + (MaxAge - keep)) + 4
  BY LookMoves, Ranks DEF LooksLeft, Ripe
<1>4. watch'.pc = "sample" /\ watch'.since = Younger(a, b)
  BY <1>1, LookMoves
<1> HIDE DEF a, b
<1>5. CASE Limit(p) < Younger(a, b)
  <2>1. left = 3
    BY <1>1, <1>4, <1>5, Ranks DEF LooksLeft, Ripe, Limit
  <2>2. QED BY <1>2, <1>3, <2>1
<1>6. CASE ~(Limit(p) < Younger(a, b))
  <2>1. left = 4 * ((MaxAge - a) + (MaxAge - b)) + 6
    BY <1>1, <1>4, <1>6, Ranks DEF LooksLeft, Ripe, Limit
  <2>2. a < MaxAge \/ b < MaxAge
    BY <1>2, <1>6 DEF Younger
  <2>3. (MaxAge - a) + (MaxAge - b) <= (MaxAge - age) + (MaxAge - keep) - 1
    BY <1>2, <2>2
  <2> HIDE DEF left
  <2>4. QED BY <1>2, <1>3, <2>1, <2>3 DEF left
<1>7. QED BY <1>5, <1>6

LEMMA WatcherGoes ==
  ASSUME TypeOK, NEW p \in BOOLEAN, Idling(p), 0 < Limit(p), Limit(p) < MaxAge, Watcher
  PROVE  LooksLeft(p)' < LooksLeft(p)
<1> DEFINE gap == 4 * ((MaxAge - age) + (MaxAge - keep))
<1>0. gap \in Nat /\ watch.since \in Nat /\ Limit(p) \in Nat
  BY LookParts DEF Limit
<1> HIDE DEF gap
<1>1. CASE Tick
  BY <1>1, TickGoes
<1>2. CASE WatchEnds \/ WatchCancels
  <2>1. LooksLeft(p)' = 0
    BY <1>2, LookMoves DEF LooksLeft
  <2>2. LooksLeft(p) \in {1, gap + 4}
    BY <1>2, LookMoves, Ranks DEF LooksLeft, Ripe, gap
  <2>3. QED BY <1>0, <2>1, <2>2
<1>3. CASE Sample
  <2>1. UNCHANGED <<age, keep, opts>>
    BY <1>3 DEF Sample, scanVars
  <2>2. LooksLeft(p) = IF Limit(p) < watch.since THEN 3 ELSE gap + 6
    BY <1>3, LookMoves, Ranks DEF LooksLeft, Ripe, gap
  <2>3. LooksLeft(p)' \in IF ForcedDown THEN {1} ELSE IF Limit(p) < watch.since THEN {2} ELSE {gap + 5}
    <3>1. CASE ForcedDown
      BY <1>3, <3>1, LookMoves DEF LooksLeft
    <3>2. CASE ~ForcedDown
      <4>1. watch'.pc = "judge" /\ watch'.since = watch.since /\ (p <=> watch'.players)
        BY <1>3, <3>2, LookMoves DEF Idling
      <4>2. Ripe(p)' <=> Limit(p) < watch.since
        BY <2>1, <4>1 DEF Ripe, Limit
      <4>3. QED BY <2>1, <3>2, <4>1, <4>2, Ranks DEF LooksLeft, gap
    <3>3. QED BY <3>1, <3>2
  <2>4. QED BY <1>0, <2>2, <2>3
<1>4. CASE Judge
  <2>1. UNCHANGED <<age, keep, opts>>
    BY <1>4 DEF Judge, scanVars
  <2>2. CASE Due # "nil"
    <3>1. LooksLeft(p)' = 1
      BY <1>4, <2>2, LookMoves DEF LooksLeft
    <3>2. LooksLeft(p) \in {2, gap + 5}
      BY <1>4, LookMoves, Ranks DEF LooksLeft, Ripe, gap
    <3>3. QED BY <1>0, <3>1, <3>2
(* A look that is ripe finds the timeout passed.                           *)
  <2>3. CASE Due = "nil"
    <3>1. ~match
      BY DEF Idling
    <3>2. Overdue = "nil"
      BY <2>3, <3>1 DEF Due
    <3>3. ~Ripe(p)
      BY <1>4, <3>2, LookMoves DEF Overdue, Passed, Ripe, Limit
    <3>4. LooksLeft(p) = gap + 5
      BY <1>4, <3>3, LookMoves, Ranks DEF LooksLeft, gap
    <3>5. LooksLeft(p)' = gap + 4
      BY <1>4, <2>1, <2>3, LookMoves, Ranks DEF LooksLeft, Ripe, gap
    <3>6. QED BY <1>0, <3>4, <3>5
  <2>4. QED BY <2>2, <2>3
<1>5. QED BY <1>1, <1>2, <1>3, <1>4 DEF Watcher

(* Nobody else moves the clock of a room that stays as it is.              *)
LEMMA OthersLeaveLooks ==
  ASSUME NEW p \in BOOLEAN, Idling(p), Idling(p)', [Next]_vars, ~Watcher
  PROVE  LooksLeft(p)' = LooksLeft(p)
<1>1. UNCHANGED <<watch, keep, opts>>
  BY OthersLeaveLook
<1>2. age' = age
  BY DEF Next, Scanner, Registered, Unregistered, AfterRegistered, AfterUnregistered, Attempt,
         Populated, SettingsChanged, MatchSeen, Uploaded, Disconnected, SpecChanges, Collect,
         Uncollected, Idling, scanVars, vars
<1>3. QED BY <1>1, <1>2 DEF LooksLeft, Ripe, Limit

(* With OffMeansOver: a room without players (or with players) and without *)
(* a match that nothing keeps up is ended by its timeout after at most     *)
(* LooksLeft steps of the watcher; what lies behind UnusedEnds and         *)
(* DawdlingEnds, for any timeouts the ages can tell (watch.go:69-73).      *)
THEOREM TimeoutsPass == Spec => IdlingGoes /\ [](\A p \in BOOLEAN : LooksLeft(p) \in Nat)
<1>1. TypeOK /\ [Next]_vars
        => [\A p \in BOOLEAN : Idling(p) /\ Idling(p)' /\ 0 < Limit(p) /\ Limit(p) < MaxAge =>
              IF Watcher THEN LooksLeft(p)' < LooksLeft(p)
              ELSE LooksLeft(p)' = LooksLeft(p)]_vars
  BY WatcherGoes, OthersLeaveLooks
<1>2. IInv => TypeOK
  BY DEF IInv
<1>3. QED BY <1>1, <1>2, LooksType, Inductive, PTL DEF Spec, IdlingGoes
=============================================================================
