----------------------------- MODULE FleetProofs -----------------------------
(***************************************************************************)
(* Theorems about module Fleet, for any number of lobbies, any size of the *)
(* rooms, any orders and any number of faults.                             *)
(***************************************************************************)
EXTENDS Fleet, TLAPS

(* Nobody is in a lobby that does not run.                                 *)
RoomsOK == \A k \in Lobbies : ~Running(k) => room[k] = 0

IInv == TypeOK /\ RoomsOK /\ Advertised

(* What is true of one lobby, and is not disturbed by the steps of others. *)
Typed(k) ==
  /\ unit[k] \in Phases /\ again[k] \in BOOLEAN /\ crashed[k] \in BOOLEAN
  /\ room[k] \in 0..Most
  /\ stats[k] \in SUBSET Stats
  /\ orders[k] \in SUBSET Files /\ fresh[k] \in SUBSET Files
  /\ seen[k] \in [peer : SUBSET Stats, own : SUBSET Files]
True(k) ==
  /\ ~Running(k) => room[k] = 0
  /\ ~crashed[k] =>
       /\ unit[k] \in {"off", "ask", "peers", "denied", "start", "clean"} => stats[k] = {}
       /\ Running(k) => /\ "up" \in stats[k]
                        /\ "full" \in stats[k] <=> room[k] >= Full
                        /\ "idle" \in stats[k] => room[k] = 0

LEMMA InvParts == IInv => \A k \in Lobbies : Typed(k) /\ True(k)
BY DEF IInv, TypeOK, RoomsOK, Advertised, Typed, True

LEMMA PeerType == IInv => \A k \in Lobbies : Peer(k) \in SUBSET Stats
BY FleetAssumption DEF IInv, TypeOK, Peer, Before, Lobbies

LEMMA InitIInv == Init => IInv
<1>1. Init => TypeOK
  BY FleetAssumption DEF Init, TypeOK, Phases, Nothing
<1>2. Init => RoomsOK /\ Advertised
  BY FleetAssumption DEF Init, RoomsOK, Advertised, Running
<1>3. QED BY <1>1, <1>2 DEF IInv

(* A step of lobby k leaves the others' files and rooms alone, so that it  *)
(* is enough to look at k.                                                 *)
Others(k) ==
  /\ unit' \in [Lobbies -> Phases] /\ again' \in [Lobbies -> BOOLEAN]
  /\ room' \in [Lobbies -> 0..Most] /\ stats' \in [Lobbies -> SUBSET Stats]
  /\ orders' \in [Lobbies -> SUBSET Files] /\ fresh' \in [Lobbies -> SUBSET Files]
  /\ seen' \in [Lobbies -> [peer : SUBSET Stats, own : SUBSET Files]]
  /\ crashed' \in [Lobbies -> BOOLEAN]
  /\ faults' \in 0..MaxFaults
  /\ \A j \in Lobbies \ {k} : /\ unit'[j] = unit[j] /\ room'[j] = room[j]
                              /\ stats'[j] = stats[j] /\ crashed'[j] = crashed[j]

LEMMA OneLobby ==
  ASSUME IInv, NEW k \in Lobbies, Others(k), True(k)' PROVE IInv'
<1>1. TypeOK'
  BY DEF Others, TypeOK
<1>2. \A j \in Lobbies \ {k} : True(j)'
  BY InvParts DEF Others, True, Running
<1>3. QED BY <1>1, <1>2 DEF IInv, RoomsOK, Advertised, True

LEMMA FailsType == ASSUME TypeOK, Fails PROVE faults' \in 0..MaxFaults
BY FleetAssumption DEF TypeOK, Fails

LEMMA StartingKeeps ==
  ASSUME IInv, NEW k \in Lobbies, Starting(k) \/ Nudge(k) \/ StartFails(k) PROVE IInv'
<1> USE DEF Goes, Phases, Running
<1>0. True(k) /\ TypeOK
  BY InvParts DEF IInv
<1>1. CASE Trigger(k) \/ Nudge(k) \/ Ask(k) \/ AskPeers(k) \/ Denied(k)
  <2>1. Others(k)
    BY <1>0, <1>1 DEF TypeOK, Others, Trigger, Nudge, Ask, AskPeers, Denied
  <2>2. True(k)'
    BY <1>0, <1>1 DEF TypeOK, True, Trigger, Nudge, Ask, AskPeers, Denied
  <2>3. QED BY <2>1, <2>2, OneLobby
<1>2. CASE Alloc(k)
  <2>1. [peer |-> Peer(k), own |-> orders[k] \cap {"up"}] \in [peer : SUBSET Stats, own : SUBSET Files]
    BY <1>0, PeerType DEF TypeOK
  <2>2. Others(k)
    BY <1>0, <1>2, <2>1 DEF TypeOK, Others, Alloc
  <2>3. True(k)'
    BY <1>0, <1>2 DEF TypeOK, True, Alloc
  <2>4. QED BY <2>2, <2>3, OneLobby
<1>3. CASE Up(k)
  <2>1. Others(k)
    BY <1>0, <1>3 DEF TypeOK, Others, Up, Stats
  <2>2. room'[k] = 0 /\ (~crashed'[k] => stats'[k] = {"up"})
    BY <1>0, <1>3 DEF TypeOK, True, Up
  <2>3. True(k)'
    <3>1. unit'[k] = "run"
      BY <1>0, <1>3 DEF TypeOK, Up
    <3>2. QED BY <2>2, <3>1, FleetAssumption DEF True
  <2>4. QED BY <2>1, <2>3, OneLobby
<1>4. CASE StartFails(k)
  <2>1. Others(k)
    BY <1>0, <1>4, FailsType DEF TypeOK, Others, StartFails
  <2>2. True(k)'
    BY <1>0, <1>4 DEF TypeOK, True, StartFails
  <2>3. QED BY <2>1, <2>2, OneLobby
<1>5. QED BY <1>1, <1>2, <1>3, <1>4 DEF Starting

LEMMA PlayingKeeps ==
  ASSUME IInv, NEW k \in Lobbies, Playing(k) \/ Refresh(k) PROVE IInv'
<1> USE DEF Running
<1>0. True(k) /\ TypeOK
  BY InvParts DEF IInv
<1>1. CASE Populated(k) \/ Attempt(k)
  <2>1. Others(k)
    BY <1>0, <1>1 DEF TypeOK, Others, Populated, Attempt, Stats
  <2>2. True(k)'
    BY <1>0, <1>1 DEF TypeOK, True, Populated, Attempt
  <2>3. QED BY <2>1, <2>2, OneLobby
<1>2. CASE Join(k)
  <2>1. room[k] \in Nat /\ room[k] + 1 \in 0..Most /\ room' = [room EXCEPT ![k] = room[k] + 1]
    BY <1>0, <1>2, FleetAssumption DEF TypeOK, Join
  <2>2. /\ stats'[k] = (stats[k] \ {"idle"}) \cup (IF room'[k] = Full THEN {"full"} ELSE {})
        /\ stats' \in [Lobbies -> SUBSET Stats]
        /\ \A j \in Lobbies \ {k} : stats'[j] = stats[j]
    BY <1>0, <1>2 DEF TypeOK, Join, Stats
  <2>3. Others(k)
    BY <1>0, <1>2, <2>1, <2>2 DEF TypeOK, Others, Join
  <2>4. room'[k] = room[k] + 1
    BY <1>0, <2>1 DEF TypeOK
  <2>5. True(k)'
    BY <1>0, <1>2, <2>1, <2>2, <2>4, FleetAssumption DEF True, Join
  <2>6. QED BY <2>3, <2>5, OneLobby
<1>3. CASE Leave(k)
  <2>1. room[k] \in Nat /\ room[k] - 1 \in 0..Most /\ room' = [room EXCEPT ![k] = room[k] - 1]
    BY <1>0, <1>3, FleetAssumption DEF TypeOK, Leave
  <2>2. /\ stats'[k] = (IF room'[k] = Full - 1 THEN stats[k] \ {"full"} ELSE stats[k])
                       \cup (IF room'[k] = 0 THEN {"idle"} ELSE {})
        /\ stats' \in [Lobbies -> SUBSET Stats]
        /\ \A j \in Lobbies \ {k} : stats'[j] = stats[j]
    BY <1>0, <1>3 DEF TypeOK, Leave, Stats
  <2>3. Others(k)
    BY <1>0, <1>3, <2>1, <2>2 DEF TypeOK, Others, Leave
  <2>4. room'[k] = room[k] - 1
    BY <1>0, <2>1 DEF TypeOK
  <2>5. True(k)'
    BY <1>0, <1>3, <2>1, <2>2, <2>4, FleetAssumption DEF True, Leave
  <2>6. QED BY <2>3, <2>5, OneLobby
<1>4. CASE Refresh(k)
  <2>1. [peer |-> Peer(k), own |-> fresh[k] \cup (orders[k] \cap {"up"})]
          \in [peer : SUBSET Stats, own : SUBSET Files]
    BY <1>0, PeerType DEF TypeOK
  <2>2. Others(k)
    BY <1>0, <1>4, <2>1 DEF TypeOK, Others, Refresh
  <2>3. True(k)'
    BY <1>0, <1>4 DEF TypeOK, True, Refresh
  <2>4. QED BY <2>2, <2>3, OneLobby
<1>5. QED BY <1>1, <1>2, <1>3, <1>4 DEF Playing

LEMMA EndingKeeps ==
  ASSUME IInv, NEW k \in Lobbies, Told(k) \/ EndsOtherwise(k) \/ Ending(k) \/ Crash(k) PROVE IInv'
<1> USE DEF Goes, Phases, Running
<1>0. True(k) /\ TypeOK
  BY InvParts DEF IInv
<1>1. ASSUME NEW g \in BOOLEAN, Ends(k, g) PROVE IInv'
  <2>1. Others(k)
    BY <1>0, <1>1, FleetAssumption DEF TypeOK, Others, Ends
  <2>2. True(k)'
    BY <1>0, <1>1 DEF TypeOK, True, Ends
  <2>3. QED BY <2>1, <2>2, OneLobby
<1>2. CASE RemoveUp(k)
  <2>1. Others(k)
    BY <1>0, <1>2 DEF TypeOK, Others, RemoveUp
  <2>2. True(k)'
    BY <1>0, <1>2 DEF TypeOK, True, RemoveUp
  <2>3. QED BY <2>1, <2>2, OneLobby
<1>3. Nothing \in [peer : SUBSET Stats, own : SUBSET Files]
  BY DEF Nothing
<1>4. CASE RemoveAll(k)
  <2>1. Others(k)
    BY <1>0, <1>3, <1>4 DEF TypeOK, Others, RemoveAll, Forget
  <2>2. True(k)'
    BY <1>0, <1>4 DEF TypeOK, True, RemoveAll
  <2>3. QED BY <2>1, <2>2, OneLobby
<1>5. CASE Crash(k)
  <2>1. Others(k)
    BY <1>0, <1>3, <1>5, FailsType, FleetAssumption DEF TypeOK, Others, Crash, Forget
  <2>2. True(k)'
    BY <1>0, <1>5 DEF TypeOK, True, Crash
  <2>3. QED BY <2>1, <2>2, OneLobby
<1>6. QED BY <1>1, <1>2, <1>4, <1>5 DEF Told, Downed, Stopped, EndsOtherwise, Ending

LEMMA OrderKeeps ==
  ASSUME IInv, NEW k \in Lobbies, NEW o \in Orders[k], Order(k, o) PROVE IInv'
<1>0. True(k) /\ TypeOK
  BY InvParts DEF IInv
<1>1. o \in Files
  BY FleetAssumption DEF Files
<1>2. orders' \in [Lobbies -> SUBSET Files] /\ fresh' \in [Lobbies -> SUBSET Files]
  <2>1. CASE o \in orders[k]
    BY <1>0, <2>1 DEF TypeOK, Order
  <2>2. CASE o \notin orders[k]
    <3>1. {o} \ {"up"} \in SUBSET Files /\ {o} \in SUBSET Files
      BY <1>1
    <3>2. CASE Live(k)
      BY <1>0, <2>2, <3>1, <3>2 DEF TypeOK, Order
    <3>3. CASE ~Live(k)
      BY <1>0, <2>2, <3>1, <3>3 DEF TypeOK, Order
    <3>4. QED BY <3>2, <3>3
  <2>3. QED BY <2>1, <2>2
<1>3. Others(k)
  BY <1>0, <1>2 DEF TypeOK, Others, Order
<1>4. True(k)'
  BY <1>0 DEF True, Order, Running
<1>5. QED BY <1>3, <1>4, OneLobby

LEMMA Invariant == Spec => []IInv
<1>1. IInv /\ [Next]_vars => IInv'
  <2> SUFFICES ASSUME IInv, [Next]_vars PROVE IInv'
    OBVIOUS
  <2>1. CASE UNCHANGED vars
    BY <2>1 DEF vars, IInv, TypeOK, RoomsOK, Advertised, Running
  <2>2. CASE Next
    BY <2>2, StartingKeeps, PlayingKeeps, EndingKeeps, OrderKeeps DEF Next, Trouble
  <2>3. QED BY <2>1, <2>2
<1>2. QED BY InitIInv, <1>1, PTL DEF Spec

-----------------------------------------------------------------------------
(* Theorems.                                                               *)

(* Every reachable state is well typed: however players come and go, the   *)
(* rooms stay within their size.                                           *)
THEOREM TypeCorrect == Spec => []TypeOK
<1>1. IInv => TypeOK
  BY DEF IInv
<1>2. QED BY <1>1, Invariant, PTL

(* The stats that peers, path units and conditions act upon are true of    *)
(* every lobby that was not killed (lobby.go:263-281, scan.go:195-240).    *)
THEOREM StatsAreTrue == Spec => []Advertised
<1>1. IInv => Advertised
  BY DEF IInv
<1>2. QED BY <1>1, Invariant, PTL
-----------------------------------------------------------------------------
(* What starting and stopping rest on.                                     *)

(* When the last lobby is over, nothing keeps the first one from starting  *)
(* but what the last one left when it was killed.                          *)
FirstMayStart == ~Live(N) /\ ~LeftBehind => ~Enough(1)

(* The one after a full lobby is wanted, and no peer denies it.            *)
SuccessorMayStart == \A k \in Lobbies :
  N > 1 /\ Running(k) /\ room[k] >= Full => Wanted(After(k)) /\ ~Enough(After(k))

(* A surplus lobby that looks around finds that it has to stop.            *)
HasToStop(k) == room[k] = 0 /\ ~Kept(k) /\ "up" \in seen[k].peer
SurplusNoticed == [][\A k \in Lobbies : Refresh(k) /\ Surplus(k) => HasToStop(k)']_vars

(* A lobby that is there was not killed since, and "up" is never an order  *)
(* against it.                                                             *)
LiveInv == \A k \in Lobbies : (Live(k) => ~crashed[k]) /\ "up" \notin fresh[k]

LEMMA NextLive == IInv /\ LiveInv /\ [Next]_vars => LiveInv'
<1> SUFFICES ASSUME TypeOK, LiveInv, [Next]_vars PROVE LiveInv'
  BY DEF IInv
<1> USE DEF TypeOK, LiveInv, Live, Goes
<1>1. CASE UNCHANGED vars
  BY <1>1 DEF vars
<1>2. ASSUME NEW k \in Lobbies, Trigger(k) \/ Nudge(k) \/ Ask(k) \/ AskPeers(k) \/ Denied(k)
      PROVE  LiveInv'
  BY <1>2 DEF Trigger, Nudge, Ask, AskPeers, Denied
<1>3. ASSUME NEW k \in Lobbies, Alloc(k) \/ Up(k) \/ StartFails(k) PROVE LiveInv'
  BY <1>3 DEF Alloc, Up, StartFails
<1>4. ASSUME NEW k \in Lobbies, Playing(k) \/ Refresh(k) PROVE LiveInv'
  BY <1>4 DEF Playing, Populated, Attempt, Join, Leave, Refresh
<1>5. ASSUME NEW k \in Lobbies, Told(k) \/ EndsOtherwise(k) PROVE LiveInv'
  BY <1>5 DEF Told, Downed, Stopped, EndsOtherwise, Ends
<1>6. ASSUME NEW k \in Lobbies, Ending(k) PROVE LiveInv'
  BY <1>6 DEF Ending, RemoveUp, RemoveAll, Forget
<1>7. ASSUME NEW k \in Lobbies, Crash(k) PROVE LiveInv'
  BY <1>7 DEF Crash, Forget
<1>8. ASSUME NEW k \in Lobbies, NEW o \in Orders[k], Order(k, o) PROVE LiveInv'
  <2>1. UNCHANGED <<unit, crashed>>
    BY <1>8 DEF Order
  <2>2. \A j \in Lobbies : "up" \notin fresh'[j]
    <3>1. CASE o \in orders[k]
      BY <1>8, <3>1 DEF Order
    <3>2. CASE o \notin orders[k]
      <4>1. fresh' = [fresh EXCEPT ![k] = fresh[k] \cup ({o} \ {"up"})] \/ fresh' = fresh
        BY <1>8, <3>2 DEF Order
      <4>2. QED BY <4>1
    <3>3. QED BY <3>1, <3>2
  <2>3. QED BY <2>1, <2>2
<1>9. QED
  BY <1>1, <1>2, <1>3, <1>4, <1>5, <1>6, <1>7, <1>8 DEF Next, Starting, Trouble

LEMMA LiveInvariant == Spec => []LiveInv
<1>1. Init => LiveInv
  BY DEF Init, LiveInv, Live
<1>2. QED BY <1>1, NextLive, Invariant, PTL DEF Spec

LEMMA Ring == \A k \in Lobbies : After(k) \in Lobbies /\ Before(After(k)) = k
BY FleetAssumption DEF After, Before, Lobbies

(* The first lobby is denied its start only by a peer that is there, or    *)
(* was killed: what lies behind Served, for a ring of any size (the        *)
(* ExecConditions of the service).                                         *)
THEOREM FirstIsNotKeptOut == Spec => []FirstMayStart
<1>1. IInv => FirstMayStart
  <2> SUFFICES ASSUME IInv, ~Live(N), ~LeftBehind, N # 1 PROVE ~Enough(1)
    BY DEF FirstMayStart, Enough, Peer
  <2>1. N \in Lobbies /\ N > 1
    BY FleetAssumption DEF Lobbies
  <2>2. ~crashed[N]
    BY <2>1 DEF LeftBehind, Live, Running
  <2>3. unit[N] \in {"off", "ask", "peers", "denied", "start"}
    BY <2>1 DEF IInv, TypeOK, Phases, Live
  <2>4. stats[N] = {}
    BY <2>1, <2>2, <2>3 DEF IInv, Advertised
  <2>5. Peer(1) = {}
    BY <2>1, <2>4 DEF Peer, Before
  <2>6. QED BY <2>5 DEF Enough
<1>2. QED BY <1>1, Invariant, PTL

(* While a lobby is full its successor is wanted and not denied by a peer, *)
(* so that only an order keeps it away: what lies behind RoomElsewhere     *)
(* (the path unit's peer/full and the second ExecCondition).               *)
THEOREM SuccessorIsNotKeptOut == Spec => []SuccessorMayStart
<1>1. IInv /\ LiveInv => SuccessorMayStart
  <2> SUFFICES ASSUME IInv, LiveInv, NEW k \in Lobbies, N > 1, Running(k), room[k] >= Full
               PROVE  Wanted(After(k)) /\ ~Enough(After(k))
    BY DEF SuccessorMayStart
  <2>1. ~crashed[k]
    BY DEF LiveInv, Live, Running
  <2>2. "full" \in stats[k] /\ "idle" \notin stats[k]
    BY <2>1, FleetAssumption DEF IInv, TypeOK, Advertised
  <2>3. Peer(After(k)) = stats[k]
    BY Ring DEF Peer
  <2>4. QED BY <2>2, <2>3 DEF Wanted, Enough
<1>2. QED BY <1>1, Invariant, LiveInvariant, PTL

(* A lobby nobody needs learns from its next look around that it has to    *)
(* stop, and nothing it knows of its own orders stands against it: what    *)
(* lies behind NoSurplus (spec.go:74, 104, watch.go:47-78).                *)
THEOREM SurplusIsNoticed == Spec => SurplusNoticed
<1>1. IInv /\ LiveInv /\ [Next]_vars
        => [\A k \in Lobbies : Refresh(k) /\ Surplus(k) => HasToStop(k)']_vars
  <2> SUFFICES ASSUME IInv, LiveInv, NEW k \in Lobbies, Refresh(k), Surplus(k)
               PROVE  HasToStop(k)'
    OBVIOUS
  <2>1. seen'[k] = [peer |-> Peer(k), own |-> fresh[k] \cup (orders[k] \cap {"up"})]
        /\ room' = room
    BY DEF Refresh, IInv, TypeOK
  <2>2. seen'[k].peer = Peer(k) /\ "up" \notin seen'[k].own
    BY <2>1 DEF Surplus, LiveInv
  <2>3. QED BY <2>1, <2>2 DEF HasToStop, Kept, Surplus
<1>2. QED BY <1>1, Invariant, LiveInvariant, PTL DEF Spec, SurplusNoticed
=============================================================================
