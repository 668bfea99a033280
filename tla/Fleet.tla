-------------------------------- MODULE Fleet --------------------------------
(***************************************************************************)
(* The lobbies of one host as hack/install.sh sets them up, each a systemd *)
(* service with a path unit, in a ring: the stat directory of the lobby    *)
(* before (the peer) is part of a lobby's spec directory, and that of the  *)
(* last one part of the first one's. Only the first has flag/up and is to  *)
(* be there always; the others come and go with the demand.                *)
(*                                                                         *)
(* How one lobby keeps its room and decides is LobbyPolicy's business, how *)
(* it reads a directory is DirWatch's; here a lobby shows the stats its    *)
(* peer reads and ends for the reasons its peer gives it.                  *)
(***************************************************************************)
EXTENDS Integers, FiniteSets

CONSTANTS
  N,           \* how many lobbies
  Full,        \* players at which "full" is advertised (10)
  Most,        \* how many players there can be
  Orders,      \* for each lobby: the spec files among "up", "down" and
               \* "stop" that come and go
  MaxFaults    \* bound: starts that fail, and kills

Lobbies == 1..N

Stats == {"up", "idle", "full"}
Files == {"up", "down", "stop"}

ASSUME FleetAssumption ==
  /\ N \in Nat \ {0}
  /\ Full \in Nat \ {0} /\ Most \in Nat /\ Full <= Most
  /\ Orders \in [Lobbies -> SUBSET Files]
  /\ MaxFaults \in Nat

VARIABLES
  unit,     \* the service: "off", "ask" and "peers" (the two ExecConditions),
            \* "denied" (sleeping), "start", "clean", "run", "end" (the child
            \* is gone), "ended" (and "up" is removed)
  again,    \* will the supervisor go on with another run?
  room,     \* the number of players
  stats,    \* the files in the stat directory
  orders,   \* the orders in the spec directory (or, for down, in flag)
  fresh,    \* those of them that are younger than the run
  seen,     \* what the watcher knows: [peer |-> stats, own |-> orders]
  crashed,  \* history: killed, and not started since
  faults    \* history: starts that failed, and kills

vars == <<unit, again, room, stats, orders, fresh, seen, crashed, faults>>

Phases == {"off", "ask", "peers", "denied", "start", "clean", "run", "end", "ended"}

TypeOK ==
  /\ unit \in [Lobbies -> Phases]
  /\ again \in [Lobbies -> BOOLEAN]
  /\ room \in [Lobbies -> 0..Most]
  /\ stats \in [Lobbies -> SUBSET Stats]
  /\ orders \in [Lobbies -> SUBSET Files]
  /\ fresh \in [Lobbies -> SUBSET Files]
  /\ seen \in [Lobbies -> [peer : SUBSET Stats, own : SUBSET Files]]
  /\ crashed \in [Lobbies -> BOOLEAN]
  /\ faults \in 0..MaxFaults

Nothing == [peer |-> {}, own |-> {}]

Init ==
  /\ unit = [k \in Lobbies |-> "off"]
  /\ again = [k \in Lobbies |-> FALSE]
  /\ room = [k \in Lobbies |-> 0]
  /\ stats = [k \in Lobbies |-> {}]
  /\ orders = [k \in Lobbies |-> {}] /\ fresh = [k \in Lobbies |-> {}]
  /\ seen = [k \in Lobbies |-> Nothing]
  /\ crashed = [k \in Lobbies |-> FALSE]
  /\ faults = 0

-----------------------------------------------------------------------------
(* The ring. A lobby that is alone has no peer.                            *)
Before(k) == IF k = 1 THEN N ELSE k - 1
Peer(k) == IF N = 1 THEN {} ELSE stats[Before(k)]

Flagged(k) == k = 1

Goes(k, from, to) == unit[k] = from /\ unit' = [unit EXCEPT ![k] = to]
Fails == faults < MaxFaults /\ faults' = faults + 1

-----------------------------------------------------------------------------
(* systemd                                                                 *)

(* The path unit: the service is off and one of its files is there. The    *)
(* mutant does not know about full peers.                                  *)
WantedAlone(k) == Flagged(k) \/ "up" \in orders[k]
Wanted(k) == Flagged(k) \/ "up" \in orders[k] \/ "full" \in Peer(k)

Trigger(k) ==
  /\ Wanted(k)
  /\ Goes(k, "off", "ask")
  /\ UNCHANGED <<again, room, stats, orders, fresh, seen, crashed, faults>>

(* The timer, or somebody touches a restart file.                          *)
Nudge(k) ==
  /\ Goes(k, "off", "ask")
  /\ UNCHANGED <<again, room, stats, orders, fresh, seen, crashed, faults>>

(* The first condition: no orders against it ...                           *)
Forbidden(k) ==
  \/ Flagged(k) /\ "stop" \in orders[k] /\ "up" \notin orders[k]
  \/ "down" \in orders[k]

Ask(k) ==
  /\ Goes(k, "ask", IF Forbidden(k) THEN "denied" ELSE "peers")
  /\ UNCHANGED <<again, room, stats, orders, fresh, seen, crashed, faults>>

(* ... and the second: no peer that will do.                               *)
Enough(k) ==
  \/ Flagged(k) /\ "up" \in Peer(k) /\ "full" \notin Peer(k)
  \/ "idle" \in Peer(k)

AskPeers(k) ==
  /\ Goes(k, "peers", IF Enough(k) THEN "denied" ELSE "start")
  /\ UNCHANGED <<again, room, stats, orders, fresh, seen, crashed, faults>>

(* A condition that does not hold sleeps before it says so.                *)
Denied(k) ==
  /\ Goes(k, "denied", "off")
  /\ UNCHANGED <<again, room, stats, orders, fresh, seen, crashed, faults>>

(* The update, alloc or the child's start fails.                           *)
StartFails(k) ==
  /\ Goes(k, "start", "off") /\ Fails
  /\ again' = [again EXCEPT ![k] = FALSE]
  /\ UNCHANGED <<room, stats, orders, fresh, seen, crashed>>

-----------------------------------------------------------------------------
(* A run                                                                   *)

(* alloc reads the spec, and old stats are removed ...                     *)
Alloc(k) ==
  /\ Goes(k, "start", "clean")
  /\ seen' = [seen EXCEPT ![k] = [peer |-> Peer(k), own |-> orders[k] \cap {"up"}]]
  /\ stats' = [stats EXCEPT ![k] = {}]
  /\ crashed' = [crashed EXCEPT ![k] = FALSE]
  /\ UNCHANGED <<again, room, orders, fresh, faults>>

(* ... before the child is there.                                          *)
Up(k) ==
  /\ Goes(k, "clean", "run")
  /\ stats' = [stats EXCEPT ![k] = @ \cup {"up"}]
  /\ UNCHANGED <<again, room, orders, fresh, seen, crashed, faults>>

Running(k) == unit[k] = "run"
Live(k) == unit[k] \in {"clean", "run", "end", "ended"}

(* "Finished populating pool".                                             *)
Populated(k) ==
  /\ Running(k) /\ room[k] = 0
  /\ stats' = [stats EXCEPT ![k] = @ \cup {"idle"}]
  /\ UNCHANGED <<unit, again, room, orders, fresh, seen, crashed, faults>>

(* Somebody tries to get in.                                               *)
Attempt(k) ==
  /\ Running(k)
  /\ stats' = [stats EXCEPT ![k] = @ \ {"idle"}]
  /\ UNCHANGED <<unit, again, room, orders, fresh, seen, crashed, faults>>

(* The mutant lets in one too many.                                        *)
JoinOver(k) ==
  /\ Running(k) /\ room[k] <= Most
  /\ room' = [room EXCEPT ![k] = @ + 1]
  /\ stats' = [stats EXCEPT ![k] = (@ \ {"idle"}) \cup IF room'[k] = Full THEN {"full"} ELSE {}]
  /\ UNCHANGED <<unit, again, orders, fresh, seen, crashed, faults>>
Join(k) ==
  /\ Running(k) /\ room[k] < Most
  /\ room' = [room EXCEPT ![k] = @ + 1]
  /\ stats' = [stats EXCEPT ![k] = (@ \ {"idle"}) \cup IF room'[k] = Full THEN {"full"} ELSE {}]
  /\ UNCHANGED <<unit, again, orders, fresh, seen, crashed, faults>>

(* The last one leaves an idle lobby behind. The mutant lets it look full. *)
LeaveFull(k) ==
  /\ Running(k) /\ room[k] > 0
  /\ room' = [room EXCEPT ![k] = @ - 1]
  /\ stats' = [stats EXCEPT ![k] = @ \cup IF room'[k] = 0 THEN {"idle"} ELSE {}]
  /\ UNCHANGED <<unit, again, orders, fresh, seen, crashed, faults>>
Leave(k) ==
  /\ Running(k) /\ room[k] > 0
  /\ room' = [room EXCEPT ![k] = @ - 1]
  /\ stats' = [stats EXCEPT ![k] = (IF room'[k] = Full - 1 THEN @ \ {"full"} ELSE @)
                                   \cup IF room'[k] = 0 THEN {"idle"} ELSE {}]
  /\ UNCHANGED <<unit, again, orders, fresh, seen, crashed, faults>>

(* The watcher finds out what has changed.                                 *)
Refresh(k) ==
  /\ Running(k)
  /\ seen' = [seen EXCEPT ![k] =
                [peer |-> Peer(k), own |-> fresh[k] \cup (orders[k] \cap {"up"})]]
  /\ UNCHANGED <<unit, again, room, stats, orders, fresh, crashed, faults>>

(* A run is over. Whether the supervisor starts another one, g, is for it  *)
(* to say.                                                                 *)
Ends(k, g) ==
  /\ Goes(k, "run", "end")
  /\ again' = [again EXCEPT ![k] = g]
  /\ room' = [room EXCEPT ![k] = 0]
  /\ UNCHANGED <<stats, orders, fresh, seen, crashed, faults>>

Kept(k) == "up" \in seen[k].own \/ "full" \in seen[k].peer

(* An empty lobby goes when it is told to, or when its peer is idle ...    *)
Downed(k) ==
  /\ room[k] = 0
  /\ "down" \in seen[k].own \/ "idle" \in seen[k].peer
  /\ Ends(k, FALSE)

(* ... or, after its grace, when its peer is up at all. The mutant waits   *)
(* for an order.                                                           *)
StoppedOrdered(k) ==
  /\ room[k] = 0 /\ ~Kept(k)
  /\ "stop" \in seen[k].own
  /\ Ends(k, FALSE)
Stopped(k) ==
  /\ room[k] = 0 /\ ~Kept(k)
  /\ "stop" \in seen[k].own \/ "up" \in seen[k].peer
  /\ Ends(k, FALSE)

(* A timeout, for the empty or the dawdling; the last one left a room that *)
(* had been changed; a restart was asked for; the child ends by itself.    *)
EndsOtherwise(k) == \E g \in BOOLEAN : Ends(k, g)

(* With the run its view of the spec is gone.                              *)
Forget(k) == /\ seen' = [seen EXCEPT ![k] = Nothing]
             /\ fresh' = [fresh EXCEPT ![k] = {}]

(* The deferred calls: "up" first, then all that is left. The mutant       *)
(* leaves it.                                                              *)
RemoveUp(k) ==
  /\ Goes(k, "end", "ended")
  /\ stats' = [stats EXCEPT ![k] = @ \ {"up"}]
  /\ UNCHANGED <<again, room, orders, fresh, seen, crashed, faults>>

RemoveNone(k) ==
  /\ Goes(k, "ended", IF again[k] THEN "start" ELSE "off")
  /\ again' = [again EXCEPT ![k] = FALSE]
  /\ Forget(k)
  /\ UNCHANGED <<room, stats, orders, crashed, faults>>
RemoveAll(k) ==
  /\ Goes(k, "ended", IF again[k] THEN "start" ELSE "off")
  /\ again' = [again EXCEPT ![k] = FALSE]
  /\ stats' = [stats EXCEPT ![k] = {}]
  /\ Forget(k)
  /\ UNCHANGED <<room, orders, crashed, faults>>

(* The supervisor is killed: its stats stay.                               *)
Crash(k) ==
  /\ Live(k) /\ Fails
  /\ unit' = [unit EXCEPT ![k] = "off"]
  /\ again' = [again EXCEPT ![k] = FALSE]
  /\ room' = [room EXCEPT ![k] = 0]
  /\ crashed' = [crashed EXCEPT ![k] = TRUE]
  /\ Forget(k)
  /\ UNCHANGED <<stats, orders>>

(* An order comes or goes. A run heeds down and stop only if they are      *)
(* younger than itself.                                                    *)
Order(k, o) ==
  /\ IF o \in orders[k]
     THEN /\ orders' = [orders EXCEPT ![k] = @ \ {o}]
          /\ fresh' = [fresh EXCEPT ![k] = @ \ {o}]
     ELSE /\ orders' = [orders EXCEPT ![k] = @ \cup {o}]
          /\ fresh' = [fresh EXCEPT ![k] = IF Live(k) THEN @ \cup ({o} \ {"up"}) ELSE @]
  /\ UNCHANGED <<unit, again, room, stats, seen, crashed, faults>>

Starting(k) == Trigger(k) \/ Ask(k) \/ AskPeers(k) \/ Denied(k) \/ Alloc(k) \/ Up(k)
Told(k) == Downed(k) \/ Stopped(k)
Ending(k) == RemoveUp(k) \/ RemoveAll(k)
Playing(k) == Populated(k) \/ Attempt(k) \/ Join(k) \/ Leave(k)
Trouble(k) == StartFails(k) \/ Crash(k)

Next == \E k \in Lobbies :
  \/ Starting(k) \/ Nudge(k)
  \/ Playing(k) \/ Refresh(k)
  \/ Told(k) \/ EndsOtherwise(k)
  \/ Ending(k)
  \/ Trouble(k)
  \/ \E o \in Orders[k] : Order(k, o)

Spec == Init /\ [][Next]_vars

(* systemd and the lobbies go on; players, timeouts and orders need not    *)
(* come.                                                                   *)
FairSpec == /\ Spec
            /\ \A k \in Lobbies : /\ WF_vars(Starting(k)) /\ WF_vars(Refresh(k))
                                  /\ WF_vars(Told(k)) /\ WF_vars(Ending(k))

-----------------------------------------------------------------------------
(* Properties                                                              *)

(* What peers and path units see of a lobby that was not killed is true:   *)
(* nothing once it is over, "full" from Full players on, and never "idle"  *)
(* with players inside (lobby.go:263-281, scan.go:195-240).                *)
Advertised == \A k \in Lobbies : ~crashed[k] =>
  /\ unit[k] \in {"off", "ask", "peers", "denied", "start", "clean"} => stats[k] = {}
  /\ Running(k) => /\ "up" \in stats[k]
                   /\ "full" \in stats[k] <=> room[k] >= Full
                   /\ "idle" \in stats[k] => room[k] = 0

(* There is always a lobby again, if the first is not forbidden: the only  *)
(* thing that can prevent it is what the last one left behind when it was  *)
(* killed (the ExecConditions of the service).                             *)
LeftBehind == N > 1 /\ crashed[N] /\ ~Running(N)
Served == <>[]~Forbidden(1) => []<>(LeftBehind \/ \E k \in Lobbies : Running(k))

(* While a lobby is full the next one is started, again and again if it    *)
(* must be (the path unit's peer/full).                                    *)
After(k) == IF k = N THEN 1 ELSE k + 1
RoomElsewhere == \A k \in Lobbies :
  <>[](Running(k) /\ room[k] >= Full) /\ <>[]~Forbidden(After(k)) => []<>Running(After(k))

(* A lobby nobody is in does not last when its peer is there and has room, *)
(* unless it is told to (spec.go:74, 104, watch.go:47-78).                 *)
Surplus(k) ==
  /\ Running(k) /\ room[k] = 0 /\ "up" \notin orders[k]
  /\ "up" \in Peer(k) /\ "full" \notin Peer(k)
NoSurplus == \A k \in Lobbies : ~<>[]Surplus(k)
=============================================================================
