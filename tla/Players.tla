------------------------------- MODULE Players -------------------------------
(***************************************************************************)
(* The registry of internal/lobby/players.go, as functions of its value:   *)
(* who is in the lobby and which of them is the admin. Each operation runs *)
(* under the registry's mutex, so each is one step of whoever calls it.    *)
(***************************************************************************)
EXTENDS Naturals, FiniteSets

CONSTANTS Humans,       \* ids of human players (1000 and above in the code)
          Bots,         \* ids of bots (1 to 999)
          Garbage       \* an id that is neither: text, zero or negative

NoOne == 0

ASSUME PlayersAssumption == /\ Humans \subseteq Nat \ {NoOne}
                            /\ IsFiniteSet(Humans)
                            /\ Bots \subseteq Nat \ {NoOne}
                            /\ Humans \cap Bots = {}
                            /\ Garbage \notin Humans \cup Bots

Ids == Humans \cup Bots \cup {Garbage}

Registry == [bots : SUBSET Bots, joins : SUBSET Humans, admin : Humans \cup {NoOne}]

Nobody == [bots |-> {}, joins |-> {}, admin |-> NoOne]

(* Mutant of Add: whoever joins becomes the admin.                         *)
AddAsAdmin(reg, id) ==
  IF id \in Bots THEN [reg EXCEPT !.bots = @ \cup {id}]
  ELSE IF id \in Humans THEN [reg EXCEPT !.joins = @ \cup {id}, !.admin = id]
  ELSE reg

(* The first human to join an empty room becomes its admin.                *)
Add(reg, id) ==
  IF id \in Bots THEN [reg EXCEPT !.bots = @ \cup {id}]
  ELSE IF id \in Humans
  THEN [reg EXCEPT !.joins = @ \cup {id},
                   !.admin = IF reg.joins = {} THEN id ELSE @]
  ELSE reg

HeirNobody(joins) == NoOne              \* mutant: no one takes over

(* migrate: when the admin leaves, the lowest id left takes over.          *)
Heir(joins) == IF joins = {} THEN NoOne
               ELSE CHOOSE p \in joins : \A q \in joins : p <= q

Remove(reg, id) ==
  IF id \in reg.bots THEN [reg EXCEPT !.bots = @ \ {id}]
  ELSE IF id \in reg.joins
  THEN [reg EXCEPT !.joins = @ \ {id},
                   !.admin = IF id = reg.admin THEN Heir(reg.joins \ {id}) ELSE @]
  ELSE reg

(* Add and Remove answer -1 for an id they cannot place.                   *)
CanAdd(id) == id \in Bots \cup Humans
CanRemove(reg, id) == id \in reg.bots \cup reg.joins

(* The last result of Remove: was it the admin who left?                   *)
AdminLeaves(reg, id) == id \notin reg.bots /\ id \in reg.joins /\ id = reg.admin

CountAll(reg) == Cardinality(reg.joins) + Cardinality(reg.bots)  \* mutant: bots too
Count(reg) == Cardinality(reg.joins)
=============================================================================
