------------------------------- MODULE MCFleet -------------------------------
(* Module Fleet with few lobbies: the first may be stopped, and the last   *)
(* may be asked for.                                                       *)
EXTENDS Fleet

FewOrders == [k \in Lobbies |-> IF k = 1 THEN {"stop"} ELSE IF k = N THEN {"up"} ELSE {}]
=============================================================================
