------------------------------- MODULE MCLobby -------------------------------
(* Module Lobby on small instances: one reason per source of reasons, and  *)
(* the code's two collectors where matches are the question.               *)
EXTENDS Lobby, TLC

(* Match ids and collectors are interchangeable (no liveness is checked    *)
(* with this).                                                             *)
Interchangeable == Permutations(Matches) \cup Permutations(Collectors)
=============================================================================
