---------------------------- MODULE MCMatchFiles ----------------------------
(* Module MatchFiles with few matches; the first is pushed twice.          *)
EXTENDS MatchFiles, TLC

CONSTANTS t1, t2, c1, c2

Twice == t1 :> 2
TwiceAndOnce == t1 :> 2 @@ t2 :> 1
BothKinds == <<"match", "clean">>
OneKind == <<"match">>
Symmetry == Permutations({c1, c2})
=============================================================================
