------------------------------ MODULE LobbyLife ------------------------------
(***************************************************************************)
(* What internal/lobby.Run promises its caller, without saying how: while  *)
(* the lobby is open anyone may blame it for one reason, the first blame   *)
(* is the one that counts, the error that Run returns is settled once and  *)
(* is that first blame if there was one by then, and a blamed lobby ends.  *)
(* Module Lobby implements this (Lobby!LifeSpec).                          *)
(***************************************************************************)
CONSTANT Blames         \* the real reasons; neither "nil" nor "done" is one

Clean == {"nil", "done"}
Undecided == "none"

VARIABLES phase,        \* "open", "settled" (result fixed) or "ended" (Run returned)
          verdict,      \* the first blame, or Undecided
          result        \* the error Run returns, or Undecided before it is fixed

vars == <<phase, verdict, result>>

TypeOK == /\ phase \in {"open", "settled", "ended"}
          /\ verdict \in Blames \cup {Undecided}
          /\ result \in Blames \cup Clean \cup {Undecided}

Init == /\ phase = "open"
        /\ verdict = Undecided
        /\ result = Undecided

(* Somebody gives the first real reason; later ones change nothing.        *)
Blame(r) == /\ phase # "ended"
            /\ verdict = Undecided
            /\ verdict' = r
            /\ UNCHANGED <<phase, result>>

(* The result is fixed: the verdict if there is one, otherwise a clean     *)
(* result or the reason r found while settling, which becomes the verdict. *)
Outcome(r) == IF verdict # Undecided THEN verdict ELSE r

Settle(r) == /\ phase = "open"
             /\ phase' = "settled"
             /\ result' = Outcome(r)
             /\ verdict' = IF Outcome(r) \in Clean THEN verdict ELSE Outcome(r)

(* Run gives up before anything was started.                               *)
Refuse(r) == /\ phase = "open"
             /\ verdict = Undecided
             /\ phase' = "ended"
             /\ verdict' = r
             /\ result' = r

End == /\ phase = "settled"
       /\ phase' = "ended"
       /\ UNCHANGED <<verdict, result>>

SettleSome == \E r \in Blames \cup Clean : Settle(r)

Next == \/ \E r \in Blames : Blame(r) \/ Refuse(r)
        \/ SettleSome
        \/ End

Spec == Init /\ [][Next]_vars

(* A blamed lobby is not left open, and a settled one ends.                *)
FairSpec == Spec /\ WF_vars(verdict # Undecided /\ SettleSome) /\ WF_vars(End)
=============================================================================
