------------------------------- MODULE Mirror -------------------------------
(***************************************************************************)
(* What Spec.Watch and Options.Watch promise: each value says what its     *)
(* file says, except for keys that are stale, and once the watch is over   *)
(* every value is the default again. Files change whenever they like.      *)
(* Module DirWatch implements this (DirWatch!MirrorSpec).                  *)
(***************************************************************************)
EXTENDS DirFiles

VARIABLES
  file,    \* the contents of each file
  value,   \* the value of each key
  stale,   \* the keys whose value need not agree with the file
  phase    \* "on", "ending" (nobody looks any more) or "off" (all is reset)

vars == <<file, value, stale, phase>>

Init == /\ file \in [Keys -> Contents]
        /\ value = [k \in Keys |-> Default]
        /\ stale = Keys
        /\ phase = "on"

Change(k, c) == /\ file' = [file EXCEPT ![k] = c]
                /\ stale' = stale \cup {k}
                /\ UNCHANGED <<value, phase>>

(* A stale key is read; it may stay stale until it is read once more.      *)
Refresh(k) == /\ phase # "off"
              /\ \E v \in Meanings(file[k], value[k]) : value' = [value EXCEPT ![k] = v]
              /\ stale' \in {stale, stale \ {k}}
              /\ UNCHANGED <<file, phase>>

(* Keys turn out to be right as they are.                                  *)
Confirm(S) == /\ \A k \in S : value[k] \in Meanings(file[k], value[k])
              /\ stale' = stale \ S
              /\ UNCHANGED <<file, value, phase>>

End == /\ phase = "on" /\ phase' = "ending"
       /\ stale' = Keys
       /\ UNCHANGED <<file, value>>

Reset == /\ phase # "off" /\ phase' = "off"
         /\ value' = [k \in Keys |-> Default]
         /\ stale' = Keys
         /\ UNCHANGED file

Next == \/ \E k \in Keys, c \in Contents : Change(k, c)
        \/ \E k \in Keys : Refresh(k)
        \/ \E S \in SUBSET Keys : Confirm(S)
        \/ End
        \/ Reset

Spec == Init /\ [][Next]_vars
=============================================================================
