------------------------------ MODULE DirFiles ------------------------------
(***************************************************************************)
(* The files of a watched directory and what each of them says: shared by  *)
(* the watcher in detail (DirWatch) and by what it promises (Mirror). A    *)
(* key is a file name below the directory, such as "up" or "peer/idle".    *)
(***************************************************************************)
CONSTANTS
  Keys,      \* the names Spec.Watch or Options.Watch know
  Good,      \* contents that decode, each to a value of its own
  Default,   \* the value before the first file is read, and after the last
  Zero       \* what a decoder leaves behind that fails half-way

Blank == "blank"       \* no such file, or an empty one
Garbled == "garbled"   \* contents that do not decode

Contents == Good \cup {Blank, Garbled}
Values == Good \cup {Default, Zero}

ASSUME FilesAssumption == Blank \notin Good /\ Garbled \notin Good

(* The values a key with value old may have once contents c are read.      *)
(* json.Unmarshal leaves the old value alone, or zeroes a time;            *)
(* time.ParseDuration returns zero. The mutant takes everything as it is.  *)
MeaningsRaw(c, old) == IF c = Blank THEN {Default} ELSE {c}
Meanings(c, old) ==
  IF c = Blank THEN {Default} ELSE IF c = Garbled THEN {old, Zero} ELSE {c}
=============================================================================
