----------------------------- MODULE MCDirWatch -----------------------------
(* Module DirWatch on a directory with one link: the key "stop" is in the  *)
(* directory itself, "peer/idle" behind the link to the peer's stats. Two  *)
(* events fill the kernel's queue, so that one change more is lost.        *)
EXTENDS DirWatch

CONSTANTS RootDir, PeerDir, StopKey, IdleKey

MCDirs == {RootDir, PeerDir}
MCKeys == {StopKey, IdleKey}
MCDirOf == [k \in MCKeys |-> IF k = StopKey THEN RootDir ELSE PeerDir]
=============================================================================
