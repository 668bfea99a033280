\* Two keys in two directories, two changes.
SPECIFICATION FairSpec
CONSTANTS
  RootDir = RootDir
  PeerDir = PeerDir
  StopKey = StopKey
  IdleKey = IdleKey
  Keys <- MCKeys
  Dirs <- MCDirs
  DirOf <- MCDirOf
  Root <- RootDir
  Good = {g1}
  Default = Default
  Zero = Zero
  NoKey = NoKey
  Overflow = Overflow
  QueueCap = 2
  MaxChanges = 2
INVARIANTS TypeOK Current
PROPERTIES Followed StopEnds MirrorSpec
