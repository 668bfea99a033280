\* One player joins while the watcher decides.
SPECIFICATION FairSpec
CONSTANTS
  Humans = {1001}
  Bots = {}
  Garbage = 0
  Options <- MCOptions
  SpecKinds = {"up", "forcedown", "stop"}
  Full = 2
  MaxAge = 2
PROPERTY IdleNotKicked
