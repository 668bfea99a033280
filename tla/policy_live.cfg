\* One player.
SPECIFICATION FairSpec
CONSTANTS
  Humans = {1001}
  Bots = {}
  Garbage = 0
  Options <- MCOptions
  SpecKinds = {"up", "forcedown", "stop"}
  Full = 2
  MaxAge = 2
PROPERTIES KeptUp UnusedEnds DawdlingEnds ForcedDownEnds
