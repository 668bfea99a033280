\* Liveness and refinement, with one collector and a channel of one.
SPECIFICATION FairSpec
CONSTANTS
  Matches = {m1}
  NoMatch = none
  Collectors = {c1}
  QueueCap = 1
  ScanReasons = {"disconnected"}
  WatchReasons = {"timeout"}
  Early = FALSE
  MaxLines = 2
PROPERTIES CancelEnds CtxEnds EveryMatchFiled LifeSpec
