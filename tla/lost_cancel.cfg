\* As lobby_live, but the watcher may tick and the child write before Start has returned.
SPECIFICATION FairSpec
CONSTANTS
  Matches = {m1}
  NoMatch = none
  Collectors = {c1}
  QueueCap = 1
  ScanReasons = {"disconnected"}
  WatchReasons = {"timeout"}
  Early = TRUE
  MaxLines = 2
PROPERTY CancelEnds
