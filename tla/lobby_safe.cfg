\* The whole run with two matches, two collectors and a channel of one.
SPECIFICATION Spec
CONSTANTS
  Matches = {m1, m2}
  NoMatch = none
  Collectors = {c1, c2}
  QueueCap = 1
  ScanReasons = {"disconnected"}
  WatchReasons = {"timeout"}
  Early = FALSE
  MaxLines = 4
SYMMETRY Interchangeable
INVARIANTS TypeOK DoneClosedOnce LeavesNothing OneCollectorEach ResultHonest JoinSound
PROPERTIES WindsDown
