\* The same without faults, one file of each match.
SPECIFICATION FairSpec
CONSTANTS
  t1 = t1
  t2 = t2
  c1 = c1
  c2 = c2
  Pushes <- Twice
  Kinds <- OneKind
  Collectors = {c1, c2}
  MaxFaults = 0
  NoOne = NoOne
INVARIANT FinalUpdate
