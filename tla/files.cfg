\* Two collectors, one match pushed twice, both files of each, one fault.
SPECIFICATION FairSpec
CONSTANTS
  t1 = t1
  t2 = t2
  c1 = c1
  c2 = c2
  Pushes <- Twice
  Kinds <- BothKinds
  Collectors = {c1, c2}
  MaxFaults = 1
  NoOne = NoOne
INVARIANTS TypeOK OpenOnlyLocked BrokenReported NothingLost
PROPERTIES Uploaded
