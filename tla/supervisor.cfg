\* Every --maxfails up to the default, 3.
SPECIFICATION FairSpec
CONSTANT MaxLimit = 3
INVARIANTS TypeOK NoBusyLoop
PROPERTIES CancelledEnds TroubleEnds
