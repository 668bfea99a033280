\* Every --maxfails up to the default, 3.
SPECIFICATION FairSpec
CONSTANT MaxLimit = 3
PROPERTY UnusedRestarted
