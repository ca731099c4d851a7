SPECIFICATION FairSpec
CONSTANT MaxCancels = 2
INVARIANT ClosedLeavesNothing
PROPERTIES EndReachesReader InputEnds CloseEnds
CHECK_DEADLOCK FALSE
