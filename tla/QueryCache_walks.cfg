SPECIFICATION FairSpec
CONSTANTS
  MaxMoves = 1
  MaxChanges = 2
INVARIANTS TypeOK ViewIsCurrent
PROPERTIES ClosesOverItsList PolledIsCurrent
CHECK_DEADLOCK FALSE
