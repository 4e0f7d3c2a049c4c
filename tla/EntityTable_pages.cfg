SPECIFICATION FairSpec
CONSTANTS
  Entities = {1, 2, 3}
  Matching = {1, 2}
  Owned = {1}
  Sizes = {1, 2}
  DefaultSize = 1
  TableNames <- AllTables
  Populations = {{}, {1, 2, 3}}
  MaxPicked = 1
  MaxSteps <- StepsOf
INVARIANTS TypeOK RowsAreTheAnswer RowsReachable TicksAreOwn
PROPERTIES AppliesTheTicks TypedIsShown
CHECK_DEADLOCK FALSE
