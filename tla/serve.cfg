SPECIFICATION FairSpec
CONSTANTS
  OutLimit = 2
  MaxReserve = 2
  Window = 1
  MaxHandlers = 2
  MaxOutput = 3
  MaxInput = 1
  EarlyReopen = FALSE
  StallsAtEnd = FALSE
INVARIANT OutputOnItsChannel
INVARIANT BudgetBalanced
INVARIANT NoOrphan
PROPERTY ConnectionEnds
PROPERTY WritersReleased
CHECK_DEADLOCK FALSE
