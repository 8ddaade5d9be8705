SPECIFICATION FairSpec
CONSTANTS
  OutLimit = 2
  MaxReserve = 2
  Window = 1
  MaxHandlers = 1
  MaxOutput = 1
  MaxInput = 0
  EarlyReopen = FALSE
  StallsAtEnd = TRUE
PROPERTY ConnectionEnds
CHECK_DEADLOCK FALSE
