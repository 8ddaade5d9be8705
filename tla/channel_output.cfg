SPECIFICATION Spec
CONSTANTS
  MaxPackets = {0, 2, 3}
  MaxChunks = {0, 1, 2}
  MaxWindow = 4
  MaxWrite = 3
  MaxBytes = 6
INVARIANT NothingLost
INVARIANT MessagesWellFormed
INVARIANT BudgetExact
PROPERTY DrainsExactly
CHECK_DEADLOCK FALSE
