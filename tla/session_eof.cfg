SPECIFICATION FairSpec
CONSTANTS
  MaxAuthAttempts = 2
  MaxAuthRequests = 2
  Attempts = {"signature_ok"}
  MaxAttempts = 1
  Sizes = {1}
  MaxOpens = 1
  MaxRaw = 0
  MaxResizes = 0
  StrayRequests = FALSE
  EarlyCalls = TRUE
PROPERTY EofReachesProgram
CHECK_DEADLOCK FALSE
